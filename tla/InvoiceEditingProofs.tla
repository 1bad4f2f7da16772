------------------------ MODULE InvoiceEditingProofs ------------------------
(***************************************************************************)
(* Proofs about InvoiceEditing, for any invoices and any number of edits,  *)
(* saves and refreshes: saves of an invoice reach its row in the order of  *)
(* its revisions, none overwrites what another session wrote after it      *)
(* started, and "saved" is the truth.                                      *)
(***************************************************************************)
EXTENDS InvoiceEditing, FiniteSetTheorems, TLAPS

Entries == [invoice : Invoices, content : Contents, remote : BOOLEAN, revision : 0..MaxEdits]
Phases == {"queued", "reading", "writing", "finishing"}
Saves == [draft : [content : Contents, version : Nat], revision : 0..MaxEdits, map : Nat,
          phase : Phases, expected : Nat, landed : Nat]

Typed ==
    /\ committed \in Seq(Entries) /\ rows \in [Invoices -> Versions]
    /\ local \in [Invoices -> Records] /\ persisted \in Seq([Invoices -> Versions])
    /\ timer \in [Invoices -> {None} \cup [draft : Records, revision : 1..MaxEdits]]
    /\ revision \in [Invoices -> 0..MaxEdits]
    /\ saveState \in {"saved", "saving", "unsaved", "error"}
    /\ selected \in Invoices \cup {None}
    /\ loading \in {None} \cup [Invoices -> Records]
    /\ flushes \in 0..MaxFlushes

(* A save holds a draft and a map of this session, and what it has written *)
(* is in the history where it landed.                                      *)
SaveOK(save) ==
    /\ save.draft \in Records /\ save.map \in DOMAIN persisted
    /\ save.phase = "finishing" =>
          save.landed \in Versions /\ committed[save.landed].content = save.draft.content
QueueKept ==
    /\ queue \in [Invoices -> Seq(Saves)]
    /\ \A i \in Invoices : \A k \in DOMAIN queue[i] :
          SaveOK(queue[i][k]) /\ (k > 1 => queue[i][k].phase = "queued")

(* The row is the last write of its invoice.                               *)
LastWritten(i) == \A v \in Versions : committed[v].invoice = i => v <= rows[i]

(* An armed timer holds the newest draft, the queue none newer than any    *)
(* behind it, and the history none newer than the queue.                   *)
Sequenced(i) ==
    /\ timer[i] # None => /\ timer[i].revision = revision[i]
                          /\ \A k \in DOMAIN queue[i] : queue[i][k].revision < revision[i]
    /\ \A k \in DOMAIN queue[i] :
          /\ queue[i][k].revision <= revision[i]
          /\ \A l \in DOMAIN queue[i] : k <= l => queue[i][k].revision <= queue[i][l].revision
    /\ \A v \in Versions :
          committed[v].invoice = i =>
              /\ committed[v].revision <= revision[i]
              /\ \A k \in DOMAIN queue[i] : committed[v].revision <= queue[i][k].revision

Kept ==
    /\ Typed /\ QueueKept /\ 1 \in DOMAIN persisted
    /\ \A i \in Invoices : LastWritten(i) /\ Sequenced(i)

(***************************************************************************)
(* Sequences that grow at the end, change at the head and shrink there.    *)
(***************************************************************************)
LEMMA Appended ==
    ASSUME NEW S, NEW q \in Seq(S), NEW x \in S
    PROVE  /\ Append(q, x) \in Seq(S) /\ Len(Append(q, x)) = Len(q) + 1
           /\ Append(q, x)[Len(q) + 1] = x
           /\ \A k \in 1..Len(q) : Append(q, x)[k] = q[k]
OBVIOUS

LEMMA HeadChanged ==
    ASSUME NEW S, NEW q \in Seq(S), q # <<>>, NEW x \in S
    PROVE  LET r == <<x>> \o Tail(q)
           IN  /\ r \in Seq(S) /\ Len(r) = Len(q) /\ Len(q) > 0 /\ r[1] = x
               /\ \A k \in 2..Len(q) : r[k] = q[k]
<1>1. Tail(q) \in Seq(S) /\ Len(Tail(q)) = Len(q) - 1 /\ Len(q) > 0 /\ Len(q) \in Nat
  OBVIOUS
<1>2. \A k \in 1..(Len(q) - 1) : Tail(q)[k] = q[k + 1]
  OBVIOUS
<1>3. PICK t : t = Tail(q)
  OBVIOUS
<1>4. <<x>> \o t \in Seq(S) /\ Len(<<x>> \o t) = 1 + Len(t) /\ (<<x>> \o t)[1] = x
      /\ \A k \in 2..(1 + Len(t)) : (<<x>> \o t)[k] = t[k - 1]
  BY <1>1, <1>3
<1>5. \A k \in 2..Len(q) : k - 1 \in 1..(Len(q) - 1) /\ (k - 1) + 1 = k
  BY <1>1
<1> QED
  BY <1>1, <1>2, <1>3, <1>4, <1>5

LEMMA Popped ==
    ASSUME NEW S, NEW q \in Seq(S), q # <<>>
    PROVE  /\ Tail(q) \in Seq(S) /\ Len(Tail(q)) = Len(q) - 1 /\ Len(q) > 0
           /\ \A k \in 1..Len(Tail(q)) : Tail(q)[k] = q[k + 1]
OBVIOUS

(***************************************************************************)
(* Types.                                                                  *)
(***************************************************************************)
(* The history only grows.                                                 *)
Grows ==
    /\ committed' \in Seq(Entries) /\ Len(committed) <= Len(committed')
    /\ \A v \in Versions : committed'[v] = committed[v]

LEMMA HistoryGrows ==
    ASSUME committed \in Seq(Entries), UNCHANGED committed
    PROVE  Grows
BY DEF Grows, Versions

LEMMA HistoryAppends ==
    ASSUME committed \in Seq(Entries), NEW e \in Entries, committed' = Append(committed, e)
    PROVE  /\ Grows /\ Len(committed') = Len(committed) + 1 /\ committed'[Len(committed')] = e
           /\ Versions' = Versions \cup {Len(committed')} /\ Len(committed) \in Nat
<1>1. /\ Append(committed, e) \in Seq(Entries) /\ Len(Append(committed, e)) = Len(committed) + 1
      /\ Append(committed, e)[Len(committed) + 1] = e
      /\ \A k \in 1..Len(committed) : Append(committed, e)[k] = committed[k]
  BY Appended
<1>2. Len(committed) \in Nat
  OBVIOUS
<1> QED
  BY <1>1, <1>2 DEF Grows, Versions

LEMMA RecordsStay ==
    ASSUME committed \in Seq(Entries), Grows
    PROVE  /\ \A v \in Versions : v \in Versions'
           /\ \A r \in Records : r \in Records'
<1>1. \A v \in Versions : v \in Versions'
  BY DEF Grows, Versions
<1> QED
  BY <1>1 DEF Records

LEMMA RowIsARecord ==
    ASSUME Typed, NEW i \in Invoices
    PROVE  Row(i) \in Records
<1>1. rows[i] \in Versions /\ committed \in Seq(Entries)
  BY DEF Typed
<1>2. committed[rows[i]].content \in Contents
  <2>1. committed[rows[i]] \in Entries
    BY <1>1 DEF Versions
  <2> QED
    BY <2>1 DEF Entries
<1> QED
  BY <1>1, <1>2 DEF Row, Records

LEMMA NextRemote ==
    ASSUME Typed, Cardinality(Edits) < MaxRemote
    PROVE  Cardinality(Edits) + 1 \in 1..MaxRemote
<1>1. committed \in Seq(Entries)
  BY DEF Typed
<1> DEFINE all == {"remote"} \X (1..MaxRemote)
<1>2. Edits \in SUBSET all
  <2>1. SUFFICES ASSUME NEW v \in Versions, NEW e \in committed[v].content, e[1] = "remote"
                 PROVE  e \in all
    BY DEF Edits
  <2>2. committed[v].content \in Contents
    <3>1. committed[v] \in Entries
      BY <1>1 DEF Versions
    <3> QED
      BY <3>1 DEF Entries
  <2>3. e \in {Own(n) : n \in 1..MaxEdits} \cup {Remote(n) : n \in 1..MaxRemote}
    BY <2>2 DEF Contents
  <2> QED
    BY <2>1, <2>3 DEF Own, Remote
<1>3. IsFiniteSet(1..MaxRemote) /\ IsFiniteSet({"remote"})
  <2>1. MaxRemote \in Int /\ 1 \in Int
    BY BoundsAssumption
  <2>2. IsFiniteSet(1..MaxRemote)
    BY <2>1, FS_Interval
  <2>3. \A x : IsFiniteSet({x})
    BY FS_Singleton
  <2> QED
    BY <2>2, <2>3
<1>4. IsFiniteSet(all)
  BY <1>3, FS_Product
<1>5. Cardinality(Edits) \in Nat
  BY <1>2, <1>4, FS_Subset, FS_CardinalityType
<1> QED
  BY <1>5, BoundsAssumption

LEMMA SaveStaysOK ==
    ASSUME committed \in Seq(Entries), Grows, DOMAIN persisted \subseteq DOMAIN persisted',
           NEW save, SaveOK(save)
    PROVE  SaveOK(save)'
BY RecordsStay DEF Grows, SaveOK

(* A step that lets one invoice's queue grow at the end, change at its     *)
(* head or shrink there.                                                   *)
LEMMA QueueStep ==
    ASSUME committed \in Seq(Entries), QueueKept, Grows, DOMAIN persisted \subseteq DOMAIN persisted',
           NEW i \in Invoices, NEW save,
           \/ UNCHANGED queue
           \/ Enqueue(i, save) /\ save \in Saves /\ SaveOK(save)' /\ save.phase = "queued"
           \/ queue[i] # <<>> /\ SetHead(i, save) /\ save \in Saves /\ SaveOK(save)'
           \/ queue[i] # <<>> /\ Pop(i)
    PROVE  QueueKept'
<1>1. queue \in [Invoices -> Seq(Saves)] /\ queue[i] \in Seq(Saves)
  BY DEF QueueKept
<1>2. PICK q, r : q = queue[i] /\ r = queue'[i]
  OBVIOUS
<1>3. q \in Seq(Saves) /\ Len(q) \in Nat /\ DOMAIN q = 1..Len(q)
  BY <1>1, <1>2
<1>4. \A k \in 1..Len(q) : SaveOK(q[k])' /\ (k > 1 => q[k].phase = "queued")
  <2>1. \A k \in 1..Len(q) : SaveOK(q[k]) /\ (k > 1 => q[k].phase = "queued")
    BY <1>2, <1>3 DEF QueueKept
  <2> QED
    BY <2>1, SaveStaysOK
<1>5. ASSUME r \in Seq(Saves), queue' = [queue EXCEPT ![i] = r],
             \A k \in 1..Len(r) : SaveOK(r[k])' /\ (k > 1 => r[k].phase = "queued")
      PROVE  QueueKept'
  <2>1. queue' \in [Invoices -> Seq(Saves)]
    BY <1>1, <1>5
  <2>2. ASSUME NEW j \in Invoices, NEW k \in DOMAIN queue'[j], NEW x, x = queue'[j][k]
        PROVE  SaveOK(x)' /\ (k > 1 => x.phase = "queued")
    <3>1. CASE j = i
      <4>1. queue'[j] = r
        BY <1>1, <1>5, <3>1
      <4>2. DOMAIN r = 1..Len(r)
        BY <1>5
      <4>3. x = r[k] /\ k \in 1..Len(r)
        BY <2>2, <4>1, <4>2
      <4> QED
        BY <1>5, <4>3
    <3>2. CASE j # i
      <4>1. queue'[j] = queue[j]
        BY <1>1, <1>5, <3>2
      <4>2. SaveOK(x) /\ (k > 1 => x.phase = "queued")
        BY <2>2, <4>1 DEF QueueKept
      <4> QED
        BY <4>2, SaveStaysOK
    <3> QED
      BY <3>1, <3>2
  <2> QED
    BY <2>1, <2>2 DEF QueueKept
<1>6. CASE UNCHANGED queue
  <2>1. r = q /\ queue' = [queue EXCEPT ![i] = r]
    BY <1>1, <1>2, <1>6
  <2> QED
    BY <1>3, <1>4, <1>5, <2>1
<1>7. CASE Enqueue(i, save) /\ save \in Saves /\ SaveOK(save)' /\ save.phase = "queued"
  <2>1. r = Append(q, save) /\ queue' = [queue EXCEPT ![i] = r]
    BY <1>1, <1>2, <1>7 DEF Enqueue
  <2>2. /\ r \in Seq(Saves) /\ Len(r) = Len(q) + 1 /\ r[Len(q) + 1] = save
        /\ \A k \in 1..Len(q) : r[k] = q[k]
    BY <1>3, <1>7, <2>1, Appended
  <2>3. \A k \in 1..Len(r) : r[k] = save \/ (k \in 1..Len(q) /\ r[k] = q[k])
    BY <1>3, <2>2
  <2> QED
    BY <1>4, <1>5, <1>7, <2>1, <2>2, <2>3
<1>8. CASE queue[i] # <<>> /\ SetHead(i, save) /\ save \in Saves /\ SaveOK(save)'
  <2>1. r = <<save>> \o Tail(q) /\ queue' = [queue EXCEPT ![i] = r]
    BY <1>1, <1>2, <1>8 DEF SetHead
  <2>2. /\ r \in Seq(Saves) /\ Len(r) = Len(q) /\ r[1] = save
        /\ \A k \in 2..Len(q) : r[k] = q[k]
    BY <1>2, <1>3, <1>8, <2>1, HeadChanged
  <2>3. \A k \in 1..Len(r) : (k = 1 /\ r[k] = save) \/ (k \in 1..Len(q) /\ r[k] = q[k])
    BY <1>3, <2>2
  <2> QED
    BY <1>4, <1>5, <1>8, <2>1, <2>2, <2>3
<1>9. CASE queue[i] # <<>> /\ Pop(i)
  <2>1. r = Tail(q) /\ queue' = [queue EXCEPT ![i] = r]
    BY <1>1, <1>2, <1>9 DEF Pop
  <2>2. r \in Seq(Saves) /\ Len(r) = Len(q) - 1 /\ \A k \in 1..Len(r) : r[k] = q[k + 1]
    BY <1>2, <1>3, <1>9, <2>1, Popped
  <2>3. \A k \in 1..Len(r) : k + 1 \in 1..Len(q) /\ k + 1 > 1
    BY <1>3, <2>2
  <2> QED
    BY <1>4, <1>5, <2>1, <2>2, <2>3
<1> QED
  BY <1>6, <1>7, <1>8, <1>9

LEMMA KeptIsTyped ==
    ASSUME Typed, QueueKept
    PROVE  TypeOK
<1>1. ASSUME NEW i \in Invoices, NEW k \in DOMAIN queue[i]
      PROVE  /\ queue[i][k].draft \in Records /\ queue[i][k].map \in DOMAIN persisted
             /\ queue[i][k].phase \in Phases /\ (queue[i][k].phase # "queued" => k = 1)
  <2>1. queue[i] \in Seq(Saves)
    BY DEF QueueKept
  <2>2. queue[i][k] \in Saves /\ k \in Nat /\ k > 0
    BY <2>1
  <2>3. SaveOK(queue[i][k]) /\ (k > 1 => queue[i][k].phase = "queued")
    BY DEF QueueKept
  <2> QED
    BY <2>2, <2>3 DEF SaveOK, Saves
<1> QED
  BY <1>1 DEF TypeOK, Typed, Entries, Phases

(* The oldest save of an invoice.                                          *)
LEMMA OldestIs ==
    ASSUME Typed, QueueKept, NEW i \in Invoices, queue[i] # <<>>
    PROVE  /\ Oldest(i) \in Saves /\ SaveOK(Oldest(i)) /\ queue[i] \in Seq(Saves) /\ 1 \in DOMAIN queue[i]
           /\ persisted[Oldest(i).map] \in [Invoices -> Versions]
           /\ Oldest(i).draft.content \in Contents
<1>1. queue[i] \in Seq(Saves)
  BY DEF QueueKept
<1>2. 1 \in DOMAIN queue[i] /\ Oldest(i) \in Saves
  BY <1>1 DEF Oldest
<1>3. SaveOK(Oldest(i))
  BY <1>2 DEF QueueKept, Oldest
<1>4. persisted[Oldest(i).map] \in [Invoices -> Versions]
  BY <1>3 DEF SaveOK, Typed
<1> QED
  BY <1>1, <1>2, <1>3, <1>4 DEF SaveOK, Records

LEMMA WrittenIsAnEntry ==
    ASSUME Typed, QueueKept, NEW i \in Invoices, queue[i] # <<>>
    PROVE  Written(i) \in Entries /\ Written(i).content = Oldest(i).draft.content
BY OldestIs DEF Written, Entries, Saves

(* A step that leaves the history alone.                                   *)
LEMMA TypedWithoutWrite ==
    ASSUME Typed, QueueKept, [Next]_vars, UNCHANGED <<committed, rows>>
    PROVE  Typed'
<1>1. Versions' = Versions /\ Records' = Records
  BY DEF Versions, Records
<1>2. committed' \in Seq(Entries) /\ rows' \in [Invoices -> Versions]
  BY DEF Typed
<1> USE DEF Typed
<1>3. ASSUME NEW i \in Invoices, Edit(i) PROVE Typed'
  <2>1. PICK next, draft : /\ next = revision[i] + 1
                           /\ draft = [local[i] EXCEPT !.content = @ \cup {Own(next)}]
    OBVIOUS
  <2>2. next \in 1..MaxEdits /\ MaxEdits \in Nat
    BY <1>3, <2>1, BoundsAssumption DEF Edit
  <2>3. draft \in Records
    <3>1. local[i] \in Records /\ Own(next) \in {Own(n) : n \in 1..MaxEdits}
      BY <2>2
    <3> QED
      BY <2>1, <3>1 DEF Records, Contents
  <2>4. /\ revision' = [revision EXCEPT ![i] = next] /\ local' = [local EXCEPT ![i] = draft]
        /\ timer' = [timer EXCEPT ![i] = [draft |-> draft, revision |-> next]]
        /\ saveState' = "unsaved" /\ UNCHANGED <<persisted, selected, loading, flushes>>
    BY <1>3, <2>1 DEF Edit
  <2> QED
    BY <1>1, <1>2, <2>2, <2>3, <2>4
<1>4. ASSUME NEW i \in Invoices, TimerFires(i) PROVE Typed'
  BY <1>1, <1>2, <1>4 DEF TimerFires
<1>5. ASSUME NEW i \in Invoices, Flush(i) PROVE Typed'
  <2>1. flushes' \in 0..MaxFlushes
    BY <1>5, BoundsAssumption DEF Flush
  <2> QED
    BY <1>1, <1>2, <1>5, <2>1 DEF Flush
<1>6. ASSUME NEW i \in Invoices, StartSave(i) \/ CheckRow(i) PROVE Typed'
  BY <1>1, <1>2, <1>6 DEF StartSave, CheckRow
<1>7. ASSUME NEW i \in Invoices, Reject(i) PROVE Typed'
  BY <1>1, <1>2, <1>7 DEF Reject
<1>8. ASSUME NEW i \in Invoices, FinishSave(i) PROVE Typed'
  <2>1. PICK save : save = Oldest(i)
    OBVIOUS
  <2>2. queue[i] # <<>> /\ save.phase = "finishing"
    BY <1>8, <2>1 DEF FinishSave
  <2>3. /\ save.landed \in Versions /\ save.draft.content \in Contents /\ save.map \in DOMAIN persisted
        /\ persisted[save.map] \in [Invoices -> Versions]
    BY <2>1, <2>2, OldestIs DEF SaveOK
  <2>4. PICK map : map = [persisted[save.map] EXCEPT ![i] = save.landed]
    OBVIOUS
  <2>5. persisted' = [persisted EXCEPT ![save.map] = map] /\ map \in [Invoices -> Versions]
    BY <1>8, <2>1, <2>3, <2>4 DEF FinishSave
  <2>6. persisted' \in Seq([Invoices -> Versions])
    BY <2>3, <2>5
  <2>7. local' \in [Invoices -> Records] /\ saveState' \in {"saved", "saving", "unsaved", "error"}
    <3>1. PICK shown : shown = [content |-> save.draft.content, version |-> save.landed]
      OBVIOUS
    <3>2. shown \in Records
      BY <2>3, <3>1 DEF Records
    <3>3. \/ local' = [local EXCEPT ![i] = shown] /\ saveState' = "saved"
          \/ UNCHANGED <<local, saveState>>
      BY <1>8, <2>1, <3>1 DEF FinishSave
    <3> QED
      BY <3>2, <3>3
  <2>8. UNCHANGED <<timer, revision, selected, loading, flushes>>
    BY <1>8 DEF FinishSave
  <2> QED
    BY <1>1, <1>2, <2>6, <2>7, <2>8
<1>9. ASSUME NEW i \in Invoices, Open(i) PROVE Typed'
  BY <1>1, <1>2, <1>9 DEF Open
<1>10. CASE RefreshReads
  <2>1. loading' \in [Invoices -> Records]
    BY <1>10, RowIsARecord DEF RefreshReads
  <2> QED
    BY <1>1, <1>2, <1>10, <2>1 DEF RefreshReads
<1>11. CASE RefreshApplies
  <2>1. loading \in [Invoices -> Records] /\ loading' = None
    BY <1>11 DEF RefreshApplies
  <2>2. local' \in [Invoices -> Records]
    BY <1>11, <2>1 DEF RefreshApplies
  <2>3. PICK map : map = [i \in Invoices |-> loading[i].version]
    OBVIOUS
  <2>4. map \in [Invoices -> Versions]
    BY <2>1, <2>3 DEF Records
  <2>5. persisted' = Append(persisted, map)
    BY <1>11, <2>3 DEF RefreshApplies
  <2>6. persisted' \in Seq([Invoices -> Versions])
    BY <2>4, <2>5
  <2>7. UNCHANGED <<timer, revision, saveState, selected, flushes>>
    BY <1>11 DEF RefreshApplies
  <2> QED
    BY <1>1, <1>2, <2>1, <2>2, <2>6, <2>7
<1>12. CASE Leave
  BY <1>1, <1>2, <1>12 DEF Leave
<1>13. CASE UNCHANGED vars
  BY <1>1, <1>2, <1>13 DEF vars
<1>14. ASSUME NEW i \in Invoices, WriteRow(i) \/ RemoteEdit(i) PROVE FALSE
  <2>1. committed \in Seq(Entries)
    OBVIOUS
  <2>2. \E x : committed' = Append(committed, x)
    BY <1>14 DEF WriteRow, RemoteEdit
  <2> QED
    BY <2>1, <2>2
<1> QED
  BY <1>3, <1>4, <1>5, <1>6, <1>7, <1>8, <1>9, <1>10, <1>11, <1>12, <1>13, <1>14
  DEF Next, SaveStep, Conflict, SaveFails

(* A step that writes the row of an invoice.                               *)
LEMMA TypedWithWrite ==
    ASSUME Typed, NEW i \in Invoices, NEW x \in Entries, committed' = Append(committed, x),
           rows' = [rows EXCEPT ![i] = Len(committed')],
           UNCHANGED <<local, persisted, timer, revision, selected, loading, flushes, saveState>>
    PROVE  Typed'
<1>1. Grows /\ Versions' = Versions \cup {Len(committed')}
  BY HistoryAppends DEF Typed
<1>2. (\A v \in Versions : v \in Versions') /\ (\A r \in Records : r \in Records')
  BY <1>1, RecordsStay DEF Typed
<1>3. rows' \in [Invoices -> Versions'] /\ committed' \in Seq(Entries)
  BY <1>1 DEF Typed, Grows
<1>4. /\ local \in [Invoices -> Records'] /\ loading \in {None} \cup [Invoices -> Records']
      /\ timer \in [Invoices -> {None} \cup [draft : Records', revision : 1..MaxEdits]]
  BY <1>2 DEF Typed
<1>5. persisted \in Seq([Invoices -> Versions'])
  <2>1. PICK S, T : S = [Invoices -> Versions] /\ T = [Invoices -> Versions']
    OBVIOUS
  <2>2. S \subseteq T
    BY <1>2, <2>1
  <2>3. persisted \in Seq(S)
    BY <2>1 DEF Typed
  <2>4. persisted \in Seq(T)
    BY <2>2, <2>3
  <2> QED
    BY <2>1, <2>4
<1> QED
  BY <1>3, <1>4, <1>5 DEF Typed

Appends(i, x) ==
    /\ x \in Entries /\ x.invoice = i
    /\ committed' = Append(committed, x) /\ rows' = [rows EXCEPT ![i] = Len(committed')]

LEMMA WriteAppends ==
    ASSUME Typed, QueueKept, NEW i \in Invoices, WriteRow(i)
    PROVE  /\ queue[i] # <<>> /\ Appends(i, Written(i))
           /\ UNCHANGED <<local, persisted, timer, revision, selected, loading, flushes, saveState>>
<1>1. queue[i] # <<>> /\ committed' = Append(committed, Written(i)) /\ rows' = [rows EXCEPT ![i] = Len(committed')]
  BY DEF WriteRow
<1>2. Written(i) \in Entries /\ Written(i).invoice = i
  BY <1>1, WrittenIsAnEntry DEF Written
<1> QED
  BY <1>1, <1>2 DEF WriteRow, Appends

LEMMA RemoteAppends ==
    ASSUME Typed, NEW i \in Invoices, RemoteEdit(i)
    PROVE  /\ \E x : Appends(i, x) /\ x.remote /\ x.revision = 0
           /\ UNCHANGED <<local, persisted, timer, revision, queue, selected, loading, flushes, saveState>>
<1>1. PICK x : x = [invoice |-> i, remote |-> TRUE, revision |-> 0,
                    content |-> Row(i).content \cup {Remote(Cardinality(Edits) + 1)}]
  OBVIOUS
<1>2. committed' = Append(committed, x) /\ rows' = [rows EXCEPT ![i] = Len(committed')]
  BY <1>1 DEF RemoteEdit
<1>3. x.content \in Contents
  <2>1. Row(i).content \in Contents
    BY RowIsARecord DEF Records
  <2>2. Cardinality(Edits) + 1 \in 1..MaxRemote
    BY NextRemote DEF RemoteEdit
  <2> QED
    BY <1>1, <2>1, <2>2 DEF Contents
<1>4. 0 \in 0..MaxEdits
  BY BoundsAssumption
<1>5. x \in Entries /\ x.invoice = i /\ x.remote /\ x.revision = 0
  BY <1>1, <1>3, <1>4 DEF Entries
<1> QED
  BY <1>2, <1>5 DEF RemoteEdit, Appends

(* What a step does to the history.                                        *)
LEMMA HistoryStep ==
    ASSUME Typed, QueueKept, [Next]_vars
    PROVE  \/ UNCHANGED <<committed, rows>>
           \/ \E i \in Invoices, x \in Entries :
                 /\ Appends(i, x)
                 /\ UNCHANGED <<local, persisted, timer, revision, selected, loading, flushes, saveState>>
<1>1. ASSUME NEW i \in Invoices, WriteRow(i)
      PROVE  \E x \in Entries :
                /\ Appends(i, x)
                /\ UNCHANGED <<local, persisted, timer, revision, selected, loading, flushes, saveState>>
  BY <1>1, WriteAppends DEF Appends
<1>2. ASSUME NEW i \in Invoices, RemoteEdit(i)
      PROVE  \E x \in Entries :
                /\ Appends(i, x)
                /\ UNCHANGED <<local, persisted, timer, revision, selected, loading, flushes, saveState>>
  BY <1>2, RemoteAppends DEF Appends
<1> QED
  BY <1>1, <1>2 DEF Next, SaveStep, Conflict, SaveFails, Edit, TimerFires, Flush, StartSave, CheckRow, FinishSave,
                    Reject, Open, RefreshReads, RefreshApplies, Leave, vars

LEMMA TypedStep ==
    ASSUME Typed, QueueKept, [Next]_vars
    PROVE  Typed' /\ Grows
<1>1. CASE UNCHANGED <<committed, rows>>
  BY <1>1, TypedWithoutWrite, HistoryGrows DEF Typed
<1>2. ASSUME NEW i \in Invoices, NEW x \in Entries, Appends(i, x),
             UNCHANGED <<local, persisted, timer, revision, selected, loading, flushes, saveState>>
      PROVE  Typed' /\ Grows
  BY <1>2, TypedWithWrite, HistoryAppends DEF Typed, Appends
<1> QED
  BY <1>1, <1>2, HistoryStep

(* What a step does to the queue, the timer and the revision of one        *)
(* invoice and to the history.                                             *)
Drafts(i) ==
    /\ revision' = [revision EXCEPT ![i] = @ + 1] /\ UNCHANGED <<queue, committed, rows>>
    /\ timer' = [timer EXCEPT ![i] = timer'[i]] /\ timer'[i].revision = revision'[i]
Requests(i, save) ==
    /\ Enqueue(i, save) /\ save \in Saves /\ SaveOK(save)' /\ save.phase = "queued"
    /\ save.revision = revision[i] /\ timer' = [timer EXCEPT ![i] = None]
    /\ UNCHANGED <<revision, committed, rows>>
Proceeds(i, save) ==
    /\ queue[i] # <<>> /\ SetHead(i, save) /\ save \in Saves /\ SaveOK(save)'
    /\ save.revision = Oldest(i).revision /\ UNCHANGED <<revision, timer>>
    /\ UNCHANGED <<committed, rows>> \/ Appends(i, Written(i))
Settles(i) ==
    queue[i] # <<>> /\ Pop(i) /\ UNCHANGED <<revision, timer, committed, rows>>
Overtakes(i, x) ==
    UNCHANGED <<queue, revision, timer>> /\ Appends(i, x) /\ x.revision = 0
Rests == UNCHANGED <<queue, revision, timer, committed, rows>>

LEMMA Shapes ==
    ASSUME Kept, [Next]_vars
    PROVE  /\ Rests \/ \E i \in Invoices : \/ Drafts(i) \/ Settles(i)
                                         \/ \E x : Requests(i, x) \/ Proceeds(i, x) \/ Overtakes(i, x)
           /\ DOMAIN persisted \subseteq DOMAIN persisted'
<1>1. Typed /\ QueueKept /\ 1 \in DOMAIN persisted /\ \A i \in Invoices : Sequenced(i)
  BY DEF Kept
<1>2. Typed' /\ Grows
  BY <1>1, TypedStep
<1>3. DOMAIN persisted \subseteq DOMAIN persisted'
  <2>1. persisted \in Seq([Invoices -> Versions])
    BY <1>1 DEF Typed
  <2>2. ASSUME NEW i \in Invoices, FinishSave(i) PROVE DOMAIN persisted \subseteq DOMAIN persisted'
    BY <2>2 DEF FinishSave
  <2>3. CASE RefreshApplies
    BY <2>1, <2>3 DEF RefreshApplies
  <2>4. ASSUME UNCHANGED persisted PROVE DOMAIN persisted \subseteq DOMAIN persisted'
    BY <2>4
  <2> QED
    BY <2>2, <2>3, <2>4 DEF Next, SaveStep, Conflict, SaveFails, Edit, TimerFires, Flush, StartSave, CheckRow, WriteRow,
                    RemoteEdit, Reject, Open, RefreshReads, Leave, vars
<1>4. ASSUME NEW i \in Invoices, Edit(i) PROVE Drafts(i)
  <2>1. timer' = [timer EXCEPT ![i] = timer'[i]] /\ timer'[i].revision = revision[i] + 1
    BY <1>1, <1>4 DEF Edit, Typed
  <2>2. revision'[i] = revision[i] + 1
    BY <1>1, <1>4 DEF Edit, Typed
  <2> QED
    BY <1>4, <2>1, <2>2 DEF Edit, Drafts
<1>5. ASSUME NEW draft \in Records, NEW rev \in 0..MaxEdits, UNCHANGED <<committed, persisted>>,
             NEW save, save = Save(draft, rev)
      PROVE  save \in Saves /\ SaveOK(save)' /\ save.phase = "queued" /\ save.revision = rev
  <2>1. Len(persisted) \in Nat /\ Len(persisted) \in DOMAIN persisted
    BY <1>1 DEF Typed
  <2> QED
    BY <1>5, <2>1 DEF Save, Saves, SaveOK, Phases, Records, Versions
<1>6. ASSUME NEW i \in Invoices, TimerFires(i) PROVE \E x : Requests(i, x)
  <2>1. timer[i] # None /\ timer[i].revision = revision[i] /\ timer[i].draft \in Records /\ revision[i] \in 0..MaxEdits
    BY <1>1, <1>6 DEF TimerFires, Sequenced, Typed
  <2>2. PICK save : save = Save(timer[i].draft, timer[i].revision)
    OBVIOUS
  <2>3. Enqueue(i, save) /\ timer' = [timer EXCEPT ![i] = None] /\ UNCHANGED <<revision, committed, rows, persisted>>
    BY <1>6, <2>2 DEF TimerFires
  <2>4. save \in Saves /\ SaveOK(save)' /\ save.phase = "queued" /\ save.revision = revision[i]
    BY <1>5, <2>1, <2>2, <2>3
  <2> QED
    BY <2>3, <2>4 DEF Requests
<1>7. ASSUME NEW i \in Invoices, Flush(i) PROVE \E x : Requests(i, x)
  <2>1. local[i] \in Records /\ revision[i] \in 0..MaxEdits
    BY <1>1 DEF Typed
  <2>2. PICK save : save = Save(local[i], revision[i])
    OBVIOUS
  <2>3. Enqueue(i, save) /\ timer' = [timer EXCEPT ![i] = None] /\ UNCHANGED <<revision, committed, rows, persisted>>
    BY <1>7, <2>2 DEF Flush
  <2>4. save \in Saves /\ SaveOK(save)' /\ save.phase = "queued" /\ save.revision = revision[i]
    BY <1>5, <2>1, <2>2, <2>3
  <2> QED
    BY <2>3, <2>4 DEF Requests
<1>8. ASSUME NEW i \in Invoices, StartSave(i) \/ CheckRow(i) PROVE \E x : Proceeds(i, x)
  <2>1. queue[i] # <<>> /\ UNCHANGED <<revision, timer, committed, rows, persisted>>
    BY <1>8 DEF StartSave, CheckRow
  <2>2. PICK old : old = Oldest(i)
    OBVIOUS
  <2>3. old \in Saves /\ SaveOK(old) /\ persisted[old.map][i] \in Nat
    BY <1>1, <2>1, <2>2, OldestIs DEF Versions
  <2>4. PICK save : /\ SetHead(i, save)
                    /\ \/ save = [old EXCEPT !.phase = "reading", !.expected = persisted[old.map][i]]
                       \/ save = [old EXCEPT !.phase = "writing"]
    BY <1>8, <2>2 DEF StartSave, CheckRow
  <2>5. /\ save \in Saves /\ save.revision = old.revision /\ save.draft = old.draft /\ save.map = old.map
        /\ save.phase # "finishing"
    BY <2>3, <2>4 DEF Saves, Phases
  <2>6. SaveOK(save)'
    BY <2>1, <2>3, <2>5 DEF SaveOK, Records, Versions
  <2> QED
    BY <2>1, <2>2, <2>4, <2>5, <2>6 DEF Proceeds
<1>9. ASSUME NEW i \in Invoices, WriteRow(i) PROVE \E x : Proceeds(i, x)
  <2>1. PICK old : old = Oldest(i)
    OBVIOUS
  <2>2. queue[i] # <<>> /\ Appends(i, Written(i)) /\ UNCHANGED <<revision, timer, persisted>>
    BY <1>1, <1>9, WriteAppends
  <2>3. PICK save : save = [old EXCEPT !.phase = "finishing", !.landed = Len(committed')]
    OBVIOUS
  <2>4. SetHead(i, save)
    BY <1>9, <2>1, <2>3 DEF WriteRow
  <2>5. /\ old \in Saves /\ SaveOK(old) /\ Written(i) \in Entries /\ Written(i).content = old.draft.content
    BY <1>1, <2>1, <2>2, OldestIs, WrittenIsAnEntry
  <2>6. /\ Len(committed') = Len(committed) + 1 /\ committed'[Len(committed')] = Written(i)
        /\ Versions' = Versions \cup {Len(committed')} /\ Len(committed) \in Nat
    BY <1>1, <2>2, <2>5, HistoryAppends DEF Typed, Appends
  <2>7. /\ save \in Saves /\ save.revision = old.revision /\ save.draft = old.draft /\ save.map = old.map
        /\ save.landed = Len(committed')
    <3>1. PICK n \in Nat : n = Len(committed')
      BY <2>6
    <3>2. save = [old EXCEPT !.phase = "finishing", !.landed = n]
      BY <2>3, <3>1
    <3> QED
      BY <2>5, <3>1, <3>2 DEF Saves, Phases
  <2>8. old.draft \in Records'
    BY <1>1, <1>2, <2>5, RecordsStay DEF SaveOK, Typed
  <2>9. SaveOK(save)'
    BY <2>2, <2>5, <2>6, <2>7, <2>8 DEF SaveOK
  <2> QED
    BY <2>1, <2>2, <2>4, <2>7, <2>9 DEF Proceeds
<1>10. ASSUME NEW i \in Invoices, RemoteEdit(i) PROVE \E x : Overtakes(i, x)
  BY <1>1, <1>10, RemoteAppends DEF Overtakes
<1>11. ASSUME NEW i \in Invoices, Conflict(i) \/ SaveFails(i) \/ FinishSave(i) PROVE Settles(i)
  BY <1>11 DEF Conflict, SaveFails, Reject, FinishSave, Settles
<1>12. ASSUME NEW i \in Invoices, Open(i) PROVE Rests
  BY <1>12 DEF Open, Rests
<1>13. RefreshReads \/ RefreshApplies \/ Leave \/ UNCHANGED vars => Rests
  BY DEF RefreshReads, RefreshApplies, Leave, vars, Rests
<1> QED
  BY <1>3, <1>4, <1>6, <1>7, <1>8, <1>9, <1>10, <1>11, <1>12, <1>13 DEF Next, SaveStep

(***************************************************************************)
(* The order of revisions.                                                 *)
(***************************************************************************)
LEMMA QueuesStay ==
    ASSUME Kept, [Next]_vars
    PROVE  QueueKept'
<1>1. Typed /\ QueueKept /\ committed \in Seq(Entries)
  BY DEF Kept, Typed
<1>2. Grows /\ DOMAIN persisted \subseteq DOMAIN persisted'
  BY <1>1, TypedStep, Shapes
<1>3. ASSUME NEW i \in Invoices, NEW x, Requests(i, x) \/ Proceeds(i, x) \/ Overtakes(i, x) \/ Settles(i) \/ Drafts(i)
      PROVE  QueueKept'
  <2>1. \/ UNCHANGED queue
        \/ Enqueue(i, x) /\ x \in Saves /\ SaveOK(x)' /\ x.phase = "queued"
        \/ queue[i] # <<>> /\ SetHead(i, x) /\ x \in Saves /\ SaveOK(x)'
        \/ queue[i] # <<>> /\ Pop(i)
    BY <1>3 DEF Requests, Proceeds, Overtakes, Settles, Drafts
  <2> QED
    BY <1>1, <1>2, <2>1, QueueStep
<1>4. CASE Rests
  <2>1. UNCHANGED queue
    BY <1>4 DEF Rests
  <2>2. ASSUME NEW i \in Invoices PROVE QueueKept'
    BY <1>1, <1>2, <2>1, QueueStep
  <2>3. CASE Invoices = {}
    BY <1>1, <2>1, <2>3 DEF QueueKept
  <2> QED
    BY <2>2, <2>3
<1> QED
  BY <1>3, <1>4, Shapes

(* An invoice whose queue, timer and revision stay and whose row is not    *)
(* written stays as it is.                                                 *)
LEMMA OthersStay ==
    ASSUME Typed, NEW j \in Invoices, LastWritten(j), Sequenced(j),
           queue'[j] = queue[j], timer'[j] = timer[j], revision'[j] = revision[j],
           \/ UNCHANGED <<committed, rows>>
           \/ \E i \in Invoices \ {j} : \E x : Appends(i, x)
    PROVE  LastWritten(j)' /\ Sequenced(j)'
<1>1. \A v \in Versions' : committed'[v].invoice = j => v \in Versions /\ committed'[v] = committed[v]
  <2>1. CASE UNCHANGED committed
    BY <2>1 DEF Versions
  <2>2. ASSUME NEW i \in Invoices \ {j}, NEW x, Appends(i, x)
        PROVE  \A v \in Versions' : committed'[v].invoice = j => v \in Versions /\ committed'[v] = committed[v]
    <3>1. /\ Grows /\ committed'[Len(committed')] = x /\ x.invoice = i
          /\ Versions' = Versions \cup {Len(committed')}
      BY <2>2, HistoryAppends DEF Typed, Appends
    <3> QED
      BY <3>1 DEF Grows
  <2> QED
    BY <2>1, <2>2
<1>2. rows'[j] = rows[j]
  BY DEF Typed, Appends
<1> QED
  BY <1>1, <1>2 DEF LastWritten, Sequenced

(* The history of an invoice after a step that does not write it, or       *)
(* appends one write of it.                                                *)
LEMMA OwnHistory ==
    ASSUME Typed, NEW i \in Invoices, NEW x, LastWritten(i), UNCHANGED <<committed, rows>> \/ Appends(i, x)
    PROVE  /\ LastWritten(i)'
           /\ \A v \in Versions' :
                 committed'[v].invoice = i =>
                    \/ v \in Versions /\ committed'[v] = committed[v]
                    \/ Appends(i, x) /\ committed'[v] = x
<1>1. CASE UNCHANGED <<committed, rows>>
  BY <1>1 DEF Versions, LastWritten
<1>2. CASE Appends(i, x)
  <2>1. /\ Grows /\ committed'[Len(committed')] = x /\ Len(committed) \in Nat
        /\ Versions' = Versions \cup {Len(committed')} /\ Len(committed') = Len(committed) + 1
    BY <1>2, HistoryAppends DEF Typed, Appends
  <2>2. rows'[i] = Len(committed')
    BY <1>2 DEF Typed, Appends
  <2>3. \A v \in Versions' : v <= rows'[i]
    BY <2>1, <2>2 DEF Versions
  <2> QED
    BY <1>2, <2>1, <2>3 DEF Grows, LastWritten
<1> QED
  BY <1>1, <1>2

(* What Sequenced says of the values it is about.                          *)
InOrder(t, n, q, past) ==
    /\ t # None => t.revision = n /\ \A k \in DOMAIN q : q[k].revision < n
    /\ \A k \in DOMAIN q : q[k].revision <= n /\ \A l \in DOMAIN q : k <= l => q[k].revision <= q[l].revision
    /\ \A p \in past : p <= n /\ \A k \in DOMAIN q : p <= q[k].revision
Past(i) == {committed[v].revision : v \in {w \in Versions : committed[w].invoice = i}}

LEMMA SequencedIsInOrder ==
    ASSUME NEW i
    PROVE  Sequenced(i) <=> InOrder(timer[i], revision[i], queue[i], Past(i))
BY DEF Sequenced, InOrder, Past

LEMMA PastGrows ==
    ASSUME Typed, NEW i \in Invoices, NEW x, LastWritten(i), UNCHANGED <<committed, rows>> \/ Appends(i, x)
    PROVE  Past(i)' \subseteq Past(i) \cup {x.revision}
<1>1. SUFFICES ASSUME NEW p \in Past(i)' PROVE p \in Past(i) \cup {x.revision}
  OBVIOUS
<1>2. PICK v \in Versions' : committed'[v].invoice = i /\ p = committed'[v].revision
  BY <1>1 DEF Past
<1>3. (v \in Versions /\ committed'[v] = committed[v]) \/ committed'[v] = x
  BY <1>2, OwnHistory
<1> QED
  BY <1>2, <1>3 DEF Past

LEMMA OwnStays ==
    ASSUME Kept, [Next]_vars, NEW i \in Invoices, NEW x,
           Drafts(i) \/ Settles(i) \/ Requests(i, x) \/ Proceeds(i, x) \/ Overtakes(i, x)
    PROVE  LastWritten(i)' /\ Sequenced(i)'
<1>1. Typed /\ QueueKept /\ LastWritten(i) /\ Sequenced(i)
  BY DEF Kept
<1>2. PICK q, r : q = queue[i] /\ r = queue'[i]
  OBVIOUS
<1>3. PICK t, n, past : t = timer[i] /\ n = revision[i] /\ past = Past(i)
  OBVIOUS
<1>4. PICK u, m, later : u = timer'[i] /\ m = revision'[i] /\ later = Past(i)'
  OBVIOUS
<1>5. /\ q \in Seq(Saves) /\ Len(q) \in Nat /\ DOMAIN q = 1..Len(q) /\ n \in Nat /\ MaxEdits \in Nat
      /\ \A k \in 1..Len(q) : q[k].revision \in Nat
  <2>1. queue[i] \in Seq(Saves) /\ revision[i] \in 0..MaxEdits /\ MaxEdits \in Nat
    BY <1>1, BoundsAssumption DEF QueueKept, Typed
  <2>2. q \in Seq(Saves) /\ Len(q) \in Nat /\ DOMAIN q = 1..Len(q) /\ n \in Nat
    BY <1>2, <1>3, <2>1
  <2>3. \A k \in 1..Len(q) : q[k] \in Saves
    BY <2>2
  <2> QED
    BY <2>1, <2>2, <2>3 DEF Saves
<1>6. InOrder(t, n, q, past)
  BY <1>1, <1>2, <1>3, SequencedIsInOrder
<1>7. SUFFICES LastWritten(i)' /\ InOrder(u, m, r, later)
  BY <1>2, <1>4 DEF Sequenced, InOrder, Past
<1>8. past \subseteq Nat /\ (UNCHANGED <<committed, rows>> => later = past)
  <2>1. ASSUME UNCHANGED <<committed, rows>> PROVE later = past
    BY <2>1, <1>3, <1>4 DEF Past, Versions
  <2>2. \A v \in Versions : committed[v] \in Entries
    BY <1>1 DEF Typed, Versions
  <2> QED
    BY <2>1, <2>2, <1>3, BoundsAssumption DEF Past, Entries
<1>9. CASE Drafts(i)
  <2>1. m = n + 1 /\ r = q /\ later = past /\ u.revision = m
    BY <1>1, <1>2, <1>3, <1>4, <1>8, <1>9 DEF Drafts, Typed
  <2>2. LastWritten(i)'
    BY <1>1, <1>9, OwnHistory DEF Drafts
  <2> QED
    BY <1>5, <1>6, <1>8, <2>1, <2>2 DEF InOrder
<1>10. CASE Settles(i)
  <2>1. q # <<>> /\ r = Tail(q) /\ u = t /\ m = n /\ later = past
    BY <1>1, <1>2, <1>3, <1>4, <1>8, <1>10 DEF Settles, Pop, QueueKept
  <2>2. LastWritten(i)'
    BY <1>1, <1>10, OwnHistory DEF Settles
  <2>3. Len(r) = Len(q) - 1 /\ DOMAIN r = 1..Len(r) /\ \A k \in 1..Len(r) : k + 1 \in 1..Len(q) /\ r[k] = q[k + 1]
    BY <1>5, <2>1, Popped
  <2>4. ASSUME NEW k \in 1..Len(r), NEW l \in 1..Len(r), k <= l PROVE r[k].revision <= r[l].revision
    <3>1. k + 1 <= l + 1 /\ k + 1 \in DOMAIN q /\ l + 1 \in DOMAIN q
      BY <1>5, <2>3, <2>4
    <3> QED
      BY <1>6, <2>3, <3>1 DEF InOrder
  <2> QED
    BY <1>5, <1>6, <2>1, <2>2, <2>3, <2>4 DEF InOrder
<1>11. CASE Requests(i, x)
  <2>1. r = Append(q, x) /\ u = None /\ m = n /\ later = past /\ x \in Saves /\ x.revision = n
    BY <1>1, <1>2, <1>3, <1>4, <1>8, <1>11 DEF Requests, Enqueue, QueueKept, Typed
  <2>2. LastWritten(i)'
    BY <1>1, <1>11, OwnHistory DEF Requests
  <2>3. /\ r \in Seq(Saves) /\ Len(r) = Len(q) + 1 /\ r[Len(q) + 1] = x
        /\ \A k \in 1..Len(q) : r[k] = q[k]
    BY <1>5, <2>1, Appended
  <2>4. DOMAIN r = 1..Len(r) /\ \A k \in 1..Len(r) : k = Len(q) + 1 \/ k \in 1..Len(q)
    BY <1>5, <2>3
  <2>5. \A k \in DOMAIN r : r[k].revision <= n
    BY <1>5, <1>6, <2>1, <2>3, <2>4 DEF InOrder
  <2>6. ASSUME NEW k \in DOMAIN r, NEW l \in DOMAIN r, k <= l PROVE r[k].revision <= r[l].revision
    <3>1. CASE l = Len(q) + 1
      BY <2>1, <2>3, <2>5, <3>1
    <3>2. CASE l # Len(q) + 1
      <4>1. k \in 1..Len(q) /\ l \in 1..Len(q)
        BY <1>5, <2>4, <2>6, <3>2
      <4> QED
        BY <1>5, <1>6, <2>3, <2>6, <4>1 DEF InOrder
    <3> QED
      BY <3>1, <3>2
  <2>7. \A p \in past : p <= n /\ \A k \in DOMAIN r : p <= r[k].revision
    BY <1>5, <1>6, <2>1, <2>3, <2>4 DEF InOrder
  <2> QED
    BY <2>1, <2>2, <2>5, <2>6, <2>7 DEF InOrder
<1>12. CASE Proceeds(i, x)
  <2>1. q # <<>> /\ r = <<x>> \o Tail(q) /\ u = t /\ m = n /\ x \in Saves /\ x.revision = q[1].revision
    BY <1>1, <1>2, <1>3, <1>4, <1>12 DEF Proceeds, SetHead, QueueKept, Oldest
  <2>2. UNCHANGED <<committed, rows>> \/ Appends(i, Written(i))
    BY <1>12 DEF Proceeds
  <2>3. LastWritten(i)' /\ later \subseteq past \cup {q[1].revision}
    <3>1. Written(i).revision = q[1].revision
      BY <1>2 DEF Written, Oldest
    <3>2. PICK w : w = Written(i)
      OBVIOUS
    <3>3. UNCHANGED <<committed, rows>> \/ Appends(i, w)
      BY <2>2, <3>2
    <3> QED
      BY <1>1, <1>3, <1>4, <3>1, <3>2, <3>3, OwnHistory, PastGrows
  <2>4. r \in Seq(Saves) /\ Len(r) = Len(q) /\ Len(q) > 0 /\ r[1] = x /\ \A k \in 2..Len(q) : r[k] = q[k]
    BY <1>5, <2>1, HeadChanged
  <2>5. DOMAIN r = DOMAIN q /\ \A k \in DOMAIN q : r[k].revision = q[k].revision
    <3>1. \A k \in 1..Len(q) : k = 1 \/ k \in 2..Len(q)
      BY <1>5
    <3>2. DOMAIN r = 1..Len(r)
      BY <2>4
    <3> QED
      BY <1>5, <2>1, <2>4, <3>1, <3>2
  <2>6. 1 \in DOMAIN q /\ \A k \in DOMAIN q : 1 <= k
    BY <1>5, <2>4
  <2>7. q[1].revision <= n /\ \A k \in DOMAIN q : q[1].revision <= q[k].revision
    BY <1>6, <2>6 DEF InOrder
  <2>8. u # None => u.revision = m /\ \A k \in DOMAIN r : r[k].revision < m
    BY <1>6, <2>1, <2>5 DEF InOrder
  <2>9. \A k \in DOMAIN r : r[k].revision <= m /\ \A l \in DOMAIN r : k <= l => r[k].revision <= r[l].revision
    BY <1>6, <2>1, <2>5 DEF InOrder
  <2>10. \A p \in later : p <= m /\ \A k \in DOMAIN r : p <= r[k].revision
    <3>1. \A p \in past : p <= n /\ \A k \in DOMAIN q : p <= q[k].revision
      BY <1>6 DEF InOrder
    <3> QED
      BY <2>1, <2>3, <2>5, <2>7, <3>1
  <2> QED
    BY <2>3, <2>8, <2>9, <2>10 DEF InOrder
<1>13. CASE Overtakes(i, x)
  <2>1. r = q /\ u = t /\ m = n /\ Appends(i, x) /\ x.revision = 0
    BY <1>2, <1>3, <1>4, <1>13 DEF Overtakes
  <2>2. LastWritten(i)' /\ later \subseteq past \cup {0}
    BY <1>1, <1>3, <1>4, <2>1, OwnHistory, PastGrows
  <2>3. 0 <= n /\ \A k \in DOMAIN q : 0 <= q[k].revision
    BY <1>5
  <2> QED
    BY <1>6, <2>1, <2>2, <2>3 DEF InOrder
<1> QED
  BY <1>9, <1>10, <1>11, <1>12, <1>13

LEMMA KeptStep ==
    ASSUME Kept, [Next]_vars
    PROVE  Kept'
<1>1. Typed /\ QueueKept /\ Typed' /\ QueueKept'
  BY TypedStep, QueuesStay DEF Kept
<1>2. 1 \in DOMAIN persisted'
  BY Shapes DEF Kept
<1>3. ASSUME NEW j \in Invoices PROVE LastWritten(j)' /\ Sequenced(j)'
  <2>1. LastWritten(j) /\ Sequenced(j)
    BY DEF Kept
  <2>2. CASE Rests
    BY <1>1, <2>1, <2>2, OthersStay DEF Rests
  <2>3. ASSUME NEW i \in Invoices, NEW x,
               Drafts(i) \/ Settles(i) \/ Requests(i, x) \/ Proceeds(i, x) \/ Overtakes(i, x)
        PROVE  LastWritten(j)' /\ Sequenced(j)'
    <3>1. CASE i = j
      BY <2>3, <3>1, OwnStays
    <3>2. CASE i # j
      <4>1. queue'[j] = queue[j] /\ timer'[j] = timer[j] /\ revision'[j] = revision[j]
        BY <1>1, <2>3, <3>2
        DEF Drafts, Settles, Requests, Proceeds, Overtakes, Enqueue, SetHead, Pop, QueueKept, Typed
      <4>2. \/ UNCHANGED <<committed, rows>>
            \/ \E k \in Invoices \ {j} : \E y : Appends(k, y)
        BY <2>3, <3>2 DEF Drafts, Settles, Requests, Proceeds, Overtakes
      <4> QED
        BY <1>1, <2>1, <4>1, <4>2, OthersStay
    <3> QED
      BY <3>1, <3>2
  <2> QED
    BY <2>2, <2>3, Shapes
<1> QED
  BY <1>1, <1>2, <1>3 DEF Kept

(***************************************************************************)
(* Initially every invoice has one row, written once.                      *)
(***************************************************************************)
LEMMA KeptInit ==
    ASSUME Init
    PROVE  Kept
<1> DEFINE n == Cardinality(Invoices)
<1>1. n \in Nat /\ IsFiniteSet(Invoices)
  BY BoundsAssumption, FS_CardinalityType
<1>2. PICK order \in [1..n -> Invoices] :
       /\ \A i \in Invoices : \E v \in DOMAIN order : order[v] = i
       /\ committed = [v \in DOMAIN order |->
                          [invoice |-> order[v], content |-> {}, remote |-> TRUE, revision |-> 0]]
       /\ rows = [i \in Invoices |-> CHOOSE v \in DOMAIN order : order[v] = i]
       /\ local = [i \in Invoices |-> [content |-> {}, version |-> rows[i]]]
       /\ persisted = <<rows>> /\ timer = [i \in Invoices |-> None]
       /\ revision = [i \in Invoices |-> 0] /\ queue = [i \in Invoices |-> <<>>]
       /\ saveState = "saved" /\ selected \in Invoices /\ loading = None /\ flushes = 0
  BY DEF Init
<1>3. DOMAIN order = 1..n
  OBVIOUS
<1>4. committed \in Seq(Entries) /\ Len(committed) = n
  <2>1. {} \in Contents /\ 0 \in 0..MaxEdits
    BY BoundsAssumption DEF Contents
  <2>2. committed \in [1..n -> Entries]
    BY <1>2, <1>3, <2>1 DEF Entries
  <2> QED
    BY <1>1, <2>2
<1>5. Versions = 1..n
  BY <1>4 DEF Versions
<1>6. rows \in [Invoices -> Versions] /\ \A i \in Invoices : order[rows[i]] = i
  <2>1. \A i \in Invoices : rows[i] \in 1..n /\ order[rows[i]] = i
    BY <1>2, <1>3
  <2> QED
    BY <1>2, <1>5, <2>1
<1>7. \A v, w \in 1..n : order[v] = order[w] => v = w
  <2>1. order \in Surjection(1..n, Invoices)
    BY <1>2, <1>3 DEF Surjection
  <2>2. IsFiniteSet(1..n) /\ Cardinality(1..n) = n
    BY <1>1, FS_Interval
  <2>3. order \in Injection(1..n, Invoices)
    BY <1>1, <2>1, <2>2, FS_SurjSameCardinalityImpliesInj
  <2> QED
    BY <2>3 DEF Injection, IsInjective
<1>8. Typed
  <2>1. local \in [Invoices -> Records]
    BY <1>2, <1>6 DEF Records, Contents
  <2>2. persisted \in Seq([Invoices -> Versions])
    BY <1>2, <1>6
  <2>3. revision \in [Invoices -> 0..MaxEdits] /\ flushes \in 0..MaxFlushes
    BY <1>2, BoundsAssumption
  <2> QED
    BY <1>2, <1>4, <1>6, <2>1, <2>2, <2>3 DEF Typed
<1>9. \A i \in Invoices : queue[i] = <<>> /\ timer[i] = None /\ revision[i] = 0
  BY <1>2
<1>10. QueueKept
  <2>1. queue \in [Invoices -> Seq(Saves)]
    BY <1>2
  <2>2. \A i \in Invoices : DOMAIN queue[i] = {}
    BY <1>9
  <2> QED
    BY <2>1, <2>2 DEF QueueKept
<1>11. ASSUME NEW i \in Invoices PROVE LastWritten(i) /\ Sequenced(i)
  <2>1. \A v \in Versions : committed[v].invoice = order[v] /\ committed[v].revision = 0
    BY <1>2, <1>3, <1>5
  <2>2. \A v \in Versions : committed[v].invoice = i => v = rows[i]
    BY <1>5, <1>6, <1>7, <2>1
  <2>3. LastWritten(i)
    BY <1>5, <1>6, <2>2 DEF LastWritten
  <2>4. DOMAIN queue[i] = {}
    BY <1>9
  <2> QED
    BY <1>9, <2>1, <2>3, <2>4 DEF Sequenced
<1>12. 1 \in DOMAIN persisted
  BY <1>2
<1> QED
  BY <1>8, <1>10, <1>11, <1>12 DEF Kept

LEMMA AlwaysKept == Spec => []Kept
<1>1. Kept /\ [Next]_vars => Kept'
  BY KeptStep
<1> QED
  BY <1>1, KeptInit, PTL DEF Spec

(* Every reachable state has the types TypeOK says, of which two are about *)
(* the queue: only its oldest save is under way, and every save refers to  *)
(* a map of persisted versions that exists.                                *)
THEOREM EditingIsTyped == Spec => []TypeOK
<1>1. Kept => TypeOK
  BY KeptIsTyped DEF Kept
<1> QED
  BY <1>1, AlwaysKept, PTL

(***************************************************************************)
(* What a save of this session writes.                                     *)
(***************************************************************************)
LEMMA OwnWrite ==
    ASSUME Kept, [Next]_vars, NEW i \in Invoices, rows'[i] # rows[i], ~committed'[rows'[i]].remote
    PROVE  WriteRow(i)
<1>1. Typed /\ QueueKept
  BY DEF Kept
<1>2. ASSUME NEW j \in Invoices, NEW x, Appends(j, x)
      PROVE  j = i /\ committed'[rows'[i]] = x
  <2>1. j = i
    BY <1>1, <1>2 DEF Appends, Typed
  <2>2. committed'[Len(committed')] = x
    BY <1>1, <1>2, HistoryAppends DEF Appends, Typed
  <2>3. rows'[i] = Len(committed')
    BY <1>1, <1>2, <2>1 DEF Appends, Typed
  <2> QED
    BY <2>1, <2>2, <2>3
<1>3. ASSUME NEW j \in Invoices, RemoteEdit(j) PROVE FALSE
  BY <1>1, <1>2, <1>3, RemoteAppends
<1>4. ASSUME NEW j \in Invoices, WriteRow(j) PROVE j = i
  BY <1>1, <1>2, <1>4, WriteAppends
<1> QED
  BY <1>3, <1>4 DEF Next, SaveStep, Conflict, SaveFails, Edit, TimerFires, Flush, StartSave, CheckRow, FinishSave,
                    Reject, Open, RefreshReads, RefreshApplies, Leave, vars

(* For any number of edits, saves, failures and refreshes: the row is      *)
(* never overwritten by a save requested at an older revision of the draft *)
(* than one already written (enqueueSerializedSave, editRevisionRef).      *)
THEOREM SavesReachRowsInOrder == Spec => RevisionsInOrder
<1> DEFINE Good ==
      \A i \in Invoices : rows'[i] # rows[i] /\ ~committed'[rows'[i]].remote =>
          \A v \in Versions :
             committed[v].invoice = i => committed[v].revision <= Oldest(i).revision
<1>1. ASSUME Kept, [Next]_vars, NEW i \in Invoices, rows'[i] # rows[i], ~committed'[rows'[i]].remote,
             NEW v \in Versions, committed[v].invoice = i
      PROVE  committed[v].revision <= Oldest(i).revision
  <2>1. queue[i] # <<>>
    BY <1>1, OwnWrite DEF WriteRow
  <2>2. 1 \in DOMAIN queue[i] /\ Sequenced(i)
    BY <1>1, <2>1, OldestIs DEF Kept
  <2> QED
    BY <1>1, <2>2 DEF Sequenced, Oldest
<1>2. Kept /\ [Next]_vars => [Good]_vars
  BY <1>1
<1>3. RevisionsInOrder <=> [][Good]_vars
  BY DEF RevisionsInOrder
<1> HIDE DEF Good
<1> QED
  BY <1>2, <1>3, AlwaysKept, PTL DEF Spec

(* The conditional update of updateInvoiceInSupabase never overwrites what *)
(* another session wrote after the save fixed the version it expects.      *)
THEOREM NoSaveRacesAnEdit == Spec => NoRaceOverwrite
<1> DEFINE Good ==
      \A i \in Invoices : rows'[i] # rows[i] /\ ~committed'[rows'[i]].remote =>
          \A v \in Versions :
             committed[v].invoice = i /\ committed[v].remote => v <= Oldest(i).expected
<1>1. ASSUME Kept, [Next]_vars, NEW i \in Invoices, rows'[i] # rows[i], ~committed'[rows'[i]].remote,
             NEW v \in Versions, committed[v].invoice = i
      PROVE  v <= Oldest(i).expected
  <2>1. rows[i] = Oldest(i).expected
    BY <1>1, OwnWrite DEF WriteRow
  <2> QED
    BY <1>1, <2>1 DEF Kept, LastWritten
<1>2. Kept /\ [Next]_vars => [Good]_vars
  BY <1>1
<1>3. NoRaceOverwrite <=> [][Good]_vars
  BY DEF NoRaceOverwrite
<1> HIDE DEF Good
<1> QED
  BY <1>2, <1>3, AlwaysKept, PTL DEF Spec

(* When a finished save turns the indicator of the open invoice to "saved" *)
(* (persistInvoice after its await), the row holds what the editor shows   *)
(* at the version it shows, and no newer draft waits to be saved.          *)
THEOREM SavedTellsTheTruth == Spec => SavedIsDurable
<1> DEFINE Good ==
      \A i \in Invoices :
          i = selected /\ FinishSave(i) /\ saveState # "saved" /\ saveState' = "saved" =>
             /\ local'[i].content = committed'[local'[i].version].content
             /\ timer'[i] = None
             /\ \A k \in DOMAIN queue'[i] : queue'[i][k].revision <= Oldest(i).revision
<1>1. ASSUME Kept, NEW i \in Invoices, FinishSave(i), saveState # "saved", saveState' = "saved"
      PROVE  /\ local'[i].content = committed'[local'[i].version].content
             /\ timer'[i] = None
             /\ \A k \in DOMAIN queue'[i] : queue'[i][k].revision <= Oldest(i).revision
  <2>1. Typed /\ QueueKept /\ Sequenced(i) /\ queue[i] # <<>>
    BY <1>1 DEF Kept, FinishSave
  <2>2. PICK save, q, r : save = Oldest(i) /\ q = queue[i] /\ r = queue'[i]
    OBVIOUS
  <2>3. /\ save.phase = "finishing" /\ revision[i] = save.revision
        /\ local' = [local EXCEPT ![i] = [content |-> save.draft.content, version |-> save.landed]]
        /\ UNCHANGED <<committed, timer>>
    BY <1>1, <2>2 DEF FinishSave
  <2>4. committed[save.landed].content = save.draft.content /\ q \in Seq(Saves) /\ 1 \in DOMAIN q /\ save = q[1]
    BY <2>1, <2>2, <2>3, OldestIs DEF SaveOK, Oldest
  <2>5. local'[i].content = committed'[local'[i].version].content
    BY <2>1, <2>3, <2>4 DEF Typed
  <2>6. timer'[i] = None
    <3>1. SUFFICES ASSUME timer[i] # None PROVE FALSE
      BY <2>3
    <3>2. q[1].revision < revision[i]
      BY <2>1, <2>2, <2>4, <3>1 DEF Sequenced
    <3>3. revision[i] \in Nat
      BY <2>1, BoundsAssumption DEF Typed
    <3> QED
      BY <2>3, <2>4, <3>2, <3>3
  <2>7. ASSUME NEW k \in DOMAIN r PROVE r[k].revision <= save.revision
    <3>1. r = Tail(q)
      BY <1>1, <2>1, <2>2 DEF FinishSave, Pop, QueueKept
    <3>2. Len(r) = Len(q) - 1 /\ r \in Seq(Saves) /\ \A l \in 1..Len(r) : r[l] = q[l + 1]
      BY <2>1, <2>2, <2>4, <3>1, Popped
    <3>3. k + 1 \in DOMAIN q /\ r[k] = q[k + 1]
      BY <2>4, <2>7, <3>2
    <3>4. \A l \in DOMAIN q : q[l].revision <= revision[i]
      BY <2>1, <2>2 DEF Sequenced
    <3> QED
      BY <2>3, <3>3, <3>4
  <2> QED
    BY <2>2, <2>5, <2>6, <2>7
<1>2. Kept /\ [Next]_vars => [Good]_vars
  BY <1>1
<1>3. SavedIsDurable <=> [][Good]_vars
  BY DEF SavedIsDurable
<1> HIDE DEF Good
<1> QED
  BY <1>2, <1>3, AlwaysKept, PTL DEF Spec
=============================================================================
