----------------------- MODULE StorageMigrationProofs -----------------------
(***************************************************************************)
(* Proofs about StorageMigration, for any documents, digests, workers and  *)
(* bounds: the migration never points a document at an object that is not  *)
(* its own, however workers crash, stall and take over from each other.    *)
(*                                                                         *)
(* This does not rest on the leases.  Every key a record or a              *)
(* worker carries was derived from a document of the same digest; bytes    *)
(* are stored under a key only after they were checked against the digest; *)
(* so a store can only repeat what a pointer to that key relies on.        *)
(*                                                                         *)
(* While batches end within the lease, a record has one worker, tells      *)
(* where its document is, and a switch is final.                           *)
(***************************************************************************)
EXTENDS StorageMigration, TLAPS

Busy == {"claimed", "examining", "storing", "verifying", "switching", "recording",
         "retrying", "failing"}

(* The keys in records, in workers' hands and in pointers are sound.       *)
RecordKeys == \A i \in DOMAIN records : Digest[records[i].key] = Digest[records[i].document]

PointerKeys == \A d \in Documents : pointer[d] # Legacy => Digest[pointer[d]] = Digest[d]

WorkerSound(w) ==
    /\ worker[w].batch \subseteq DOMAIN records
    /\ worker[w].phase \in Busy =>
          /\ worker[w].id \in DOMAIN records
          /\ worker[w].key \in Documents
          /\ Digest[worker[w].key] = Digest[records[worker[w].id].document]
    /\ worker[w].phase = "storing" =>
          LegacyObject[records[worker[w].id].document] = Digest[records[worker[w].id].document]
    /\ worker[w].phase = "switching" =>
          target[worker[w].key] = Digest[records[worker[w].id].document]

WorkersSound == \A w \in Workers : WorkerSound(w)

IInv ==
    /\ TypeOK /\ Len(records) <= MaxRecords
    /\ RecordKeys /\ PointerKeys /\ PointerResolves /\ WorkersSound

LEMMA RecordTyped == ASSUME IInv, NEW i \in DOMAIN records PROVE records[i] \in Records
<1>1. records \in Seq(Records) /\ i \in 1..Len(records)
  BY DEF IInv, TypeOK
<1> QED  BY <1>1

(* Records are only added, and keep their document.                        *)
Grow ==
    /\ DOMAIN records \subseteq DOMAIN records'
    /\ \A i \in DOMAIN records : records'[i].document = records[i].document

LEMMA InitIInv == Init => IInv
  BY ConstantsAssumption
  DEF Init, IInv, TypeOK, RecordKeys, PointerKeys, PointerResolves, WorkersSound,
      WorkerSound, Idle, Phases, Busy, Requests

(* A worker that keeps to itself: what it leaves behind is sound, so all   *)
(* workers are.                                                            *)
LEMMA OthersSound ==
    ASSUME IInv, NEW w \in Workers, NEW mine, worker' = [worker EXCEPT ![w] = mine],
           Grow, target' = target, WorkerSound(w)'
    PROVE  WorkersSound'
<1> SUFFICES ASSUME NEW v \in Workers, v # w PROVE WorkerSound(v)'
  BY DEF WorkersSound
<1>1. worker'[v] = worker[v]
  BY DEF IInv, TypeOK
<1>2. WorkerSound(v)
  BY DEF IInv, WorkersSound
<1> QED  BY <1>1, <1>2 DEF WorkerSound, Grow, Busy

(* A step of one worker that may add and rewrite records but moves neither *)
(* pointers nor objects.                                                   *)
LEMMA WorkerStep ==
    ASSUME IInv, NEW w \in Workers, NEW mine \in Requests,
           worker' = [worker EXCEPT ![w] = mine], WorkerSound(w)',
           records' \in Seq(Records), Len(records') <= MaxRecords, Grow, RecordKeys',
           crashes' \in 0..MaxCrashes, UNCHANGED <<pointer, target>>
    PROVE  IInv'
<1>1. WorkersSound'
  BY OthersSound
<1>2. TypeOK'
  BY DEF IInv, TypeOK
<1>3. PointerKeys' /\ PointerResolves'
  BY DEF IInv, PointerKeys, PointerResolves
<1> QED  BY <1>1, <1>2, <1>3 DEF IInv

LEMMA QuietStep ==
    ASSUME IInv, NEW w \in Workers, NEW mine \in Requests,
           worker' = [worker EXCEPT ![w] = mine], WorkerSound(w)',
           crashes' \in 0..MaxCrashes, UNCHANGED <<pointer, target, records>>
    PROVE  IInv'
<1>1. /\ records' \in Seq(Records) /\ Len(records') <= MaxRecords
      /\ Grow /\ RecordKeys'
  BY DEF IInv, TypeOK, Grow, RecordKeys
<1> QED  BY <1>1, WorkerStep

(* An outcome with a sound key leaves the records sound.                   *)
LEMMA WriteSound ==
    ASSUME IInv, NEW w \in Workers, worker[w].id \in DOMAIN records, NEW row \in Records,
           row.document = records[worker[w].id].document,
           Digest[row.key] = Digest[row.document], Write(w, row)
    PROVE  /\ records' \in Seq(Records) /\ Len(records') <= MaxRecords
           /\ DOMAIN records' = DOMAIN records /\ Grow /\ RecordKeys'
<1> DEFINE i == worker[w].id
<1>1. records \in Seq(Records)
  BY DEF IInv, TypeOK
<1>2. records' = records \/ records' = [records EXCEPT ![i] = row]
  BY DEF Write
<1>3. CASE records' = records
  BY <1>1, <1>3 DEF IInv, Grow, RecordKeys
<1>4. CASE records' = [records EXCEPT ![i] = row]
  <2>1. DOMAIN records' = DOMAIN records /\ Len(records') = Len(records)
        /\ records' \in Seq(Records)
    BY <1>1, <1>4
  <2>2. \A j \in DOMAIN records : records'[j] = IF j = i THEN row ELSE records[j]
    BY <1>1, <1>4
  <2> QED  BY <2>1, <2>2 DEF IInv, Grow, RecordKeys
<1> QED  BY <1>2, <1>3, <1>4
-----------------------------------------------------------------------------
LEMMA BeginIInv == ASSUME IInv, NEW w \in Workers, Begin(w) PROVE IInv'
<1> DEFINE mine == [worker[w] EXCEPT !.phase = "discovering",
                                     !.documents = {d \in Documents : pointer[d] = Legacy}]
<1>1. worker[w] \in Requests /\ WorkerSound(w)
  BY DEF IInv, TypeOK, WorkersSound
<1>2. mine \in Requests /\ worker' = [worker EXCEPT ![w] = mine]
  BY <1>1 DEF Begin, Requests, Phases, IInv, TypeOK
<1>3. worker'[w].phase = "discovering" /\ worker'[w].batch = worker[w].batch
  BY <1>1, <1>2 DEF Requests, IInv, TypeOK
<1>4. WorkerSound(w)'
  BY <1>1, <1>3 DEF Begin, WorkerSound, Busy
<1>5. crashes' \in 0..MaxCrashes
  BY DEF Begin, IInv, TypeOK
<1> QED  BY <1>2, <1>4, <1>5, QuietStep DEF Begin

LEMMA SelectIInv == ASSUME IInv, NEW w \in Workers, Select(w) PROVE IInv'
<1> DEFINE chosen == {i \in DOMAIN records : Claimable(i, 0)}
           mine == [worker[w] EXCEPT !.phase = "batch", !.batch = chosen]
<1>1. worker[w] \in Requests /\ WorkerSound(w) /\ chosen \subseteq 1..MaxRecords
  <2>1. DOMAIN records = 1..Len(records) /\ Len(records) \in Nat /\ Len(records) <= MaxRecords
    BY DEF IInv, TypeOK
  <2>2. DOMAIN records \subseteq 1..MaxRecords
    BY <2>1, ConstantsAssumption
  <2> QED  BY <2>2 DEF IInv, TypeOK, WorkersSound
<1>2. mine \in Requests /\ worker' = [worker EXCEPT ![w] = mine]
  BY <1>1 DEF Select, Requests, Phases, IInv, TypeOK
<1>3. worker'[w].phase = "batch" /\ worker'[w].batch \subseteq DOMAIN records
  BY <1>1, <1>2 DEF Requests, IInv, TypeOK
<1>4. UNCHANGED <<pointer, target, records>> /\ crashes' \in 0..MaxCrashes
  BY DEF Select, IInv, TypeOK
<1>5. WorkerSound(w)'
  BY <1>3, <1>4 DEF WorkerSound, Busy
<1> QED  BY <1>2, <1>4, <1>5, QuietStep

(* A request that ends, or dies, holds nothing.                            *)
LEMMA EndIInv ==
    ASSUME IInv, NEW w \in Workers, worker' = [worker EXCEPT ![w] = Idle],
           crashes' \in 0..MaxCrashes, UNCHANGED <<pointer, target, records>>
    PROVE  IInv'
<1>1. Idle \in Requests
  BY ConstantsAssumption DEF Idle, Requests, Phases
<1>2. worker'[w] = Idle
  BY DEF IInv, TypeOK
<1>3. WorkerSound(w)'
  BY <1>2 DEF WorkerSound, Idle, Busy
<1> QED  BY <1>1, <1>3, QuietStep

(* A worker moves on with its record: a key it may store under, or switch  *)
(* to, was checked.                                                        *)
LEMMA MoveIInv ==
    ASSUME IInv, NEW w \in Workers, worker[w].phase \in Busy, NEW mine \in Requests,
           worker' = [worker EXCEPT ![w] = mine], mine.phase \in Busy,
           mine.batch = worker[w].batch, mine.id = worker[w].id, mine.key \in Documents,
           LET d == records[worker[w].id].document
           IN  /\ Digest[mine.key] = Digest[d]
               /\ mine.phase = "storing" => LegacyObject[d] = Digest[d]
               /\ mine.phase = "switching" => target[mine.key] = Digest[d],
           UNCHANGED <<pointer, target, records, crashes>>
    PROVE  IInv'
<1>1. WorkerSound(w) /\ worker'[w] = mine
  BY DEF IInv, TypeOK, WorkersSound
<1>2. WorkerSound(w)'
  BY <1>1 DEF WorkerSound, Busy
<1> QED  BY <1>2, QuietStep DEF IInv, TypeOK

LEMMA ToIInv ==
    ASSUME IInv, NEW w \in Workers, worker[w].phase \in Busy, NEW phase \in Busy, To(w, phase),
           LET d == records[worker[w].id].document
           IN  /\ phase = "storing" => LegacyObject[d] = Digest[d]
               /\ phase = "switching" => target[worker[w].key] = Digest[d],
           UNCHANGED <<pointer, target, records, crashes>>
    PROVE  IInv'
<1> DEFINE mine == [worker[w] EXCEPT !.phase = phase]
<1>1. worker[w] \in Requests /\ WorkerSound(w)
  BY DEF IInv, TypeOK, WorkersSound
<1>2. /\ mine \in Requests /\ mine.phase = phase /\ mine.batch = worker[w].batch
      /\ mine.id = worker[w].id /\ mine.key = worker[w].key
  BY <1>1 DEF Requests, Phases, Busy
<1>3. worker' = [worker EXCEPT ![w] = mine]
  BY DEF To
<1> HIDE DEF mine
<1> QED  BY <1>1, <1>2, <1>3, MoveIInv DEF WorkerSound

LEMMA ReuseIInv == ASSUME IInv, NEW w \in Workers, Reuse(w) PROVE IInv'
<1>1. PICK i \in DOMAIN records :
         /\ Reusable(i, Document(worker[w].id))
         /\ worker' = [worker EXCEPT ![w].phase = "switching", ![w].key = records[i].key]
  BY DEF Reuse
<1> DEFINE mine == [worker[w] EXCEPT !.phase = "switching", !.key = records[i].key]
<1>2. worker[w] \in Requests /\ records[i].key \in Documents
  BY RecordTyped DEF IInv, TypeOK, Records
<1>3. Digest[records[i].key] = Digest[records[i].document]
  BY DEF IInv, RecordKeys
<1>4. LET d == records[worker[w].id].document
      IN  Digest[records[i].key] = Digest[d] /\ target[records[i].key] = Digest[d]
  BY <1>1, <1>3 DEF Reusable, Candidate, Document
<1>5. /\ mine \in Requests /\ mine.phase = "switching" /\ mine.batch = worker[w].batch
      /\ mine.id = worker[w].id /\ mine.key = records[i].key
  BY <1>2 DEF Requests, Phases
<1>6. worker' = [worker EXCEPT ![w] = mine]
  BY <1>1
<1> HIDE DEF mine
<1> QED  BY <1>2, <1>4, <1>5, <1>6, MoveIInv DEF Reuse, Busy

LEMMA NoReuseIInv == ASSUME IInv, NEW w \in Workers, NoReuse(w) PROVE IInv'
  BY ToIInv DEF NoReuse, Busy

LEMMA ExamineIInv == ASSUME IInv, NEW w \in Workers, Examine(w) PROVE IInv'
  BY ToIInv DEF Examine, Busy, Document

LEMMA VerifyIInv == ASSUME IInv, NEW w \in Workers, Verify(w) PROVE IInv'
  BY ToIInv DEF Verify, Busy, Document

LEMMA StoreIInv == ASSUME IInv, NEW w \in Workers, Store(w) PROVE IInv'
<1> DEFINE d == records[worker[w].id].document
           key == worker[w].key
<1>1. /\ worker[w].id \in DOMAIN records /\ key \in Documents /\ d \in Documents
      /\ Digest[key] = Digest[d] /\ LegacyObject[d] = Digest[d]
  BY RecordTyped DEF Store, IInv, WorkersSound, WorkerSound, Busy, Records
<1>2. CASE UNCHANGED target
  BY <1>2, ToIInv DEF Store, Busy
<1>3. ASSUME NEW phase \in {"verifying", "failing"},
             target' = [target EXCEPT ![key] = LegacyObject[d]], To(w, phase)
      PROVE  IInv'
  <2> HIDE DEF d, key
  <2>1. /\ target' \in [Documents -> {Digest[c] : c \in Documents} \cup {None, Foreign}]
        /\ \A k \in Documents : target'[k] = IF k = key THEN Digest[key] ELSE target[k]
    BY <1>1, <1>3 DEF IInv, TypeOK
  <2> DEFINE mine == [worker[w] EXCEPT !.phase = phase]
  <2>2. worker[w] \in Requests
    BY DEF IInv, TypeOK
  <2>3. /\ mine \in Requests /\ mine.phase = phase /\ mine.batch = worker[w].batch
        /\ mine.id = worker[w].id /\ mine.key = worker[w].key
    BY <2>2 DEF Requests, Phases
  <2>4. worker' = [worker EXCEPT ![w] = mine]
    BY <1>3 DEF To
  <2> HIDE DEF mine
  <2>5. TypeOK'
    BY <2>1, <2>3, <2>4 DEF Store, IInv, TypeOK
  <2>6. PointerKeys' /\ PointerResolves'
    BY <2>1 DEF Store, IInv, TypeOK, PointerKeys, PointerResolves
  <2>7. ASSUME NEW v \in Workers PROVE WorkerSound(v)'
    <3>1. WorkerSound(v) /\ worker'[v] = IF v = w THEN mine ELSE worker[v]
      BY <2>4 DEF IInv, TypeOK, WorkersSound
    <3>2. UNCHANGED records
      BY DEF Store
    <3>3. CASE v = w
      BY <1>1, <2>3, <3>1, <3>2, <3>3 DEF WorkerSound, Busy, key, d
    <3>4. CASE v # w
      BY <2>1, <3>1, <3>2, <3>4 DEF WorkerSound, Busy
    <3> QED  BY <3>3, <3>4
  <2> QED  BY <2>5, <2>6, <2>7 DEF Store, IInv, RecordKeys, WorkersSound
<1> QED  BY <1>2, <1>3 DEF Store, Document

LEMMA SwitchIInv == ASSUME IInv, NEW w \in Workers, Switch(w) PROVE IInv'
<1> DEFINE d == records[worker[w].id].document
           key == worker[w].key
<1>1. /\ worker[w].id \in DOMAIN records /\ key \in Documents /\ d \in Documents
      /\ Digest[key] = Digest[d] /\ target[key] = Digest[d]
  BY RecordTyped DEF Switch, IInv, WorkersSound, WorkerSound, Busy, Records
<1>2. CASE UNCHANGED pointer
  BY <1>2, ToIInv DEF Switch, Busy
<1>3. ASSUME NEW phase \in {"recording", "retrying"},
             pointer' = [pointer EXCEPT ![d] = key], To(w, phase)
      PROVE  IInv'
  <2> HIDE DEF d, key
  <2>1. /\ pointer' \in [Documents -> Documents \cup {Legacy}]
        /\ \A c \in Documents : pointer'[c] = IF c = d THEN key ELSE pointer[c]
    BY <1>1, <1>3 DEF IInv, TypeOK
  <2> DEFINE mine == [worker[w] EXCEPT !.phase = phase]
  <2>2. worker[w] \in Requests
    BY DEF IInv, TypeOK
  <2>3. /\ mine \in Requests /\ mine.phase = phase /\ mine.batch = worker[w].batch
        /\ mine.id = worker[w].id /\ mine.key = worker[w].key
    BY <2>2 DEF Requests, Phases
  <2>4. worker' = [worker EXCEPT ![w] = mine]
    BY <1>3 DEF To
  <2> HIDE DEF mine
  <2>5. TypeOK'
    BY <2>1, <2>3, <2>4 DEF Switch, IInv, TypeOK
  <2>6. PointerKeys' /\ PointerResolves'
    BY <1>1, <2>1 DEF Switch, IInv, TypeOK, PointerKeys, PointerResolves
  <2>7. worker'[w] = mine /\ WorkerSound(w)
    BY <2>4 DEF IInv, TypeOK, WorkersSound
  <2>8. WorkerSound(w)'
    BY <2>3, <2>7 DEF Switch, WorkerSound, Busy
  <2>9. WorkersSound'
    BY <2>3, <2>4, <2>8, OthersSound DEF Switch, Grow
  <2> QED  BY <2>5, <2>6, <2>9 DEF Switch, IInv, RecordKeys
<1> QED  BY <1>2, <1>3 DEF Switch, Document
-----------------------------------------------------------------------------
LEMMA RegisterIInv ==
    ASSUME IInv, NEW w \in Workers, NEW d \in Documents, Register(w, d) PROVE IInv'
<1> DEFINE mine == [worker[w] EXCEPT !.documents = @ \ {d}]
           new == [document |-> d, key |-> d, state |-> "DISCOVERED", attempts |-> 0, age |-> 0]
<1>1. worker[w] \in Requests /\ WorkerSound(w) /\ records \in Seq(Records)
  BY DEF IInv, TypeOK, WorkersSound
<1>2. /\ mine \in Requests /\ mine.phase = worker[w].phase /\ mine.batch = worker[w].batch
      /\ mine.id = worker[w].id /\ mine.key = worker[w].key
  BY <1>1 DEF Requests
<1>3. worker' = [worker EXCEPT ![w] = mine]
  BY DEF Register
<1> HIDE DEF mine
<1>4. worker'[w] = mine
  BY <1>3 DEF IInv, TypeOK
<1>5. /\ records' \in Seq(Records) /\ Len(records') <= MaxRecords /\ Grow
      /\ \A i \in DOMAIN records' :
            \/ i \in DOMAIN records /\ records'[i] = records[i]
            \/ records'[i].key = d /\ records'[i].document = d
  <2>1. CASE UNCHANGED records
    BY <1>1, <2>1 DEF IInv, Grow
  <2>2. CASE Len(records) # MaxRecords /\ records' = Append(records, new)
    <3>1. new \in Records
      BY ConstantsAssumption DEF Records, States, Ancient
    <3> HIDE DEF new
    <3>2. /\ records' \in Seq(Records) /\ Len(records') = Len(records) + 1
          /\ DOMAIN records' = 1..(Len(records) + 1) /\ DOMAIN records = 1..Len(records)
          /\ \A i \in DOMAIN records : records'[i] = records[i]
          /\ records'[Len(records) + 1] = new
      BY <1>1, <2>2, <3>1
    <3>3. new.key = d /\ new.document = d
      BY DEF new
    <3>4. Len(records') <= MaxRecords
      BY <1>1, <2>2, <3>2, ConstantsAssumption DEF IInv
    <3> QED  BY <1>1, <3>2, <3>3, <3>4 DEF Grow
  <2> QED  BY <2>1, <2>2 DEF Register
<1>6. RecordKeys'
  BY <1>5 DEF IInv, RecordKeys
<1>7. WorkerSound(w)'
  BY <1>1, <1>2, <1>4, <1>5 DEF Register, WorkerSound, Busy, Grow
<1> QED  BY <1>2, <1>3, <1>5, <1>6, <1>7, WorkerStep DEF Register, IInv, TypeOK

LEMMA ClaimIInv == ASSUME IInv, NEW w \in Workers, Claim(w) PROVE IInv'
<1>1. PICK i \in worker[w].batch :
         /\ \/ records' = [records EXCEPT ![i].state = "COPYING", ![i].age = worker[w].age]
            \/ UNCHANGED records
         /\ \/ /\ records' = [records EXCEPT ![i].state = "COPYING", ![i].age = worker[w].age]
               /\ worker' = [worker EXCEPT ![w] = Claimed(w, i)]
            \/ worker' = [worker EXCEPT ![w].batch = @ \ {i}]
  BY DEF Claim
<1>2. /\ worker[w] \in Requests /\ WorkerSound(w) /\ records \in Seq(Records)
      /\ i \in DOMAIN records /\ records[i] \in Records /\ worker[w].phase = "batch"
  BY RecordTyped DEF IInv, TypeOK, WorkersSound, WorkerSound, Claim
<1>3. /\ records' \in Seq(Records) /\ DOMAIN records' = DOMAIN records
      /\ Len(records') <= MaxRecords /\ Grow /\ RecordKeys'
  <2>1. CASE UNCHANGED records
    BY <1>2, <2>1 DEF IInv, Grow, RecordKeys
  <2>2. CASE records' = [records EXCEPT ![i].state = "COPYING", ![i].age = worker[w].age]
    <3> DEFINE row == [records[i] EXCEPT !.state = "COPYING", !.age = worker[w].age]
    <3>1. worker[w].age \in 0..Ancient
      BY <1>2, ConstantsAssumption DEF Requests, Ancient
    <3>2. row \in Records /\ row.document = records[i].document /\ row.key = records[i].key
      BY <1>2, <3>1 DEF Records, States
    <3>3. records' = [records EXCEPT ![i] = row]
      BY <2>2
    <3> HIDE DEF row
    <3>4. /\ records' \in Seq(Records) /\ Len(records') = Len(records)
          /\ DOMAIN records' = DOMAIN records
          /\ \A j \in DOMAIN records : records'[j] = IF j = i THEN row ELSE records[j]
      BY <1>2, <3>2, <3>3
    <3> QED  BY <3>2, <3>4 DEF IInv, RecordKeys, Grow
  <2> QED  BY <1>1, <2>1, <2>2
<1>4. UNCHANGED <<pointer, target>> /\ crashes' \in 0..MaxCrashes
  BY DEF Claim, IInv, TypeOK
<1>5. CASE worker' = [worker EXCEPT ![w] = Claimed(w, i)]
  <2> DEFINE mine == Claimed(w, i)
  <2>1. /\ mine \in Requests /\ mine.phase = "claimed" /\ mine.batch = worker[w].batch \ {i}
        /\ mine.id = i /\ mine.key = records[i].key
    <3>1. i \in 0..MaxRecords /\ worker[w].batch \ {i} \in SUBSET (1..MaxRecords)
      BY <1>2 DEF Requests
    <3>2. records[i].attempts \in 0..MaxAttempts /\ records[i].key \in Documents
      BY <1>2 DEF Records
    <3>3. 0 \in 0..MaxHold
      BY ConstantsAssumption
    <3> QED  BY <1>2, <3>1, <3>2, <3>3 DEF Claimed, Requests, Phases
  <2>2. worker' = [worker EXCEPT ![w] = mine]
    BY <1>5
  <2> HIDE DEF mine
  <2>3. worker'[w] = mine /\ records'[i].document = records[i].document
    BY <1>2, <1>3, <2>2 DEF IInv, TypeOK, Grow
  <2>4. records[i].key \in Documents /\ Digest[records[i].key] = Digest[records[i].document]
    BY <1>2 DEF IInv, RecordKeys, Records
  <2>5. WorkerSound(w)'
    BY <1>2, <1>3, <2>1, <2>3, <2>4 DEF WorkerSound, Busy
  <2> QED  BY <1>3, <1>4, <2>1, <2>2, <2>5, WorkerStep
<1>6. CASE worker' = [worker EXCEPT ![w].batch = @ \ {i}]
  <2> DEFINE mine == [worker[w] EXCEPT !.batch = @ \ {i}]
  <2>1. /\ mine \in Requests /\ mine.phase = "batch" /\ mine.batch \subseteq worker[w].batch
    BY <1>2 DEF Requests
  <2>2. worker' = [worker EXCEPT ![w] = mine]
    BY <1>6
  <2> HIDE DEF mine
  <2>3. worker'[w] = mine
    BY <2>2 DEF IInv, TypeOK
  <2>4. WorkerSound(w)'
    BY <1>2, <1>3, <2>1, <2>3 DEF WorkerSound, Busy
  <2> QED  BY <1>3, <1>4, <2>1, <2>2, <2>4, WorkerStep
<1> QED  BY <1>1, <1>5, <1>6

(* A worker that wrote an outcome and holds nothing any more.              *)
LEMMA OutcomeIInv ==
    ASSUME IInv, NEW w \in Workers, worker[w].phase \in Busy, NEW row \in Records,
           row.document = records[worker[w].id].document,
           Digest[row.key] = Digest[row.document], Write(w, row),
           worker' = [worker EXCEPT ![w] = Released(w)] \/ worker' = [worker EXCEPT ![w] = Idle],
           UNCHANGED <<pointer, target, crashes>>
    PROVE  IInv'
<1>1. worker[w] \in Requests /\ WorkerSound(w)
  BY DEF IInv, TypeOK, WorkersSound
<1>2. /\ records' \in Seq(Records) /\ Len(records') <= MaxRecords
      /\ DOMAIN records' = DOMAIN records /\ Grow /\ RecordKeys'
  BY <1>1, WriteSound DEF WorkerSound
<1>3. PICK mine \in {Released(w), Idle} : worker' = [worker EXCEPT ![w] = mine]
  OBVIOUS
<1>4. /\ mine \in Requests /\ mine.phase \notin Busy
      /\ mine.batch \subseteq worker[w].batch
  <2>1. CASE mine = Idle
    BY <1>1, <2>1, ConstantsAssumption DEF Idle, Requests, Phases, Busy
  <2>2. CASE mine = Released(w)
    <3>1. 0 \in 0..MaxHold /\ 0 \in 0..MaxRecords /\ 0 \in 0..MaxAttempts
      BY ConstantsAssumption
    <3> QED  BY <1>1, <2>2, <3>1 DEF Released, Requests, Phases, Busy
  <2> QED  BY <2>1, <2>2
<1>5. worker'[w] = mine
  BY <1>3 DEF IInv, TypeOK
<1>6. WorkerSound(w)'
  BY <1>1, <1>2, <1>4, <1>5 DEF WorkerSound, Busy
<1> QED  BY <1>2, <1>3, <1>4, <1>6, WorkerStep DEF IInv, TypeOK

LEMMA RowTyped ==
    ASSUME IInv, NEW w \in Workers, worker[w].phase \in Busy
    PROVE  /\ records[worker[w].id] \in Records /\ worker[w].key \in Documents
           /\ Digest[worker[w].key] = Digest[records[worker[w].id].document]
           /\ Digest[records[worker[w].id].key] = Digest[records[worker[w].id].document]
           /\ Counted(w) \in 0..MaxAttempts
<1>1. WorkerSound(w) /\ worker[w].attempts \in 0..MaxAttempts
  BY DEF IInv, TypeOK, WorkersSound, Requests
<1>2. Counted(w) \in 0..MaxAttempts
  BY <1>1, ConstantsAssumption DEF Counted
<1> QED  BY <1>1, <1>2, RecordTyped DEF WorkerSound, IInv, RecordKeys

LEMMA RecordSwitchIInv == ASSUME IInv, NEW w \in Workers, RecordSwitch(w) PROVE IInv'
<1> DEFINE row == [records[worker[w].id] EXCEPT
                      !.state = "PRIMARY_SWITCH", !.key = worker[w].key,
                      !.attempts = Counted(w), !.age = 0]
<1>1. worker[w].phase \in Busy
  BY DEF RecordSwitch, Busy
<1>2. 0 \in 0..Ancient
  BY ConstantsAssumption DEF Ancient
<1>3. /\ row \in Records /\ row.document = records[worker[w].id].document
      /\ row.key = worker[w].key
  BY <1>1, <1>2, RowTyped DEF Records, States
<1>4. Write(w, row)
  BY DEF RecordSwitch
<1> HIDE DEF row
<1> QED  BY <1>1, <1>3, <1>4, RowTyped, OutcomeIInv DEF RecordSwitch

LEMMA RecordRetryIInv == ASSUME IInv, NEW w \in Workers, RecordRetry(w) PROVE IInv'
<1> DEFINE row == [records[worker[w].id] EXCEPT
                      !.state = "RETRY_PENDING", !.key = worker[w].key, !.age = 0]
<1>1. worker[w].phase \in Busy
  BY DEF RecordRetry, Busy
<1>2. 0 \in 0..Ancient
  BY ConstantsAssumption DEF Ancient
<1>3. /\ row \in Records /\ row.document = records[worker[w].id].document
      /\ row.key = worker[w].key
  BY <1>1, <1>2, RowTyped DEF Records, States
<1>4. Write(w, row)
  BY DEF RecordRetry
<1> HIDE DEF row
<1> QED  BY <1>1, <1>3, <1>4, RowTyped, OutcomeIInv DEF RecordRetry

LEMMA RecordFailureIInv == ASSUME IInv, NEW w \in Workers, RecordFailure(w) PROVE IInv'
<1> DEFINE state == IF Counted(w) = MaxAttempts THEN "FAILED" ELSE "RETRY_PENDING"
           row == [records[worker[w].id] EXCEPT
                      !.state = state, !.attempts = Counted(w), !.age = 0]
<1>1. worker[w].phase \in Busy
  BY DEF RecordFailure, Busy
<1>2. 0 \in 0..Ancient /\ state \in States
  BY ConstantsAssumption DEF Ancient, States
<1>3. /\ row \in Records /\ row.document = records[worker[w].id].document
      /\ row.key = records[worker[w].id].key
  BY <1>1, <1>2, RowTyped DEF Records
<1>4. Write(w, row)
  BY DEF RecordFailure
<1> HIDE DEF row
<1> QED  BY <1>1, <1>3, <1>4, RowTyped, OutcomeIInv DEF RecordFailure

LEMMA TickIInv == ASSUME IInv, Tick PROVE IInv'
<1> DEFINE Aged(w) == [worker[w] EXCEPT !.age = IF Timed(w) THEN @ + 1 ELSE @,
                                        !.held = IF Processing(w) THEN @ + 1 ELSE @]
           Older(i) == [records[i] EXCEPT !.age = IF records[i].state = "COPYING" /\ @ < Ancient
                                                  THEN @ + 1 ELSE @]
<1>1. worker' = [w \in Workers |-> Aged(w)] /\ records' = [i \in DOMAIN records |-> Older(i)]
  BY DEF Tick
<1>2. ASSUME NEW w \in Workers
      PROVE  /\ Aged(w) \in Requests
             /\ Aged(w).phase = worker[w].phase /\ Aged(w).batch = worker[w].batch
             /\ Aged(w).id = worker[w].id /\ Aged(w).key = worker[w].key
  <2>1. worker[w] \in Requests
    BY DEF IInv, TypeOK
  <2>2. /\ worker[w].age \in 0..MaxBatch /\ worker[w].held \in 0..MaxHold
        /\ MaxBatch \in Nat /\ MaxHold \in Nat
    BY <2>1, ConstantsAssumption DEF Requests
  <2>3. /\ Timed(w) => worker[w].age < MaxBatch
        /\ Processing(w) => worker[w].held < MaxHold
    BY DEF Tick
  <2>4. /\ (IF Timed(w) THEN worker[w].age + 1 ELSE worker[w].age) \in 0..MaxBatch
        /\ (IF Processing(w) THEN worker[w].held + 1 ELSE worker[w].held) \in 0..MaxHold
    BY <2>2, <2>3
  <2> QED  BY <2>1, <2>4 DEF Requests
<1>3. ASSUME NEW i \in DOMAIN records
      PROVE  /\ Older(i) \in Records
             /\ Older(i).document = records[i].document /\ Older(i).key = records[i].key
  <2>1. records[i] \in Records
    BY RecordTyped
  <2>2. (IF records[i].state = "COPYING" /\ records[i].age < Ancient
         THEN records[i].age + 1 ELSE records[i].age) \in 0..Ancient
    BY <2>1, ConstantsAssumption DEF Records, Ancient
  <2> QED  BY <2>1, <2>2 DEF Records
<1> HIDE DEF Aged, Older
<1>4. worker' \in [Workers -> Requests] /\ \A w \in Workers : worker'[w] = Aged(w)
  BY <1>1, <1>2
<1>5. /\ records' \in Seq(Records) /\ Len(records') = Len(records)
      /\ DOMAIN records' = DOMAIN records
      /\ \A i \in DOMAIN records : records'[i] = Older(i)
  <2>1. DOMAIN records = 1..Len(records) /\ Len(records) \in Nat
    BY DEF IInv, TypeOK
  <2>2. records' = [i \in 1..Len(records) |-> Older(i)]
        /\ \A i \in 1..Len(records) : Older(i) \in Records
    BY <1>1, <1>3, <2>1
  <2> QED  BY <2>1, <2>2
<1>6. TypeOK' /\ Len(records') <= MaxRecords
  BY <1>4, <1>5 DEF Tick, IInv, TypeOK
<1>7. RecordKeys'
  BY <1>3, <1>5 DEF IInv, RecordKeys
<1>8. PointerKeys' /\ PointerResolves'
  BY DEF Tick, IInv, PointerKeys, PointerResolves
<1>9. WorkersSound'
  <2> SUFFICES ASSUME NEW w \in Workers PROVE WorkerSound(w)'
    BY DEF WorkersSound
  <2>1. WorkerSound(w) /\ UNCHANGED target
    BY DEF IInv, WorkersSound, Tick
  <2> QED  BY <1>2, <1>3, <1>4, <1>5, <2>1 DEF WorkerSound, Busy
<1> QED  BY <1>6, <1>7, <1>8, <1>9 DEF IInv
-----------------------------------------------------------------------------
LEMMA NextIInv == ASSUME IInv, [Next]_vars PROVE IInv'
<1>1. CASE UNCHANGED vars
  BY <1>1 DEF vars, IInv, TypeOK, RecordKeys, PointerKeys, PointerResolves, WorkersSound,
              WorkerSound
<1>2. CASE Tick
  BY <1>2, TickIInv
<1>3. ASSUME NEW w \in Workers, Return(w) \/ Crash(w) PROVE IInv'
  BY <1>3, EndIInv, ConstantsAssumption DEF Return, Crash, IInv, TypeOK
<1>4. ASSUME NEW w \in Workers, Begin(w) \/ Work(w) PROVE IInv'
  BY <1>3, <1>4, BeginIInv, RegisterIInv, SelectIInv, ClaimIInv, ReuseIInv, NoReuseIInv,
     ExamineIInv, StoreIInv, VerifyIInv, SwitchIInv, RecordSwitchIInv, RecordRetryIInv,
     RecordFailureIInv DEF Work
<1> QED  BY <1>1, <1>2, <1>3, <1>4 DEF Next

LEMMA Invariance == Spec => []IInv
<1>1. Init => IInv
  BY InitIInv
<1>2. IInv /\ [Next]_vars => IInv'
  BY NextIInv
<1> QED  BY <1>1, <1>2, PTL DEF Spec

(* Every pointer that left the legacy bucket names an object with the      *)
(* document's bytes, in every state any number of workers can reach.       *)
THEOREM PointersResolve == Spec => []PointerResolves
<1>1. IInv => PointerResolves
  BY DEF IInv
<1> QED  BY <1>1, Invariance, PTL

(* Type correctness.                                                       *)
THEOREM MigrationTypeCorrect == Spec => []TypeOK
<1>1. IInv => TypeOK
  BY DEF IInv
<1> QED  BY <1>1, Invariance, PTL
-----------------------------------------------------------------------------
(***************************************************************************)
(* Leases.  The claim of a record stores the time its worker's batch began *)
(* (last_attempted_at), so a held record is as old as the batch of its     *)
(* holder.  A batch that ends within STALE_MIGRATION_LEASE_TIMEOUT_MS is   *)
(* never taken for stale, and its records are its own; a document has one  *)
(* active record, so nobody else moves its pointer meanwhile.              *)
(***************************************************************************)
OneActive ==
    \A i, j \in DOMAIN records : Document(i) = Document(j) /\ Active(i) /\ Active(j) => i = j

Holds(w) ==
    Processing(w) =>
        /\ worker[w].phase \in Busy
        /\ records[worker[w].id].state = "COPYING"
        /\ records[worker[w].id].age = worker[w].age
        /\ worker[w].phase = "recording" => pointer[Document(worker[w].id)] = worker[w].key

Owned ==
    /\ OneActive /\ RecordTellsPointer /\ OneWorkerPerRecord
    /\ \A w \in Workers : Holds(w)

LEMMA HolderBusy ==
    ASSUME IInv, Owned, NEW w \in Workers
    PROVE  /\ Processing(w) <=> worker[w].phase \in Busy
           /\ Processing(w) => worker[w].id \in DOMAIN records
           /\ worker[w].id \in Nat /\ worker[w].age \in 0..MaxBatch
<1>1. WorkerSound(w) /\ worker[w] \in Requests /\ records \in Seq(Records) /\ Holds(w)
  BY DEF IInv, WorkersSound, TypeOK, Owned
<1>2. DOMAIN records = 1..Len(records) /\ Len(records) \in Nat
  BY <1>1
<1>3. worker[w].id \in Nat /\ worker[w].age \in 0..MaxBatch
  BY <1>1, ConstantsAssumption DEF Requests
<1> QED  BY <1>1, <1>2, <1>3 DEF WorkerSound, Holds, Processing

(* A step of one worker leaves what the others hold to them if it leaves   *)
(* their records and the documents of these records alone.                 *)
LEMMA OthersHold ==
    ASSUME IInv, Owned, NEW w \in Workers, NEW mine, worker' = [worker EXCEPT ![w] = mine],
           \A v \in Workers \ {w} : Processing(v) =>
              /\ records'[worker[v].id] = records[worker[v].id]
              /\ pointer'[Document(worker[v].id)] = pointer[Document(worker[v].id)]
              /\ mine.id # worker[v].id,
           Holds(w)'
    PROVE  OneWorkerPerRecord' /\ \A v \in Workers : Holds(v)'
<1>1. worker'[w] = mine /\ \A v \in Workers \ {w} : worker'[v] = worker[v]
  BY DEF IInv, TypeOK
<1>2. ASSUME NEW v \in Workers PROVE Holds(v)'
  <2>1. Holds(v)
    BY DEF Owned
  <2> QED  BY <1>1, <2>1 DEF Holds, Processing, Document
<1>3. OneWorkerPerRecord'
  BY <1>1 DEF Owned, OneWorkerPerRecord, Processing
<1> QED  BY <1>2, <1>3

(* A worker starts, goes on with its record, or lets everything go.        *)
LEMMA OwnedQuiet ==
    ASSUME IInv, Owned, NEW w \in Workers, NEW mine, worker' = [worker EXCEPT ![w] = mine],
           \/ mine.id = 0
           \/ /\ mine.id = worker[w].id /\ mine.age = worker[w].age
              /\ Processing(w) => mine.phase \in Busy \ {"recording"},
           UNCHANGED <<pointer, records>>
    PROVE  Owned'
<1>1. worker'[w] = mine
  BY DEF IInv, TypeOK
<1>2. Holds(w)'
  BY <1>1 DEF Owned, Holds, Processing, Document
<1>3. \A v \in Workers \ {w} : Processing(v) => mine.id # worker[v].id
  BY DEF Owned, OneWorkerPerRecord, Processing
<1>4. OneWorkerPerRecord' /\ \A v \in Workers : Holds(v)'
  BY <1>2, <1>3, OthersHold
<1>5. OneActive' /\ RecordTellsPointer'
  BY DEF Owned, OneActive, RecordTellsPointer, Document, Active
<1> QED  BY <1>4, <1>5 DEF Owned

LEMMA OwnedMoves ==
    ASSUME IInv, Owned, NEW w \in Workers, NEW phase, To(w, phase),
           worker[w].phase \in Busy => phase \in Busy \ {"recording"},
           UNCHANGED <<pointer, records>>
    PROVE  Owned'
<1>1. PICK mine : mine = [worker[w] EXCEPT !.phase = phase]
  OBVIOUS
<1>2. worker[w] \in Requests
  BY DEF IInv, TypeOK
<1>3. mine.id = worker[w].id /\ mine.age = worker[w].age /\ mine.phase = phase
  BY <1>1, <1>2 DEF Requests
<1>4. worker' = [worker EXCEPT ![w] = mine]
  BY <1>1 DEF To
<1> QED  BY <1>3, <1>4, HolderBusy, OwnedQuiet

LEMMA OwnedQuietSteps ==
    ASSUME IInv, Owned, NEW w \in Workers,
           \/ Begin(w) \/ Select(w) \/ Return(w) \/ Crash(w) \/ Reuse(w) \/ NoReuse(w)
           \/ Examine(w) \/ Store(w) \/ Verify(w)
    PROVE  Owned'
<1>1. worker[w] \in Requests
  BY DEF IInv, TypeOK
<1>2. CASE Begin(w)
  <2>1. PICK mine : mine = [worker[w] EXCEPT !.phase = "discovering",
                                            !.documents = {d \in Documents : pointer[d] = Legacy}]
    OBVIOUS
  <2>2. mine.id = worker[w].id /\ mine.age = worker[w].age
    BY <1>1, <2>1 DEF Requests
  <2>3. worker' = [worker EXCEPT ![w] = mine] /\ ~Processing(w) /\ UNCHANGED <<pointer, records>>
    BY <1>2, <2>1, HolderBusy DEF Begin, Busy
  <2> QED  BY <2>2, <2>3, OwnedQuiet
<1>3. CASE Select(w)
  <2>1. PICK mine : mine = [worker[w] EXCEPT !.phase = "batch",
                                            !.batch = {i \in DOMAIN records : Claimable(i, 0)}]
    OBVIOUS
  <2>2. mine.id = worker[w].id /\ mine.age = worker[w].age
    BY <1>1, <2>1 DEF Requests
  <2>3. worker' = [worker EXCEPT ![w] = mine] /\ ~Processing(w) /\ UNCHANGED <<pointer, records>>
    BY <1>3, <2>1, HolderBusy DEF Select, Busy
  <2> QED  BY <2>2, <2>3, OwnedQuiet
<1>4. CASE Return(w) \/ Crash(w)
  BY <1>4, OwnedQuiet DEF Return, Crash, Idle
<1>5. CASE Reuse(w)
  <2>1. PICK mine : \E i \in DOMAIN records :
                      mine = [worker[w] EXCEPT !.phase = "switching", !.key = records[i].key]
                    /\ worker' = [worker EXCEPT ![w] = mine]
    BY <1>5 DEF Reuse
  <2>2. mine.id = worker[w].id /\ mine.age = worker[w].age /\ mine.phase = "switching"
    BY <1>1, <2>1 DEF Requests
  <2> QED  BY <1>5, <2>1, <2>2, OwnedQuiet DEF Reuse, Busy
<1>6. CASE NoReuse(w) \/ Examine(w) \/ Store(w) \/ Verify(w)
  <2>1. \E phase \in Busy \ {"recording"} : To(w, phase)
    BY <1>6 DEF NoReuse, Examine, Store, Verify, Busy
  <2>2. UNCHANGED <<pointer, records>>
    BY <1>6 DEF NoReuse, Examine, Store, Verify
  <2> QED  BY <2>1, <2>2, OwnedMoves
<1> QED  BY <1>2, <1>3, <1>4, <1>5, <1>6

LEMMA OwnedRegister ==
    ASSUME IInv, Owned, NEW w \in Workers, NEW d \in Documents, Register(w, d)
    PROVE  Owned'
<1>1. worker[w] \in Requests /\ records \in Seq(Records)
  BY DEF IInv, TypeOK
<1>2. PICK mine : mine = [worker[w] EXCEPT !.documents = @ \ {d}]
  OBVIOUS
<1>3. mine.id = worker[w].id /\ mine.age = worker[w].age /\ mine.phase = worker[w].phase /\ mine.key = worker[w].key
  BY <1>1, <1>2 DEF Requests
<1>4. worker' = [worker EXCEPT ![w] = mine] /\ UNCHANGED pointer
  BY <1>2 DEF Register
<1>5. worker'[w] = mine
  BY <1>4 DEF IInv, TypeOK
<1>6. /\ \A i \in DOMAIN records : i \in DOMAIN records' /\ records'[i] = records[i]
      /\ \A i \in DOMAIN records' \ DOMAIN records :
            /\ records'[i].document = d /\ records'[i].state = "DISCOVERED"
            /\ \A j \in DOMAIN records : Document(j) = d => ~Active(j)
            /\ \A j \in DOMAIN records' \ DOMAIN records : j = i
  <2>1. CASE UNCHANGED records
    BY <2>1
  <2>2. CASE /\ \A j \in DOMAIN records : Document(j) = d => ~Active(j)
             /\ records' = Append(records, [document |-> d, key |-> d, state |-> "DISCOVERED",
                                            attempts |-> 0, age |-> 0])
    <3>1. PICK new : new = [document |-> d, key |-> d, state |-> "DISCOVERED", attempts |-> 0, age |-> 0]
      OBVIOUS
    <3>2. /\ DOMAIN records' = 1..(Len(records) + 1) /\ DOMAIN records = 1..Len(records) /\ Len(records) \in Nat
          /\ \A i \in DOMAIN records : records'[i] = records[i]
          /\ records'[Len(records) + 1] = new
      BY <1>1, <2>2, <3>1
    <3>3. \A i \in DOMAIN records' \ DOMAIN records : i = Len(records) + 1
      BY <3>2
    <3>4. \A i \in DOMAIN records : i \in DOMAIN records'
      BY <3>2
    <3>5. new.document = d /\ new.state = "DISCOVERED"
      BY <3>1
    <3> QED  BY <2>2, <3>2, <3>3, <3>4, <3>5
  <2> QED  BY <2>1, <2>2 DEF Register
<1>7. OneActive'
  BY <1>6 DEF Owned, OneActive, Document, Active
<1>8. RecordTellsPointer'
  BY <1>4, <1>6 DEF Owned, RecordTellsPointer, Document
<1>9. Holds(w)'
  BY <1>3, <1>4, <1>5, <1>6, HolderBusy DEF Owned, Holds, Processing, Document
<1>10. \A v \in Workers \ {w} : Processing(v) =>
              records'[worker[v].id] = records[worker[v].id] /\ mine.id # worker[v].id
  BY <1>3, <1>6, HolderBusy DEF Owned, OneWorkerPerRecord, Processing
<1>11. OneWorkerPerRecord' /\ \A v \in Workers : Holds(v)'
  BY <1>4, <1>9, <1>10, OthersHold
<1> QED  BY <1>7, <1>8, <1>11 DEF Owned

(* A record that is held is not claimable.                                 *)
LEMMA HeldIsNotClaimable ==
    ASSUME IInv, Owned, MaxBatch <= Lease, NEW v \in Workers, Processing(v), NEW age \in Nat
    PROVE  ~Claimable(worker[v].id, age)
<1>1. worker[v].age \in 0..MaxBatch /\ Holds(v)
  BY HolderBusy DEF Owned
<1> QED  BY <1>1, ConstantsAssumption DEF Holds, Claimable

LEMMA OwnedClaim ==
    ASSUME IInv, Owned, MaxBatch <= Lease, NEW w \in Workers, Claim(w)
    PROVE  Owned'
<1>1. /\ worker[w] \in Requests /\ records \in Seq(Records) /\ WorkerSound(w) /\ worker[w].age \in Nat
      /\ ~Processing(w)
  <2>1. worker[w] \in Requests /\ records \in Seq(Records) /\ WorkerSound(w)
    BY DEF IInv, TypeOK, WorkersSound
  <2>2. worker[w].phase \notin Busy
    BY DEF Claim, Busy
  <2>3. ~Processing(w) /\ worker[w].age \in 0..MaxBatch
    BY <2>2, HolderBusy
  <2> QED  BY <2>1, <2>3, ConstantsAssumption
<1>2. PICK i \in worker[w].batch :
         \/ /\ Claimable(i, worker[w].age)
            /\ records' = [records EXCEPT ![i].state = "COPYING", ![i].age = worker[w].age]
            /\ \/ worker' = [worker EXCEPT ![w] = Claimed(w, i)]
               \/ worker' = [worker EXCEPT ![w].batch = @ \ {i}]
         \/ /\ worker' = [worker EXCEPT ![w].batch = @ \ {i}]
            /\ UNCHANGED records
  BY DEF Claim
<1>3. PICK skip : skip = [worker[w] EXCEPT !.batch = @ \ {i}]
  OBVIOUS
<1>4. skip.id = worker[w].id /\ skip.age = worker[w].age
  BY <1>1, <1>3 DEF Requests
<1>5. CASE /\ worker' = [worker EXCEPT ![w].batch = @ \ {i}]
           /\ UNCHANGED records
  BY <1>1, <1>3, <1>4, <1>5, OwnedQuiet DEF Claim
<1>6. CASE /\ Claimable(i, worker[w].age)
           /\ records' = [records EXCEPT ![i].state = "COPYING", ![i].age = worker[w].age]
           /\ \/ worker' = [worker EXCEPT ![w] = Claimed(w, i)]
              \/ worker' = [worker EXCEPT ![w].batch = @ \ {i}]
  <2>1. i \in DOMAIN records /\ records[i] \in Records
    BY <1>1, RecordTyped DEF WorkerSound
  <2>2. PICK row : row = [records[i] EXCEPT !.state = "COPYING", !.age = worker[w].age]
    OBVIOUS
  <2>3. row.document = records[i].document /\ row.state = "COPYING" /\ row.age = worker[w].age
    BY <2>1, <2>2 DEF Records
  <2>4. PICK mine : /\ mine \in {Claimed(w, i), skip}
                    /\ worker' = [worker EXCEPT ![w] = mine]
    BY <1>3, <1>6
  <2>5. mine.id = 0 \/ (mine.id = i /\ mine.phase = "claimed" /\ mine.age = worker[w].age)
    <3>1. skip.id = 0
      BY <1>1, <1>4 DEF Processing
    <3>2. Claimed(w, i).id = i /\ Claimed(w, i).phase = "claimed" /\ Claimed(w, i).age = worker[w].age
      BY <1>1 DEF Claimed, Requests
    <3> QED  BY <2>4, <3>1, <3>2
  <2>6. DOMAIN records' = DOMAIN records /\ \A j \in DOMAIN records : records'[j] = IF j = i THEN row ELSE records[j]
    BY <1>1, <1>6, <2>1, <2>2
  <2>7. worker'[w] = mine /\ UNCHANGED pointer
    BY <2>4 DEF IInv, TypeOK, Claim
  <2>8. \A v \in Workers : Processing(v) => worker[v].id # i
    BY <1>1, <1>6, HeldIsNotClaimable
  <2>9. OneActive'
    <3>1. Active(i)
      BY <1>6 DEF Claimable, Active
    <3> QED  BY <2>1, <2>3, <2>6, <3>1 DEF Owned, OneActive, Document, Active
  <2>10. RecordTellsPointer'
    BY <2>1, <2>3, <2>6, <2>7 DEF Owned, RecordTellsPointer, Document
  <2>11. Holds(w)'
    BY <2>1, <2>3, <2>5, <2>6, <2>7 DEF Holds, Processing, Busy
  <2>12. \A v \in Workers \ {w} : Processing(v) =>
              records'[worker[v].id] = records[worker[v].id] /\ mine.id # worker[v].id
    BY <2>5, <2>6, <2>8, HolderBusy DEF Processing
  <2>13. OneWorkerPerRecord' /\ \A v \in Workers : Holds(v)'
    BY <2>4, <2>7, <2>11, <2>12, OthersHold
  <2> QED  BY <2>9, <2>10, <2>13 DEF Owned
<1> QED  BY <1>2, <1>5, <1>6

(* Two workers hold records of different documents.                        *)
LEMMA HeldDocuments ==
    ASSUME IInv, Owned, NEW v \in Workers, NEW w \in Workers, v # w, Processing(v), Processing(w)
    PROVE  Document(worker[v].id) # Document(worker[w].id) /\ worker[v].id # worker[w].id
<1>1. /\ worker[v].id \in DOMAIN records /\ Active(worker[v].id)
      /\ worker[w].id \in DOMAIN records /\ Active(worker[w].id)
  BY HolderBusy DEF Owned, Holds, Active
<1> QED  BY <1>1 DEF Owned, OneActive, OneWorkerPerRecord

LEMMA OwnedSwitch ==
    ASSUME IInv, Owned, NEW w \in Workers, Switch(w)
    PROVE  Owned'
<1>1. CASE UNCHANGED pointer /\ To(w, "retrying")
  BY <1>1, OwnedMoves DEF Switch, Busy
<1>2. ASSUME NEW phase \in {"recording", "retrying"}, To(w, phase),
             pointer' = [pointer EXCEPT ![Document(worker[w].id)] = worker[w].key]
      PROVE  Owned'
  <2>1. PICK i, d, mine : /\ i = worker[w].id /\ d = Document(worker[w].id)
                          /\ mine = [worker[w] EXCEPT !.phase = phase]
    OBVIOUS
  <2>2. worker[w] \in Requests /\ Processing(w) /\ i \in DOMAIN records /\ Holds(w)
    BY <2>1, HolderBusy DEF IInv, TypeOK, Switch, Busy, Owned
  <2>3. /\ mine.id = i /\ mine.age = worker[w].age /\ mine.key = worker[w].key /\ mine.phase = phase
    BY <2>1, <2>2 DEF Requests
  <2>4. worker' = [worker EXCEPT ![w] = mine] /\ worker'[w] = mine /\ UNCHANGED records
    BY <1>2, <2>1 DEF To, IInv, TypeOK, Switch
  <2>5. d \in Documents /\ pointer'[d] = worker[w].key /\ \A c \in Documents \ {d} : pointer'[c] = pointer[c]
    <3>1. records[i] \in Records
      BY <2>2, RecordTyped
    <3> QED  BY <1>2, <2>1, <3>1 DEF IInv, TypeOK, Records, Document
  <2>6. Holds(w)'
    BY <2>1, <2>2, <2>3, <2>4, <2>5 DEF Holds, Processing, Document, Busy
  <2>7. ASSUME NEW j \in DOMAIN records, Document(j) = d, records[j].state = "PRIMARY_SWITCH" PROVE FALSE
    BY <2>1, <2>2, <2>7 DEF Owned, OneActive, Active, Holds
  <2>8. \A j \in DOMAIN records : Document(j) \in Documents
    BY RecordTyped DEF Records, Document
  <2>9. RecordTellsPointer'
    BY <2>4, <2>5, <2>7, <2>8 DEF Owned, RecordTellsPointer, Document
  <2>10. OneActive'
    BY <2>4 DEF Owned, OneActive, Document, Active
  <2>11. \A v \in Workers \ {w} : Processing(v) =>
              /\ pointer'[Document(worker[v].id)] = pointer[Document(worker[v].id)]
              /\ mine.id # worker[v].id
    BY <2>1, <2>2, <2>3, <2>5, <2>8, HeldDocuments, HolderBusy
  <2>12. OneWorkerPerRecord' /\ \A v \in Workers : Holds(v)'
    BY <2>4, <2>6, <2>11, OthersHold
  <2> QED  BY <2>9, <2>10, <2>12 DEF Owned
<1> QED  BY <1>1, <1>2 DEF Switch

LEMMA OwnedOutcome ==
    ASSUME IInv, Owned, NEW w \in Workers, Processing(w), NEW row, Write(w, row),
           row.document = Document(worker[w].id),
           row.state = "PRIMARY_SWITCH" => pointer[row.document] = row.key,
           worker' = [worker EXCEPT ![w] = Released(w)] \/ worker' = [worker EXCEPT ![w] = Idle],
           UNCHANGED pointer
    PROVE  Owned'
<1>1. PICK i, mine : /\ i = worker[w].id /\ mine \in {Released(w), Idle} /\ worker' = [worker EXCEPT ![w] = mine]
  OBVIOUS
<1>2. i \in DOMAIN records /\ records \in Seq(Records) /\ worker[w] \in Requests
  BY <1>1, HolderBusy DEF IInv, TypeOK
<1>3. mine.id = 0 /\ worker'[w] = mine
  <2>1. Released(w).id = 0 /\ Idle.id = 0
    BY <1>2 DEF Released, Idle, Requests
  <2> QED  BY <1>1, <2>1 DEF IInv, TypeOK
<1>4. DOMAIN records' = DOMAIN records
      /\ (records' = records \/ \A j \in DOMAIN records : records'[j] = IF j = i THEN row ELSE records[j])
  BY <1>1, <1>2 DEF Write
<1>5. Active(i)
  BY <1>1 DEF Owned, Holds, Active
<1>6. OneActive'
  BY <1>1, <1>2, <1>4, <1>5 DEF Owned, OneActive, Document, Active
<1>7. RecordTellsPointer'
  BY <1>1, <1>2, <1>4 DEF Owned, RecordTellsPointer, Document
<1>8. Holds(w)'
  BY <1>3 DEF Holds, Processing
<1>9. \A v \in Workers \ {w} : Processing(v) =>
              records'[worker[v].id] = records[worker[v].id] /\ mine.id # worker[v].id
  BY <1>1, <1>3, <1>4, HeldDocuments, HolderBusy DEF Processing
<1>10. OneWorkerPerRecord' /\ \A v \in Workers : Holds(v)'
  BY <1>1, <1>8, <1>9, OthersHold
<1> QED  BY <1>6, <1>7, <1>10 DEF Owned

LEMMA OwnedOutcomes ==
    ASSUME IInv, Owned, NEW w \in Workers, RecordSwitch(w) \/ RecordRetry(w) \/ RecordFailure(w)
    PROVE  Owned'
<1>1. PICK i, key, n : i = worker[w].id /\ key = worker[w].key /\ n = Counted(w)
  OBVIOUS
<1>2. Processing(w) /\ i \in DOMAIN records /\ records[i] \in Records /\ Holds(w)
  BY <1>1, HolderBusy, RecordTyped DEF RecordSwitch, RecordRetry, RecordFailure, Busy, Owned
<1>3. CASE RecordSwitch(w)
  <2>1. PICK row : row = [records[i] EXCEPT !.state = "PRIMARY_SWITCH", !.key = key, !.attempts = n, !.age = 0]
    OBVIOUS
  <2>2. row.document = Document(i) /\ row.key = key
    BY <1>2, <2>1 DEF Records, Document
  <2>3. pointer[Document(i)] = key
    BY <1>1, <1>2, <1>3 DEF Holds, RecordSwitch
  <2>4. Write(w, row)
    BY <1>1, <1>3, <2>1 DEF RecordSwitch
  <2> QED  BY <1>1, <1>2, <1>3, <2>2, <2>3, <2>4, OwnedOutcome DEF RecordSwitch
<1>4. CASE RecordRetry(w)
  <2>1. PICK row : row = [records[i] EXCEPT !.state = "RETRY_PENDING", !.key = key, !.age = 0]
    OBVIOUS
  <2>2. row.document = Document(i) /\ row.state = "RETRY_PENDING"
    BY <1>2, <2>1 DEF Records, Document
  <2>3. Write(w, row)
    BY <1>1, <1>4, <2>1 DEF RecordRetry
  <2> QED  BY <1>1, <1>2, <1>4, <2>2, <2>3, OwnedOutcome DEF RecordRetry
<1>5. CASE RecordFailure(w)
  <2>1. PICK state, row : /\ state = (IF n = MaxAttempts THEN "FAILED" ELSE "RETRY_PENDING")
                          /\ row = [records[i] EXCEPT !.state = state, !.attempts = n, !.age = 0]
    OBVIOUS
  <2>2. row.document = Document(i) /\ row.state # "PRIMARY_SWITCH"
    BY <1>2, <2>1 DEF Records, Document
  <2>3. Write(w, row)
    BY <1>1, <1>5, <2>1 DEF RecordFailure
  <2> QED  BY <1>1, <1>2, <1>5, <2>2, <2>3, OwnedOutcome DEF RecordFailure
<1> QED  BY <1>3, <1>4, <1>5

(* A record is held as long as the batch of its holder runs.               *)
LEMMA OwnedTick ==
    ASSUME IInv, Owned, Tick
    PROVE  Owned'
<1>1. UNCHANGED pointer /\ records \in Seq(Records) /\ worker \in [Workers -> Requests]
  BY DEF Tick, IInv, TypeOK
<1>2. ASSUME NEW w \in Workers
      PROVE  /\ worker'[w].id = worker[w].id /\ worker'[w].phase = worker[w].phase /\ worker'[w].key = worker[w].key
             /\ worker'[w].age = IF Timed(w) THEN worker[w].age + 1 ELSE worker[w].age
  <2>1. worker[w] \in Requests
    BY <1>1
  <2> QED  BY <2>1 DEF Tick, Requests
<1>3. DOMAIN records' = DOMAIN records
  BY DEF Tick
<1>4. ASSUME NEW i \in DOMAIN records
      PROVE  /\ records'[i].document = records[i].document /\ records'[i].key = records[i].key
             /\ records'[i].state = records[i].state
             /\ records'[i].age = IF records[i].state = "COPYING" /\ records[i].age < Ancient
                                  THEN records[i].age + 1 ELSE records[i].age
  <2>1. records[i] \in Records
    BY RecordTyped
  <2> QED  BY <2>1 DEF Tick, Records
<1>5. OneActive' /\ RecordTellsPointer'
  BY <1>1, <1>3, <1>4 DEF Owned, OneActive, RecordTellsPointer, Document, Active
<1>6. OneWorkerPerRecord'
  BY <1>2 DEF Owned, OneWorkerPerRecord, Processing
<1>7. ASSUME NEW w \in Workers PROVE Holds(w)'
  <2>1. SUFFICES ASSUME Processing(w) PROVE Holds(w)'
    BY <1>2 DEF Holds, Processing
  <2>2. worker[w].id \in DOMAIN records /\ Holds(w) /\ worker[w].phase \in Busy /\ worker[w].age \in 0..MaxBatch
    BY <2>1, HolderBusy DEF Owned
  <2>3. Timed(w) /\ worker[w].age < Ancient
    BY <2>2, ConstantsAssumption DEF Timed, Busy, Ancient
  <2> QED  BY <1>1, <1>2, <1>4, <2>1, <2>2, <2>3 DEF Holds, Document
<1> QED  BY <1>5, <1>6, <1>7 DEF Owned

LEMMA OwnedStep ==
    ASSUME IInv, Owned, MaxBatch <= Lease, [Next]_vars
    PROVE  Owned'
<1>1. CASE UNCHANGED vars
  BY <1>1 DEF vars, Owned, OneActive, RecordTellsPointer, OneWorkerPerRecord, Holds, Processing, Document, Active
<1>2. CASE Tick
  BY <1>2, OwnedTick
<1>3. ASSUME NEW w \in Workers, Begin(w) \/ Work(w) \/ Crash(w) PROVE Owned'
  BY <1>3, OwnedQuietSteps, OwnedRegister, OwnedClaim, OwnedSwitch, OwnedOutcomes DEF Work
<1> QED  BY <1>1, <1>2, <1>3 DEF Next

LEMMA OwnedInit == ASSUME Init PROVE Owned
BY DEF Init, Owned, OneActive, RecordTellsPointer, OneWorkerPerRecord, Holds, Processing, Idle

LEMMA AlwaysOwned == ASSUME MaxBatch <= Lease PROVE Spec => []Owned
<1>1. IInv /\ Owned /\ [Next]_vars => Owned'
  BY OwnedStep
<1> QED  BY <1>1, OwnedInit, Invariance, PTL DEF Spec

(* If every batch ends within the lease, no two workers ever process the   *)
(* same record, however they crash, fail and overlap.  The hypothesis is   *)
(* needed: run migration_lease breaks the property without it.             *)
THEOREM RecordsAreHeldOnce == ASSUME MaxBatch <= Lease PROVE Spec => []OneWorkerPerRecord
<1>1. Owned => OneWorkerPerRecord
  BY DEF Owned
<1> QED  BY <1>1, AlwaysOwned, PTL

(* ... and a record that says PRIMARY_SWITCH names the key its document    *)
(* points at: the record and the document's row, written in two requests,  *)
(* never disagree.                                                         *)
THEOREM RecordsTellPointers == ASSUME MaxBatch <= Lease PROVE Spec => []RecordTellsPointer
<1>1. Owned => RecordTellsPointer
  BY DEF Owned
<1> QED  BY <1>1, AlwaysOwned, PTL

(* ... and a recorded switch is final: the record is not claimed again and *)
(* the document's pointer does not move.                                   *)
THEOREM SwitchesAreFinal == ASSUME MaxBatch <= Lease PROVE Spec => SwitchIsFinal
<1> DEFINE Final ==
      \A i \in DOMAIN records :
          records[i].state = "PRIMARY_SWITCH" =>
             /\ records'[i] = records[i]
             /\ pointer'[Document(i)] = pointer[Document(i)]
<1>1. ASSUME IInv, Owned, [Next]_vars, NEW i \in DOMAIN records, records[i].state = "PRIMARY_SWITCH"
      PROVE  records'[i] = records[i] /\ pointer'[Document(i)] = pointer[Document(i)]
  <2>1. records \in Seq(Records) /\ records[i] \in Records /\ Active(i)
    BY <1>1, RecordTyped DEF IInv, TypeOK, Active
  <2>2. ASSUME NEW w \in Workers, Processing(w)
        PROVE  worker[w].id # i /\ worker[w].id \in DOMAIN records /\ Document(worker[w].id) # Document(i)
    <3>1. worker[w].id \in DOMAIN records /\ records[worker[w].id].state = "COPYING"
      BY <1>1, <2>2, HolderBusy DEF Owned, Holds
    <3>. QED  BY <1>1, <2>1, <3>1 DEF Owned, OneActive, Active
  <2>3. ASSUME NEW w \in Workers, NEW row, Processing(w), Write(w, row), UNCHANGED pointer
        PROVE  records'[i] = records[i] /\ pointer'[Document(i)] = pointer[Document(i)]
    BY <2>1, <2>2, <2>3 DEF Write
  <2>4. ASSUME NEW w \in Workers, RecordSwitch(w) \/ RecordRetry(w) \/ RecordFailure(w)
        PROVE  records'[i] = records[i] /\ pointer'[Document(i)] = pointer[Document(i)]
    <3>1. Processing(w)
      BY <1>1, <2>4, HolderBusy DEF RecordSwitch, RecordRetry, RecordFailure, Busy
    <3>2. \E row : Write(w, row)
      BY <2>4 DEF RecordSwitch, RecordRetry, RecordFailure
    <3>3. UNCHANGED pointer
      BY <2>4 DEF RecordSwitch, RecordRetry, RecordFailure
    <3>. QED  BY <2>3, <3>1, <3>2, <3>3
  <2>5. ASSUME NEW w \in Workers, Switch(w)
        PROVE  records'[i] = records[i] /\ pointer'[Document(i)] = pointer[Document(i)]
    <3>1. Processing(w) /\ pointer \in [Documents -> Documents \cup {Legacy}] /\ Document(i) \in Documents
      BY <1>1, <2>1, <2>5, HolderBusy DEF Switch, Busy, IInv, TypeOK, Records, Document
    <3>. QED  BY <2>2, <2>5, <3>1 DEF Switch
  <2>6. ASSUME NEW w \in Workers, Claim(w)
        PROVE  records'[i] = records[i] /\ pointer'[Document(i)] = pointer[Document(i)]
    <3>1. ~Claimable(i, worker[w].age)
      BY <1>1 DEF Claimable
    <3>. QED  BY <2>1, <2>6, <3>1 DEF Claim
  <2>7. ASSUME NEW w \in Workers, NEW d \in Documents, Register(w, d)
        PROVE  records'[i] = records[i] /\ pointer'[Document(i)] = pointer[Document(i)]
    <3>1. UNCHANGED pointer /\ (UNCHANGED records \/ \E r : records' = Append(records, r))
      BY <2>7 DEF Register
    <3>. QED  BY <1>1, <2>1, <3>1
  <2>8. CASE Tick
    BY <1>1, <2>1, <2>8 DEF Tick, Records
  <2>9. CASE UNCHANGED <<records, pointer>>
    BY <2>9
  <2>. QED  BY <1>1, <2>4, <2>5, <2>6, <2>7, <2>8, <2>9
       DEF Next, Work, Begin, Select, Return, Crash, Reuse, NoReuse, Examine, Store, Verify, vars
<1>2. IInv /\ Owned /\ [Next]_vars => [Final]_vars
  BY <1>1
<1>3. SwitchIsFinal <=> [][Final]_vars
  BY DEF SwitchIsFinal
<1>. HIDE DEF Final
<1> QED  BY <1>2, <1>3, AlwaysOwned, Invariance, PTL DEF Spec
=============================================================================
