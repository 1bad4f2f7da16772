-------------------------- MODULE StorageMigration --------------------------
(***************************************************************************)
(* Moving stored documents from the legacy bucket to the external primary  *)
(* one: MigrationService and executeMigrationStep.                         *)
(*                                                                         *)
(* A worker is one POST /migrate request.  It registers a record for each  *)
(* document still at the legacy provider, selects the records to process,  *)
(* and for each of them claims it, finds or makes a verified object in the *)
(* target bucket, points the document at it and writes the outcome.  Every *)
(* await is a step boundary, and workers run side by side.                 *)
(*                                                                         *)
(* A key of the target bucket is the document it was derived from, bytes   *)
(* are known by their digest, and timestamps by their age: a record's age  *)
(* is the time since last_attempted_at, a worker's the time since it took  *)
(* "now" and "staleThreshold".  The three document tables differ in names  *)
(* only.                                                                   *)
(*                                                                         *)
(* With CallsFail a request to the database or to a bucket may end in an   *)
(* error, having taken effect or not; it does not take effect later.       *)
(***************************************************************************)
EXTENDS Naturals, FiniteSets, Sequences

CONSTANTS
    Documents,
    Digest,         \* sha256 on the row of each document
    LegacyObject,   \* digest of the legacy object of each document, or None
    None,
    Legacy,         \* storage_provider "supabase"
    Foreign,        \* digest of unrelated bytes
    Workers,
    Lease,          \* STALE_MIGRATION_LEASE_TIMEOUT_MS
    MaxAttempts,
    MaxBatch,       \* bound on the time a worker spends on its batch
    MaxHold,        \* bound on the time it spends on one record
    MaxRecords,     \* bound on the number of records
    MaxCrashes,     \* bound on the number of requests that die
    CallsFail       \* requests to the database and the buckets may fail

ASSUME ConstantsAssumption ==
    /\ Legacy \notin Documents /\ None \notin Documents
    /\ \A d \in Documents : Digest[d] # None /\ Digest[d] # Foreign
    /\ {Lease, MaxBatch, MaxHold, MaxRecords, MaxCrashes} \subseteq Nat
    /\ MaxAttempts \in Nat \ {0}
    /\ CallsFail \in BOOLEAN

VARIABLES
    pointer,        \* where each document is: Legacy, or a key of the target
    target,         \* digest of the object under each key of the target bucket
    records,        \* document_migration_records, by created_at
    worker,         \* the request of each worker
    crashes

vars == <<pointer, target, records, worker, crashes>>

States == {"DISCOVERED", "COPYING", "PRIMARY_SWITCH", "RETRY_PENDING", "FAILED"}
Phases == {"idle", "discovering", "batch", "claimed", "examining", "storing",
           "verifying", "switching", "recording", "retrying", "failing"}
Ancient == Lease + MaxBatch + 1
Records == [document : Documents, key : Documents, state : States,
            attempts : 0..MaxAttempts, age : 0..Ancient]
Requests == [phase : Phases, documents : SUBSET Documents, batch : SUBSET (1..MaxRecords),
             age : 0..MaxBatch, held : 0..MaxHold, id : 0..MaxRecords,
             attempts : 0..MaxAttempts, key : Documents \cup {None}]

TypeOK ==
    /\ pointer \in [Documents -> Documents \cup {Legacy}]
    /\ target \in [Documents -> {Digest[d] : d \in Documents} \cup {None, Foreign}]
    /\ records \in Seq(Records)
    /\ worker \in [Workers -> Requests]
    /\ crashes \in 0..MaxCrashes

Idle == [phase |-> "idle", documents |-> {}, batch |-> {}, age |-> 0, held |-> 0,
         id |-> 0, attempts |-> 0, key |-> None]

(* Some keys of the target bucket may be taken, by a copy or by other bytes. *)
Init ==
    /\ pointer = [d \in Documents |-> Legacy]
    /\ target \in [Documents -> {None, Foreign}]
    /\ records = <<>>
    /\ worker = [w \in Workers |-> Idle]
    /\ crashes = 0
-----------------------------------------------------------------------------
Document(i) == records[i].document
Active(i) == records[i].state # "FAILED"
To(w, phase) == worker' = [worker EXCEPT ![w].phase = phase]

(* discoverEligibleDocuments: list the documents at the legacy provider ... *)
Begin(w) ==
    /\ worker[w].phase = "idle"
    /\ worker' = [worker EXCEPT ![w].phase = "discovering",
                                ![w].documents = {d \in Documents : pointer[d] = Legacy}]
    /\ UNCHANGED <<pointer, target, records, crashes>>

(* ... and register each that has no active record; a unique index settles *)
(* the race with another worker, and an insert that fails is passed over.  *)
Register(w, d) ==
    /\ d \in worker[w].documents
    /\ worker' = [worker EXCEPT ![w].documents = @ \ {d}]
    /\ LET refused == Len(records) = MaxRecords
                      \/ \E i \in DOMAIN records : Document(i) = d /\ Active(i)
       IN  \/ ~refused /\ records' = Append(records, [document |-> d, key |-> d,
                              state |-> "DISCOVERED", attempts |-> 0, age |-> 0])
           \/ (refused \/ CallsFail) /\ UNCHANGED records
    /\ UNCHANGED <<pointer, target, crashes>>

(* The rows a worker may select and claim, by the clock its batch began at. *)
ClaimableOnce(i, age) == records[i].state \in {"DISCOVERED", "RETRY_PENDING"}

Claimable(i, age) ==
    \/ records[i].state \in {"DISCOVERED", "RETRY_PENDING"}
    \/ records[i].state = "COPYING" /\ records[i].age > age + Lease

(* processPendingMigrations: take the time and select the pending records. *)
Select(w) ==
    /\ worker[w].phase = "discovering" /\ worker[w].documents = {}
    /\ worker' = [worker EXCEPT ![w].phase = "batch",
                                ![w].batch = {i \in DOMAIN records : Claimable(i, 0)}]
    /\ UNCHANGED <<pointer, target, records, crashes>>

(* The claim of the oldest record left: an update of the row if it is      *)
(* still claimable.  Without a row in the answer the record is skipped:    *)
(* another worker has it, or the call failed, and then the row may be      *)
(* claimed with nobody to work on it.                                      *)
Claimed(w, i) == [worker[w] EXCEPT !.phase = "claimed", !.batch = @ \ {i}, !.held = 0, !.id = i,
                                   !.attempts = records[i].attempts, !.key = records[i].key]

ClaimUnconditionally(w) ==
    /\ worker[w].phase = "batch"
    /\ \E i \in worker[w].batch :
          /\ \A j \in worker[w].batch : i <= j
          /\ records' = [records EXCEPT ![i].state = "COPYING", ![i].age = worker[w].age]
          /\ worker' = [worker EXCEPT ![w] = Claimed(w, i)]
    /\ UNCHANGED <<pointer, target, crashes>>

Claim(w) ==
    /\ worker[w].phase = "batch"
    /\ \E i \in worker[w].batch :
          LET free == Claimable(i, worker[w].age)
              taken == [records EXCEPT ![i].state = "COPYING", ![i].age = worker[w].age]
              skipped == [worker EXCEPT ![w].batch = @ \ {i}]
          IN  /\ \A j \in worker[w].batch : i <= j
              /\ \/ free /\ records' = taken /\ worker' = [worker EXCEPT ![w] = Claimed(w, i)]
                 \/ free /\ CallsFail /\ records' = taken /\ worker' = skipped
                 \/ (~free \/ CallsFail) /\ UNCHANGED records /\ worker' = skipped
    /\ UNCHANGED <<pointer, target, crashes>>

(* The batch is done, or one of its calls threw; the selection of pending  *)
(* records throws too when it fails.                                       *)
Return(w) ==
    /\ \/ worker[w].phase = "batch" /\ (worker[w].batch = {} \/ CallsFail)
       \/ worker[w].phase = "discovering" /\ worker[w].documents = {} /\ CallsFail
    /\ worker' = [worker EXCEPT ![w] = Idle]
    /\ UNCHANGED <<pointer, target, records, crashes>>

(***************************************************************************)
(* Physical deduplication: a switched record of the same digest lends its  *)
(* key, if the object under it still has that digest.  One candidate is    *)
(* looked at.                                                              *)
(***************************************************************************)
Candidate(i, d) == records[i].state = "PRIMARY_SWITCH" /\ Digest[Document(i)] = Digest[d]
Reusable(i, d) == Candidate(i, d) /\ target[records[i].key] = Digest[d]

Reuse(w) ==
    /\ worker[w].phase = "claimed"
    /\ \E i \in DOMAIN records :
          /\ Reusable(i, Document(worker[w].id))
          /\ worker' = [worker EXCEPT ![w].phase = "switching", ![w].key = records[i].key]
    /\ UNCHANGED <<pointer, target, records, crashes>>

NoReuse(w) ==
    /\ worker[w].phase = "claimed"
    /\ LET d == Document(worker[w].id)
       IN  \/ CallsFail
           \/ \A i \in DOMAIN records : ~Candidate(i, d)
           \/ \E i \in DOMAIN records : Candidate(i, d) /\ ~Reusable(i, d)
    /\ To(w, "examining")
    /\ UNCHANGED <<pointer, target, records, crashes>>

(* executeMigrationStep: check the source, then what is under the target   *)
(* key.  A target that cannot be read is taken for absent.                 *)
ExamineAnyCopy(w) ==
    /\ worker[w].phase = "examining"
    /\ LET d == Document(worker[w].id)
       IN  \/ LegacyObject[d] = Digest[d] /\ target[worker[w].key] # None /\ To(w, "switching")
           \/ LegacyObject[d] = Digest[d] /\ target[worker[w].key] = None /\ To(w, "storing")
           \/ LegacyObject[d] # Digest[d] /\ To(w, "failing")
    /\ UNCHANGED <<pointer, target, records, crashes>>

Examine(w) ==
    /\ worker[w].phase = "examining"
    /\ LET d == Document(worker[w].id)
           copy == target[worker[w].key]
           sound == LegacyObject[d] = Digest[d]
       IN  \/ sound /\ copy = Digest[d] /\ To(w, "verifying")
           \/ sound /\ (copy = None \/ CallsFail) /\ To(w, "storing")
           \/ (~sound \/ copy \notin {None, Digest[d]} \/ CallsFail) /\ To(w, "failing")
    /\ UNCHANGED <<pointer, target, records, crashes>>

(* The copy; if the call throws, the object may be there nevertheless.     *)
Store(w) ==
    /\ worker[w].phase = "storing"
    /\ LET copied == [target EXCEPT ![worker[w].key] = LegacyObject[Document(worker[w].id)]]
       IN  \/ target' = copied /\ To(w, "verifying")
           \/ CallsFail /\ target' \in {copied, target} /\ To(w, "failing")
    /\ UNCHANGED <<pointer, records, crashes>>

Verify(w) ==
    /\ worker[w].phase = "verifying"
    /\ LET matches == target[worker[w].key] = Digest[Document(worker[w].id)]
       IN  \/ matches /\ To(w, "switching")
           \/ (~matches \/ CallsFail) /\ To(w, "failing")
    /\ UNCHANGED <<pointer, target, records, crashes>>

(* The authoritative update of the document's row.  Answered by an error,  *)
(* it is taken for not done, though the document may have moved.           *)
Switch(w) ==
    /\ worker[w].phase = "switching"
    /\ LET moved == [pointer EXCEPT ![Document(worker[w].id)] = worker[w].key]
       IN  \/ pointer' = moved /\ To(w, "recording")
           \/ CallsFail /\ pointer' \in {moved, pointer} /\ To(w, "retrying")
    /\ UNCHANGED <<target, records, crashes>>
-----------------------------------------------------------------------------
(* Outcomes are written by id alone.  The unique index refuses to revive a *)
(* failed record beside an active one; that error, like a failed write, is *)
(* not looked at.                                                          *)
Write(w, row) ==
    LET i == worker[w].id
        refused == /\ row.state # "FAILED"
                   /\ \E j \in DOMAIN records \ {i} : Document(j) = Document(i) /\ Active(j)
    IN  \/ ~refused /\ records' = [records EXCEPT ![i] = row]
        \/ (refused \/ CallsFail) /\ UNCHANGED records

(* Attempts are only compared with max_attempts: the count stops there.     *)
Counted(w) == IF worker[w].attempts < MaxAttempts THEN worker[w].attempts + 1 ELSE MaxAttempts

Released(w) == [worker[w] EXCEPT !.phase = "batch", !.held = 0, !.id = 0, !.attempts = 0,
                                 !.key = None]

(* After the confirmed switch a backup intent is registered; if that       *)
(* throws, the rest of the batch is abandoned.                             *)
RecordSwitchWithoutKey(w) ==
    /\ worker[w].phase = "recording"
    /\ Write(w, [records[worker[w].id] EXCEPT
                    !.state = "PRIMARY_SWITCH", !.attempts = Counted(w), !.age = 0])
    /\ worker' = [worker EXCEPT ![w] = Released(w)]
    /\ UNCHANGED <<pointer, target, crashes>>

RecordSwitch(w) ==
    /\ worker[w].phase = "recording"
    /\ Write(w, [records[worker[w].id] EXCEPT
                    !.state = "PRIMARY_SWITCH", !.key = worker[w].key,
                    !.attempts = Counted(w), !.age = 0])
    /\ \E next \in {Released(w)} \cup (IF CallsFail THEN {Idle} ELSE {}) :
          worker' = [worker EXCEPT ![w] = next]
    /\ UNCHANGED <<pointer, target, crashes>>

(* The switch was not confirmed: retry, whatever the attempts.             *)
RecordRetry(w) ==
    /\ worker[w].phase = "retrying"
    /\ Write(w, [records[worker[w].id] EXCEPT
                    !.state = "RETRY_PENDING", !.key = worker[w].key, !.age = 0])
    /\ worker' = [worker EXCEPT ![w] = Released(w)]
    /\ UNCHANGED <<pointer, target, crashes>>

RecordFailure(w) ==
    /\ worker[w].phase = "failing"
    /\ Write(w, [records[worker[w].id] EXCEPT
                    !.state = IF Counted(w) = MaxAttempts THEN "FAILED" ELSE "RETRY_PENDING",
                    !.attempts = Counted(w), !.age = 0])
    /\ worker' = [worker EXCEPT ![w] = Released(w)]
    /\ UNCHANGED <<pointer, target, crashes>>

(* The server dies under a request.                                        *)
Crash(w) ==
    /\ crashes < MaxCrashes
    /\ worker[w].phase # "idle"
    /\ worker' = [worker EXCEPT ![w] = Idle]
    /\ crashes' = crashes + 1
    /\ UNCHANGED <<pointer, target, records>>

Processing(w) == worker[w].id # 0
Timed(w) == worker[w].phase \notin {"idle", "discovering"}

(* Time passes; a worker is slow, but not slower than the bounds.          *)
Tick ==
    /\ \A w \in Workers : /\ Timed(w) => worker[w].age < MaxBatch
                          /\ Processing(w) => worker[w].held < MaxHold
    /\ worker' = [w \in Workers |->
          [worker[w] EXCEPT !.age = IF Timed(w) THEN @ + 1 ELSE @,
                            !.held = IF Processing(w) THEN @ + 1 ELSE @]]
    /\ records' = [i \in DOMAIN records |->
          [records[i] EXCEPT !.age = IF records[i].state = "COPYING" /\ @ < Ancient
                                     THEN @ + 1 ELSE @]]
    /\ UNCHANGED <<pointer, target, crashes>>
-----------------------------------------------------------------------------
Work(w) ==
    \/ \E d \in Documents : Register(w, d)
    \/ Select(w) \/ Claim(w) \/ Return(w)
    \/ Reuse(w) \/ NoReuse(w) \/ Examine(w) \/ Store(w) \/ Verify(w) \/ Switch(w)
    \/ RecordSwitch(w) \/ RecordRetry(w) \/ RecordFailure(w)

Next == (\E w \in Workers : Begin(w) \/ Work(w) \/ Crash(w)) \/ Tick

Spec == Init /\ [][Next]_vars

(* Requests run to their end, time passes, and somebody keeps asking for   *)
(* the next batch (the operator's "migrate" button).                       *)
FairSpec ==
    Spec /\ WF_vars(Tick) /\ \A w \in Workers : WF_vars(Begin(w)) /\ WF_vars(Work(w))
-----------------------------------------------------------------------------
(* Whatever workers crash, stall past their lease or take over from each   *)
(* other, a document that left the legacy bucket is readable: the object   *)
(* under its key has the document's digest.                                *)
PointerResolves ==
    \A d \in Documents : pointer[d] # Legacy => target[pointer[d]] = Digest[d]

(* One worker at a time processes a record.                                *)
OneWorkerPerRecord ==
    \A v, w \in Workers : v # w /\ Processing(v) => worker[v].id # worker[w].id

(* A record says PRIMARY_SWITCH only of the object its document points at. *)
RecordTellsPointer ==
    \A i \in DOMAIN records :
       records[i].state = "PRIMARY_SWITCH" => pointer[Document(i)] = records[i].key

(* A recorded switch is final: neither a worker that selected the record   *)
(* earlier nor one that works on another record of the document changes    *)
(* the record or moves the pointer again.                                  *)
SwitchIsFinal ==
    [][\A i \in DOMAIN records :
          records[i].state = "PRIMARY_SWITCH" =>
             /\ records'[i] = records[i]
             /\ pointer'[Document(i)] = pointer[Document(i)]]_vars

(* A document whose legacy object is sound and whose key is not taken by   *)
(* other bytes is migrated in the end, though requests die on the way.     *)
Migratable(d) == LegacyObject[d] = Digest[d] /\ target[d] # Foreign

EventuallyMigrated ==
    \A d \in Documents : []Migratable(d) => <>[](pointer[d] # Legacy)
=============================================================================
