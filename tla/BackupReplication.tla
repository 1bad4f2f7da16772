-------------------------- MODULE BackupReplication --------------------------
(***************************************************************************)
(* Copies of stored documents in an independent object store               *)
(* (src/src/server/storage/backupService.ts, src/src/lib/storage/backup.ts): *)
(* manifests are claimed with a lease, copied, verified and concluded by   *)
(* workers that may crash or outlast their lease.                          *)
(*                                                                         *)
(* A worker is one call of replicateAndVerifyManifest.  The batches of     *)
(* processPendingReplications only propose manifests, which the claim      *)
(* checks again and reads afresh, so any manifest may be proposed.         *)
(* A claim whose answer is lost is a claim whose worker crashes at once.   *)
(* verification_status follows the state and is left out.  The key of an   *)
(* object is its own, so a copy under it has the object's bytes.           *)
(***************************************************************************)
EXTENDS Integers, Sequences

CONSTANTS
    Objects,        \* the objects of the primary store, by key
    Workers,
    Lease,          \* ticks a claim stays fresh
    MaxAttempts,    \* max_attempts
    MaxFaults       \* bound on failed calls and crashes

ASSUME BackupAssumption ==
    Lease \in Nat /\ MaxAttempts \in Nat \ {0} /\ MaxFaults \in Nat

VARIABLES
    objects,        \* the objects that are in the primary store
    replicas,       \* the objects whose copy is in the backup store
    manifests,      \* document_backup_replicas, in order of creation
    worker,
    faults

backupVars == <<objects, replicas, manifests, worker, faults>>

States == {"PENDING", "RETRY_PENDING", "COPYING", "VERIFYING", "VERIFIED", "FAILED"}
Ages == 0..(Lease + 1)      \* a claim of age Lease + 1 is stale and grows no older
Older(a) == IF a > Lease THEN a ELSE a + 1

Attempts == 0..MaxAttempts  \* further attempts than MaxAttempts make no difference
Another(n) == IF n = MaxAttempts THEN n ELSE n + 1

Manifest == [object : Objects, state : States, attempts : Attempts, age : Ages]
Idle == [phase |-> "idle", id |-> 0, attempts |-> 0, result |-> "PENDING", held |-> 0]

BackupTypeOK ==
    /\ objects \subseteq Objects
    /\ replicas \subseteq Objects
    /\ manifests \in Seq(Manifest)
    /\ \A w \in Workers :
          \/ worker[w] = Idle
          \/ /\ worker[w].phase \in {"examining", "fetching", "storing", "logging", "verifying",
                                     "concluding"}
             /\ worker[w].id \in DOMAIN manifests
             /\ worker[w].result \in States
             /\ worker[w].attempts \in Attempts /\ worker[w].held \in Ages
    /\ faults \in 0..MaxFaults

BackupInit ==
    /\ objects = {} /\ replicas = {} /\ manifests = <<>> /\ faults = 0
    /\ worker = [w \in Workers |-> Idle]

(* A call fails; otherwise it does what it should.                         *)
Fault == faults < MaxFaults /\ faults' = faults + 1
Sound == UNCHANGED faults

Held(w) == worker[w].id
Object(w) == manifests[Held(w)].object
At(w, phase) == worker[w].phase = phase
Goes(w, phase) == worker' = [worker EXCEPT ![w].phase = phase]
Yields(w, phase, result) ==
    worker' = [worker EXCEPT ![w].phase = phase, ![w].result = result]
-----------------------------------------------------------------------------
Active(o) == \E i \in DOMAIN manifests : manifests[i].object = o /\ manifests[i].state # "FAILED"

NewManifest(o) == [object |-> o, state |-> "PENDING", attempts |-> 0, age |-> 0]

(* An UPDATE of one manifest, which the unique index on the manifests that *)
(* have not failed may reject; the code does not look at the error.        *)
Updated(i, m) ==
    IF m.state # "FAILED" /\ \E j \in DOMAIN manifests \ {i} :
                                manifests[j].object = m.object /\ manifests[j].state # "FAILED"
    THEN manifests ELSE [manifests EXCEPT ![i] = m]

ClaimableFresh(i) == manifests[i].state \in {"PENDING", "RETRY_PENDING"}

Claimable(i) ==
    \/ manifests[i].state \in {"PENDING", "RETRY_PENDING"}
    \/ manifests[i].state \in {"COPYING", "VERIFYING"} /\ manifests[i].age > Lease

Claim(w) ==
    /\ At(w, "idle")
    /\ \E i \in DOMAIN manifests :
          /\ Claimable(i)
          /\ manifests' = [manifests EXCEPT ![i].state = "COPYING", ![i].age = 0]
          /\ worker' = [worker EXCEPT ![w] = [phase |-> "examining", id |-> i,
                            attempts |-> Another(manifests[i].attempts), result |-> "PENDING",
                            held |-> 0]]
    /\ UNCHANGED <<objects, replicas, faults>>

(* replicateObjectToBackup: an error is retried until the last attempt.    *)
Failure(w) == IF worker[w].attempts = MaxAttempts THEN "FAILED" ELSE "RETRY_PENDING"

(* A replica that cannot be read counts as missing.                        *)
Examine(w) ==
    /\ At(w, "examining")
    /\ \/ Object(w) \in replicas /\ Sound /\ Yields(w, "logging", "VERIFYING")
       \/ ((Object(w) \notin replicas /\ Sound) \/ Fault) /\ Goes(w, "fetching")
    /\ UNCHANGED <<objects, replicas, manifests>>

Fetch(w) ==
    /\ At(w, "fetching")
    /\ \/ Object(w) \in objects /\ Sound /\ Goes(w, "storing")
       \/ ((Object(w) \notin objects /\ Sound) \/ Fault) /\ Yields(w, "logging", Failure(w))
    /\ UNCHANGED <<objects, replicas, manifests>>

Store(w) ==
    /\ At(w, "storing")
    /\ \/ /\ Sound /\ replicas' = replicas \cup {Object(w)}
          /\ Yields(w, "logging", "VERIFYING")
       \/ /\ Fault /\ replicas' \in {replicas, replicas \cup {Object(w)}}
          /\ Yields(w, "logging", Failure(w))
    /\ UNCHANGED <<objects, manifests>>

Finishes(w) == worker' = [worker EXCEPT ![w] = Idle]

(* The first UPDATE stamps the manifest with the time replication began.   *)
LogResult(w) ==
    /\ At(w, "logging")
    /\ LET m == [manifests[Held(w)] EXCEPT !.state = worker[w].result,
                     !.attempts = worker[w].attempts,
                     !.age = IF worker[w].result = "VERIFYING" THEN worker[w].held ELSE 0]
       IN  \/ Sound /\ manifests' = Updated(Held(w), m)
           \/ Fault /\ UNCHANGED manifests
    /\ IF worker[w].result = "VERIFYING"
       THEN worker' = [worker EXCEPT ![w] = [Idle EXCEPT !.phase = "verifying", !.id = Held(w)]]
       ELSE Finishes(w)
    /\ UNCHANGED <<objects, replicas>>

(* verifyBackupReplica: any error is final.                                *)
Verify(w) ==
    /\ At(w, "verifying")
    /\ \/ Object(w) \in replicas /\ Sound /\ Yields(w, "concluding", "VERIFIED")
       \/ Fault /\ Yields(w, "concluding", "FAILED")
    /\ UNCHANGED <<objects, replicas, manifests>>

Conclude(w) ==
    /\ At(w, "concluding")
    /\ LET m == [manifests[Held(w)] EXCEPT !.state = worker[w].result, !.age = 0]
       IN  \/ Sound /\ manifests' = Updated(Held(w), m)
           \/ Fault /\ UNCHANGED manifests
    /\ Finishes(w)
    /\ UNCHANGED <<objects, replicas>>

Crash(w) ==
    /\ ~At(w, "idle") /\ Fault
    /\ Finishes(w)
    /\ UNCHANGED <<objects, replicas, manifests>>

Copying == {"examining", "fetching", "storing", "logging"}

Tick ==
    /\ worker' = [w \in Workers |->
                    IF worker[w].phase \in Copying THEN [worker[w] EXCEPT !.held = Older(@)]
                                                  ELSE worker[w]]
    /\ manifests' = [i \in DOMAIN manifests |->
                       IF manifests[i].state \in {"COPYING", "VERIFYING"}
                       THEN [manifests[i] EXCEPT !.age = Older(@)] ELSE manifests[i]]
    /\ UNCHANGED <<objects, replicas, faults>>

Replicate(w) ==
    \/ Claim(w) \/ Examine(w) \/ Fetch(w) \/ Store(w) \/ LogResult(w) \/ Verify(w) \/ Conclude(w)

BackupStep == (\E w \in Workers : Replicate(w) \/ Crash(w)) \/ Tick
=============================================================================
