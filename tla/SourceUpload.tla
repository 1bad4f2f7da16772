---------------------------- MODULE SourceUpload ----------------------------
(***************************************************************************)
(* Upload of invoice sources (POST /manual-source of                       *)
(* src/src/server/storage/storageRouter.ts, with storageCompensation.ts):  *)
(* the object is stored first, the row that refers to it second, and the   *)
(* backup is registered last; what was stored for a row that could not be  *)
(* inserted is deleted again.  Composed with BackupReplication, which      *)
(* copies what is registered.                                              *)
(*                                                                         *)
(* Every request puts its object under a key of its own, so requests,      *)
(* objects and the documents made of them are identified.  A backup is     *)
(* configured and the primary store is S3.  An INSERT whose answer is lost *)
(* has taken effect by the time the error is reported, or never does.      *)
(***************************************************************************)
EXTENDS BackupReplication

CONSTANTS
    Content,        \* sha256 of the bytes of each request
    Manual,         \* requests of source type UPLOAD or MANUAL; the others are EMAIL
    MaxManifests    \* bound on manifests registered by reconciliation

ASSUME UploadAssumption == Manual \subseteq Objects /\ MaxManifests \in Nat

VARIABLES
    rows,           \* source_documents, in order of creation
    registration,   \* backup_registration_status of each row
    request

uploadVars == <<rows, registration, request>>
vars == <<backupVars, uploadVars>>

Phases == {"new", "putting", "inserting", "compensating", "deleting", "rereading",
           "looking", "adding", "relooking", "marking", "excusing", "ended"}
Answers == {"none", "document", "unstored", "failed", "unclean", "unregistered", "crashed"}

TypeOK ==
    /\ BackupTypeOK
    /\ rows \in Seq(Objects)
    /\ registration \in [Objects -> {"PENDING", "REGISTERED", "FAILED"}]
    /\ request \in [Objects -> [phase : Phases, document : Objects, conflict : BOOLEAN,
                                answer : Answers]]

Init ==
    /\ BackupInit
    /\ rows = <<>>
    /\ registration = [u \in Objects |-> "PENDING"]
    /\ request = [u \in Objects |-> [phase |-> "new", document |-> u, conflict |-> FALSE,
                                     answer |-> "none"]]

Committed == {rows[i] : i \in DOMAIN rows}
Document(u) == request[u].document
In(u, phase) == request[u].phase = phase
To(u, phase) == request' = [request EXCEPT ![u].phase = phase]
Answer(u, a) == request' = [request EXCEPT ![u].phase = "ended", ![u].answer = a]
Adopt(u, d, phase, a) ==
    request' = [request EXCEPT ![u].document = d, ![u].phase = phase, ![u].answer = a]
-----------------------------------------------------------------------------
(* The latest row with the same bytes is the answer if it was uploaded     *)
(* too; if its backup is not registered, that is done first.               *)
Latest(u) == {i \in DOMAIN rows : /\ Content[rows[i]] = Content[u]
                                  /\ \A j \in i+1..Len(rows) : Content[rows[j]] # Content[u]}

Existing(u) == {rows[i] : i \in Latest(u)} \cap Manual

Check(u) ==
    /\ In(u, "new")
    /\ \/ /\ Sound /\ u \in Manual
          /\ \E d \in Existing(u) :
                IF registration[d] = "REGISTERED" THEN Adopt(u, d, "ended", "document")
                                                  ELSE Adopt(u, d, "looking", "none")
       \/ Sound /\ (u \notin Manual \/ Existing(u) = {}) /\ To(u, "putting")
       \/ Fault /\ Answer(u, "unstored")
    /\ UNCHANGED <<objects, replicas, manifests, worker, rows, registration>>

Put(u) ==
    /\ In(u, "putting")
    /\ \/ Sound /\ objects' = objects \cup {u} /\ To(u, "inserting")
       \/ Fault /\ objects' \in {objects, objects \cup {u}} /\ Answer(u, "unstored")
    /\ UNCHANGED <<replicas, manifests, worker, rows, registration>>

(* The unique index source_documents_company_manual_sha_unique.            *)
Taken(u) == u \in Manual /\ \E d \in Committed \cap Manual : Content[d] = Content[u]

Insert(u) ==
    /\ In(u, "inserting")
    /\ \/ Sound /\ ~Taken(u) /\ rows' = Append(rows, u) /\ To(u, "looking")
       \/ Sound /\ Taken(u) /\ UNCHANGED rows
          /\ request' = [request EXCEPT ![u].phase = "compensating", ![u].conflict = TRUE]
       \/ Fault /\ rows' \in {rows} \cup (IF Taken(u) THEN {} ELSE {Append(rows, u)})
          /\ To(u, "compensating")
    /\ UNCHANGED <<objects, replicas, manifests, worker, registration>>
-----------------------------------------------------------------------------
(* compensateFailedUpload: no object is deleted that a row refers to.      *)
CompensateUnchecked(u) ==
    /\ In(u, "compensating")
    /\ Sound /\ To(u, "deleting")
    /\ UNCHANGED <<objects, replicas, manifests, worker, rows, registration>>

Compensate(u) ==
    /\ In(u, "compensating")
    /\ \/ Sound /\ u \notin Committed /\ To(u, "deleting")
       \/ ((u \in Committed /\ Sound) \/ Fault) /\ Answer(u, "unclean")
    /\ UNCHANGED <<objects, replicas, manifests, worker, rows, registration>>

RemoveHopeful(u) ==
    /\ In(u, "deleting")
    /\ (Sound /\ objects' = objects \ {u}) \/ (Fault /\ UNCHANGED objects)
    /\ IF request[u].conflict THEN To(u, "rereading") ELSE Answer(u, "failed")
    /\ UNCHANGED <<replicas, manifests, worker, rows, registration>>

Remove(u) ==
    /\ In(u, "deleting")
    /\ \/ /\ Sound /\ objects' = objects \ {u}
          /\ IF request[u].conflict THEN To(u, "rereading") ELSE Answer(u, "failed")
       \/ Fault /\ objects' \in {objects, objects \ {u}} /\ Answer(u, "unclean")
    /\ UNCHANGED <<replicas, manifests, worker, rows, registration>>

(* Who lost the race for the row answers with the winner's.                *)
RereadOwn(u) ==
    /\ In(u, "rereading")
    /\ Sound /\ Answer(u, "document")
    /\ UNCHANGED <<objects, replicas, manifests, worker, rows, registration>>

Reread(u) ==
    /\ In(u, "rereading")
    /\ \/ /\ Sound
          /\ \E d \in Committed \cap Manual :
                Content[d] = Content[u] /\ Adopt(u, d, "ended", "document")
       \/ Fault /\ Answer(u, "failed")
    /\ UNCHANGED <<objects, replicas, manifests, worker, rows, registration>>
-----------------------------------------------------------------------------
(* registerBackupIntent: one manifest that has not failed per object.      *)
Status(d, s) == registration' = [registration EXCEPT ![d] = s]

LookUp(u) ==
    /\ In(u, "looking")
    /\ \/ Sound /\ To(u, IF Active(Document(u)) THEN "marking" ELSE "adding")
       \/ Fault /\ To(u, "excusing")
    /\ UNCHANGED <<objects, replicas, manifests, worker, rows, registration>>

Add(u) ==
    /\ In(u, "adding")
    /\ LET added == Append(manifests, NewManifest(Document(u))) IN
       \/ Sound /\ ~Active(Document(u)) /\ manifests' = added /\ To(u, "marking")
       \/ Sound /\ Active(Document(u)) /\ UNCHANGED manifests /\ To(u, "relooking")
       \/ /\ Fault
          /\ manifests' \in {manifests} \cup (IF Active(Document(u)) THEN {} ELSE {added})
          /\ To(u, "excusing")
    /\ UNCHANGED <<objects, replicas, worker, rows, registration>>

LookAgain(u) ==
    /\ In(u, "relooking")
    /\ \/ Sound /\ To(u, IF Active(Document(u)) THEN "marking" ELSE "excusing")
       \/ Fault /\ To(u, "excusing")
    /\ UNCHANGED <<objects, replicas, manifests, worker, rows, registration>>

Mark(u) ==
    /\ In(u, "marking")
    /\ \/ Sound /\ Status(Document(u), "REGISTERED") /\ Answer(u, "document")
       \/ Fault /\ (Status(Document(u), "REGISTERED") \/ UNCHANGED registration)
          /\ To(u, "excusing")
    /\ UNCHANGED <<objects, replicas, manifests, worker, rows>>

Excuse(u) ==
    /\ In(u, "excusing")
    /\ \/ Sound /\ Status(Document(u), "FAILED")
       \/ Fault /\ (Status(Document(u), "FAILED") \/ UNCHANGED registration)
    /\ Answer(u, "unregistered")
    /\ UNCHANGED <<objects, replicas, manifests, worker, rows>>

Dies(u) ==
    /\ request[u].phase \notin {"new", "ended"}
    /\ Fault /\ Answer(u, "crashed")
    /\ UNCHANGED <<objects, replicas, manifests, worker, rows, registration>>

(* discoverUnbackedObjects: a manifest for a document that has none.  Its  *)
(* lookup only saves the INSERT that the unique index would reject.        *)
Reconcile(d) ==
    /\ d \in Committed /\ ~Active(d) /\ Len(manifests) < MaxManifests
    /\ manifests' = Append(manifests, NewManifest(d))
    /\ UNCHANGED <<objects, replicas, worker, faults, uploadVars>>
-----------------------------------------------------------------------------
Upload(u) ==
    \/ Check(u) \/ Put(u) \/ Insert(u) \/ Compensate(u) \/ Remove(u) \/ Reread(u)
    \/ LookUp(u) \/ Add(u) \/ LookAgain(u) \/ Mark(u) \/ Excuse(u)

Next ==
    \/ BackupStep /\ UNCHANGED uploadVars
    \/ \E u \in Objects : Upload(u) \/ Dies(u) \/ Reconcile(u)

Spec == Init /\ [][Next]_vars

(* Requests and workers that began get their answers, time passes, and     *)
(* somebody keeps calling /replicate-backup.                               *)
FairSpec ==
    /\ Spec /\ WF_vars(Tick /\ UNCHANGED uploadVars)
    /\ \A u \in Objects : WF_vars(Upload(u))
    /\ \A w \in Workers : WF_vars(Replicate(w) /\ UNCHANGED uploadVars)
-----------------------------------------------------------------------------
(* Every row refers to an object that is there, whatever fails or races:   *)
(* compensation never takes a committed document's object.                 *)
CommittedResolves == Committed \subseteq objects

(* Uploads of the same bytes that are answered with a document are         *)
(* answered with the same one.                                             *)
OneDocumentPerContent ==
    \A u, v \in Manual :
       request[u].answer = "document" /\ request[v].answer = "document" /\ Content[u] = Content[v]
          => Document(u) = Document(v)

(* Who is not told that the object could not be stored or cleaned up has   *)
(* left an object exactly if there is a row for it, and after a failure    *)
(* there is neither.                                                       *)
CleanEndLeavesNoOrphan ==
    \A u \in Objects :
       /\ request[u].answer \in {"document", "failed", "unregistered"} =>
             (u \in objects <=> u \in Committed)
       /\ request[u].answer = "failed" => u \notin Committed

(* A document whose backup is registered gets a verified copy or a         *)
(* manifest that says that it has none, though workers crash, outlast      *)
(* their lease, lose updates and write over newer states.                  *)
RegisteredIsSettled ==
    \A d \in Objects :
       registration[d] = "REGISTERED" ~>
          \E i \in DOMAIN manifests : /\ manifests[i].object = d
                                      /\ manifests[i].state \in {"VERIFIED", "FAILED"}
=============================================================================
