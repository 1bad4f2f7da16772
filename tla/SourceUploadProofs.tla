------------------------- MODULE SourceUploadProofs -------------------------
(***************************************************************************)
(* Proofs about SourceUpload, for any requests, contents and workers: no   *)
(* upload leaves a row without its object, who gets a definite answer has  *)
(* left no object without a row, and equal uploads get the same document;  *)
(* and a backup that is reported as verified exists.                       *)
(***************************************************************************)
EXTENDS SourceUpload, SequenceTheorems, TLAPS

(* Where the object and the row of a request are, phase by phase.          *)
Absent(u) == u \notin objects /\ u \notin Committed
Loose(u) == u \in objects /\ u \notin Committed
Matched(u) == u \in objects <=> u \in Committed

Placed(u) ==
    /\ request[u].phase \in {"new", "putting", "rereading"} => Absent(u)
    /\ request[u].phase \in {"inserting", "deleting"} => Loose(u)
    /\ request[u].phase = "compensating" => u \in objects
    /\ request[u].phase \in {"looking", "adding", "relooking", "marking", "excusing"} => Matched(u)
    /\ request[u].phase # "ended" => request[u].answer = "none"
    /\ request[u].answer \in {"document", "unregistered"} => Matched(u)
    /\ request[u].answer = "failed" => Absent(u)

UploadTypeOK ==
    /\ objects \subseteq Objects
    /\ rows \in Seq(Objects)
    /\ registration \in [Objects -> {"PENDING", "REGISTERED", "FAILED"}]
    /\ request \in [Objects -> [phase : Phases, document : Objects, conflict : BOOLEAN,
                                answer : Answers]]

Placement == CommittedResolves /\ \A u \in Objects : Placed(u)

(* A new row commits its own request's document and no other.              *)
LEMMA RowAdded ==
    ASSUME rows \in Seq(Objects), NEW u \in Objects, rows' = Append(rows, u)
    PROVE  Committed' = Committed \cup {u}
<1>1. Len(rows') = Len(rows) + 1 /\ DOMAIN rows' = 1..Len(rows) + 1 /\ DOMAIN rows = 1..Len(rows)
  BY AppendProperties
<1>2. \A i \in 1..Len(rows) : rows'[i] = rows[i]
  BY AppendProperties
<1>3. rows'[Len(rows) + 1] = u
  BY AppendProperties
<1>4. Len(rows) \in Nat
  BY LenProperties
<1>. QED  BY <1>1, <1>2, <1>3, <1>4 DEF Committed

(* The workers of the backup touch neither the primary store nor the       *)
(* requests.                                                               *)
LEMMA BackupLeavesUploads ==
    BackupStep /\ UNCHANGED uploadVars => UNCHANGED <<objects, uploadVars>>
<1>. SUFFICES ASSUME BackupStep, UNCHANGED uploadVars
              PROVE  UNCHANGED objects
  OBVIOUS
<1>1. ASSUME NEW w \in Workers, Replicate(w)
      PROVE  UNCHANGED objects
  BY <1>1 DEF Replicate, Claim, Examine, Fetch, Store, LogResult, Verify, Conclude
<1>2. ASSUME NEW w \in Workers, Crash(w)
      PROVE  UNCHANGED objects
  BY <1>2 DEF Crash
<1>. QED  BY <1>1, <1>2 DEF BackupStep, Tick

(* What a request's own steps change.                                      *)
LEMMA OnlyOwn ==
    ASSUME UploadTypeOK, NEW u \in Objects, Upload(u) \/ Dies(u)
    PROVE  /\ \A v \in Objects \ {u} : /\ request'[v] = request[v]
                                       /\ v \in objects' <=> v \in objects
                                       /\ v \in Committed' <=> v \in Committed
           /\ rows' = rows \/ (In(u, "inserting") /\ rows' = Append(rows, u))
<1>1. \A v \in Objects \ {u} : /\ request'[v] = request[v]
                               /\ v \in objects' <=> v \in objects
  BY DEF UploadTypeOK, Upload, Dies, Check, Put, Insert, Compensate, Remove, Reread, LookUp, Add,
         LookAgain, Mark, Excuse, To, Answer, Adopt
<1>2. rows' = rows \/ (In(u, "inserting") /\ rows' = Append(rows, u))
  BY DEF Upload, Dies, Check, Put, Insert, Compensate, Remove, Reread, LookUp, Add,
         LookAgain, Mark, Excuse
<1>3. \A v \in Objects \ {u} : v \in Committed' <=> v \in Committed
  <2>1. CASE rows' = rows
    BY <2>1 DEF Committed
  <2>2. CASE rows' = Append(rows, u)
    BY <2>2, RowAdded DEF UploadTypeOK
  <2>. QED  BY <1>2, <2>1, <2>2
<1>. QED  BY <1>1, <1>2, <1>3
-----------------------------------------------------------------------------
(* Rows, registrations and requests have their types.                      *)
LEMMA UploadTypes == Spec => []UploadTypeOK
<1>1. Init => UploadTypeOK
  BY EmptySeq DEF Init, BackupInit, UploadTypeOK, Phases, Answers
<1>2. UploadTypeOK /\ [Next]_vars => UploadTypeOK'
  <2>. SUFFICES ASSUME UploadTypeOK, [Next]_vars
                PROVE  UploadTypeOK'
    OBVIOUS
  <2>. USE DEF UploadTypeOK
  <2>1. ASSUME NEW u \in Objects, Upload(u) \/ Dies(u)
        PROVE  UploadTypeOK'
    <3>1. rows' \in Seq(Objects)
      BY <2>1, OnlyOwn, AppendProperties
    <3>2. objects' \subseteq Objects
      BY <2>1 DEF Upload, Dies, Check, Put, Insert, Compensate, Remove, Reread, LookUp, Add,
           LookAgain, Mark, Excuse
    <3>3. registration' \in [Objects -> {"PENDING", "REGISTERED", "FAILED"}]
      BY <2>1 DEF Upload, Dies, Check, Put, Insert, Compensate, Remove, Reread, LookUp, Add,
           LookAgain, Mark, Excuse, Status
    <3>4. Committed \subseteq Objects
      BY ElementOfSeq DEF Committed
    <3>5. Existing(u) \subseteq Objects
      BY <3>4 DEF Existing, Latest, Committed
    <3>. DEFINE T == [Objects -> [phase : Phases, document : Objects, conflict : BOOLEAN,
                                  answer : Answers]]
    <3>6. request' \in T
      <4>1. ASSUME NEW p \in Phases, To(u, p)
            PROVE  request' \in T
        BY <4>1 DEF To
      <4>2. ASSUME NEW a \in Answers, Answer(u, a)
            PROVE  request' \in T
        BY <4>2 DEF Answer, Phases
      <4>3. ASSUME NEW d \in Objects, NEW p \in Phases, NEW a \in Answers, Adopt(u, d, p, a)
            PROVE  request' \in T
        BY <4>3 DEF Adopt
      <4>. HIDE DEF T
      <4>4. CASE Check(u)
        BY <3>5, <4>1, <4>2, <4>3, <4>4 DEF Check, Phases, Answers
      <4>5. CASE Put(u) \/ Compensate(u) \/ Remove(u)
        BY <4>1, <4>2, <4>5 DEF Put, Compensate, Remove, Phases, Answers
      <4>6. CASE Insert(u)
        <5>1. ASSUME request' = [request EXCEPT ![u].phase = "compensating", ![u].conflict = TRUE]
              PROVE  request' \in T
          BY <5>1 DEF T, Phases
        <5>. QED  BY <4>1, <4>6, <5>1 DEF Insert, Phases
      <4>7. CASE Reread(u)
        BY <3>4, <4>2, <4>3, <4>7 DEF Reread, Phases, Answers
      <4>8. CASE LookUp(u) \/ Add(u) \/ LookAgain(u)
        BY <4>1, <4>8 DEF LookUp, Add, LookAgain, Phases
      <4>9. CASE Mark(u) \/ Excuse(u) \/ Dies(u)
        BY <4>1, <4>2, <4>9 DEF Mark, Excuse, Dies, Phases, Answers
      <4>. QED  BY <2>1, <4>4, <4>5, <4>6, <4>7, <4>8, <4>9 DEF Upload
    <3>. QED  BY <3>1, <3>2, <3>3, <3>6
  <2>2. ASSUME NEW d \in Objects, Reconcile(d)
        PROVE  UploadTypeOK'
    BY <2>2 DEF Reconcile, uploadVars
  <2>3. CASE BackupStep /\ UNCHANGED uploadVars
    BY <2>3, BackupLeavesUploads DEF uploadVars
  <2>4. CASE UNCHANGED vars
    BY <2>4 DEF vars, backupVars, uploadVars
  <2>. QED  BY <2>1, <2>2, <2>3, <2>4 DEF Next
<1>. QED  BY <1>1, <1>2, PTL DEF Spec

LEMMA ToEffect ==
    ASSUME UploadTypeOK, NEW u \in Objects, NEW p, To(u, p)
    PROVE  request'[u].phase = p /\ request'[u].answer = request[u].answer
BY DEF UploadTypeOK, To

LEMMA AnswerEffect ==
    ASSUME UploadTypeOK, NEW u \in Objects, NEW a, Answer(u, a)
    PROVE  request'[u].phase = "ended" /\ request'[u].answer = a
BY DEF UploadTypeOK, Answer

LEMMA AdoptEffect ==
    ASSUME UploadTypeOK, NEW u \in Objects, NEW d, NEW p, NEW a, Adopt(u, d, p, a)
    PROVE  request'[u].phase = p /\ request'[u].answer = a
BY DEF UploadTypeOK, Adopt

(* A request's step puts its own object and row where its next phase       *)
(* expects them.                                                           *)
LEMMA OwnPlaced ==
    ASSUME UploadTypeOK, Placement, NEW u \in Objects, Upload(u) \/ Dies(u)
    PROVE  Placed(u)' /\ (u \in Committed' => u \in objects')
<1>. USE DEF Placed, Absent, Loose, Matched, In
<1>1. ASSUME rows' = rows
      PROVE  Committed' = Committed
  BY <1>1 DEF Committed
<1>2. Placed(u) /\ (u \in Committed => u \in objects)
  BY DEF Placement, CommittedResolves
<1>3. CASE Check(u)
  <2>1. \/ request'[u].phase \in {"ended", "looking"} /\ request'[u].answer \in {"none", "document"}
        \/ request'[u].phase = "putting" /\ request'[u].answer = request[u].answer
        \/ request'[u].phase = "ended" /\ request'[u].answer = "unstored"
    BY <1>2, <1>3, ToEffect, AnswerEffect, AdoptEffect DEF Check
  <2>2. request'[u].phase = "looking" => request'[u].answer = "none"
    BY <1>2, <1>3, ToEffect, AnswerEffect, AdoptEffect DEF Check
  <2>3. Committed' = Committed /\ objects' = objects
    BY <1>1, <1>3 DEF Check
  <2>. QED  BY <1>2, <1>3, <2>1, <2>2, <2>3 DEF Check
<1>4. CASE Put(u)
  <2>1. Committed' = Committed
    BY <1>1, <1>4 DEF Put
  <2>. QED  BY <1>2, <1>4, <2>1, ToEffect, AnswerEffect DEF Put
<1>5. CASE Insert(u)
  <2>1. request'[u].phase \in {"looking", "compensating"} /\ request'[u].answer = request[u].answer
    BY <1>5, ToEffect DEF Insert, UploadTypeOK
  <2>2. Committed' = Committed \/ (Committed' = Committed \cup {u})
    BY <1>1, <1>5, RowAdded DEF Insert, UploadTypeOK
  <2>3. request'[u].phase = "looking" => u \in Committed'
    BY <1>5, RowAdded, ToEffect DEF Insert, UploadTypeOK
  <2>. QED  BY <1>2, <1>5, <2>1, <2>2, <2>3 DEF Insert
<1>6. CASE Compensate(u)
  <2>1. Committed' = Committed
    BY <1>1, <1>6 DEF Compensate
  <2>. QED  BY <1>2, <1>6, <2>1, ToEffect, AnswerEffect DEF Compensate
<1>7. CASE Remove(u)
  <2>1. Committed' = Committed
    BY <1>1, <1>7 DEF Remove
  <2>. QED  BY <1>2, <1>7, <2>1, ToEffect, AnswerEffect DEF Remove
<1>8. CASE Reread(u)
  <2>1. Committed' = Committed
    BY <1>1, <1>8 DEF Reread
  <2>2. request'[u].phase = "ended" /\ request'[u].answer \in {"document", "failed"}
    BY <1>8, AnswerEffect, AdoptEffect DEF Reread
  <2>. QED  BY <1>2, <1>8, <2>1, <2>2 DEF Reread
<1>9. CASE LookUp(u) \/ Add(u) \/ LookAgain(u)
  <2>1. Committed' = Committed
    BY <1>1, <1>9 DEF LookUp, Add, LookAgain
  <2>. QED  BY <1>2, <1>9, <2>1, ToEffect DEF LookUp, Add, LookAgain
<1>10. CASE Mark(u) \/ Excuse(u)
  <2>1. Committed' = Committed
    BY <1>1, <1>10 DEF Mark, Excuse
  <2>. QED  BY <1>2, <1>10, <2>1, ToEffect, AnswerEffect DEF Mark, Excuse
<1>11. CASE Dies(u)
  <2>1. Committed' = Committed
    BY <1>1, <1>11 DEF Dies
  <2>. QED  BY <1>2, <1>11, <2>1, AnswerEffect DEF Dies
<1>. QED  BY <1>3, <1>4, <1>5, <1>6, <1>7, <1>8, <1>9, <1>10, <1>11 DEF Upload

LEMMA PlacementHolds == Spec => []Placement
<1>1. Init => Placement
  BY DEF Init, BackupInit, Placement, CommittedResolves, Committed, Placed, Absent, Loose, Matched
<1>2. UploadTypeOK /\ Placement /\ [Next]_vars => Placement'
  <2>. SUFFICES ASSUME UploadTypeOK, Placement, [Next]_vars
                PROVE  Placement'
    OBVIOUS
  <2>1. Committed \subseteq Objects
    BY ElementOfSeq DEF Committed, UploadTypeOK
  <2>2. ASSUME NEW u \in Objects, Upload(u) \/ Dies(u)
        PROVE  Placement'
    <3>1. ASSUME NEW v \in Objects \ {u}
          PROVE  Placed(v)'
      BY <2>2, <3>1, OnlyOwn DEF Placement, Placed, Absent, Loose, Matched
    <3>2. Placed(u)' /\ (u \in Committed' => u \in objects')
      BY <2>2, OwnPlaced
    <3>3. Committed' \subseteq Objects
      <4>1. CASE rows' = rows
        BY <2>1, <4>1 DEF Committed
      <4>2. CASE rows' = Append(rows, u)
        BY <2>1, <4>2, RowAdded DEF UploadTypeOK
      <4>. QED  BY <2>2, <4>1, <4>2, OnlyOwn
    <3>4. CommittedResolves'
      BY <2>2, <3>2, <3>3, OnlyOwn DEF Placement, CommittedResolves
    <3>. QED  BY <3>1, <3>2, <3>4 DEF Placement
  <2>3. ASSUME UNCHANGED <<objects, rows, request>>
        PROVE  Placement'
    BY <2>3 DEF Placement, CommittedResolves, Committed, Placed, Absent, Loose, Matched
  <2>4. ASSUME NEW d \in Objects, Reconcile(d)
        PROVE  Placement'
    BY <2>3, <2>4 DEF Reconcile, uploadVars
  <2>5. CASE BackupStep /\ UNCHANGED uploadVars
    BY <2>3, <2>5, BackupLeavesUploads DEF uploadVars
  <2>6. CASE UNCHANGED vars
    BY <2>3, <2>6 DEF vars, backupVars, uploadVars
  <2>. QED  BY <2>2, <2>4, <2>5, <2>6 DEF Next
<1>. QED  BY <1>1, <1>2, UploadTypes, PTL DEF Spec

(* Every source document's object is in the primary store, whatever calls  *)
(* fail, answers get lost or uploads race (storageCompensation.ts deletes  *)
(* only what no row refers to).                                            *)
THEOREM UploadsCommitObjects == Spec => []CommittedResolves
<1>1. Placement => CommittedResolves
  BY DEF Placement
<1>. QED  BY <1>1, PlacementHolds, PTL

(* A definite answer leaves an object exactly if there is a row for it.    *)
THEOREM NoSilentOrphans == Spec => []CleanEndLeavesNoOrphan
<1>1. Placement => CleanEndLeavesNoOrphan
  BY DEF Placement, CleanEndLeavesNoOrphan, Placed, Matched, Absent
<1>. QED  BY <1>1, PlacementHolds, PTL
-----------------------------------------------------------------------------
(* The rows of uploads differ in content, and a request that registers or  *)
(* answers with a document does so with an upload's row of its content.    *)
RowsDiffer ==
    \A d, e \in Committed \cap Manual : Content[d] = Content[e] => d = e

Resolved(u) ==
    Document(u) \in Committed \cap Manual /\ Content[Document(u)] = Content[u]

Agreed(u) ==
    /\ request[u].phase \in {"new", "putting", "inserting"} => Document(u) = u
    /\ request[u].phase \in {"looking", "adding", "relooking", "marking", "excusing"} => Resolved(u)
    /\ request[u].answer = "document" => Resolved(u)

Agreement == RowsDiffer /\ \A u \in Manual : Agreed(u)

(* A step keeps the document of a request unless it adopts one.            *)
LEMMA ToKeeps ==
    ASSUME UploadTypeOK, NEW u \in Objects, NEW p, To(u, p)
    PROVE  request'[u].phase = p /\ request'[u].document = request[u].document
BY DEF UploadTypeOK, To

LEMMA AnswerKeeps ==
    ASSUME UploadTypeOK, NEW u \in Objects, NEW a, Answer(u, a)
    PROVE  /\ request'[u].phase = "ended" /\ request'[u].answer = a
           /\ request'[u].document = request[u].document
BY DEF UploadTypeOK, Answer

LEMMA AdoptTakes ==
    ASSUME UploadTypeOK, NEW u \in Objects, NEW d, NEW p, NEW a, Adopt(u, d, p, a)
    PROVE  request'[u].phase = p /\ request'[u].answer = a /\ request'[u].document = d
BY DEF UploadTypeOK, Adopt

(* An upload answers with its own row, with one that Check found or with   *)
(* the one that its INSERT met.                                            *)
LEMMA OwnAgreed ==
    ASSUME UploadTypeOK, Placement, NEW u \in Manual, Agreed(u), Upload(u) \/ Dies(u)
    PROVE  Agreed(u)'
<1>. USE DEF Agreed, Resolved, Document, In
<1>1. ASSUME rows' = rows
      PROVE  Committed' = Committed
  BY <1>1 DEF Committed
<1>2. u \in Objects /\ Placed(u) /\ Committed \subseteq Objects
  BY UploadAssumption DEF Placement, CommittedResolves, UploadTypeOK
<1>3. request[u].phase # "ended" => request[u].answer = "none"
  BY <1>2 DEF Placed
<1>4. CASE Check(u)
  <2>1. Committed' = Committed
    BY <1>1, <1>4 DEF Check
  <2>2. \A d \in Existing(u) : d \in Committed \cap Manual /\ Content[d] = Content[u]
    BY DEF Existing, Latest, Committed
  <2>3. CASE To(u, "putting")
    BY <1>2, <1>3, <1>4, <2>3, ToKeeps, ToEffect DEF Check
  <2>4. CASE Answer(u, "unstored")
    BY <1>2, <2>4, AnswerKeeps
  <2>5. ASSUME NEW d \in Existing(u), NEW p \in {"ended", "looking"}, NEW a, Adopt(u, d, p, a)
        PROVE  Agreed(u)'
    BY <1>2, <2>1, <2>2, <2>5, AdoptTakes
  <2>. QED  BY <1>4, <2>3, <2>4, <2>5 DEF Check
<1>5. CASE Put(u)
  BY <1>2, <1>3, <1>5, ToKeeps, ToEffect, AnswerKeeps DEF Put
<1>6. CASE Insert(u)
  <2>1. request'[u].document = u /\ request'[u].answer = "none"
    BY <1>2, <1>3, <1>6, ToKeeps, ToEffect DEF Insert, UploadTypeOK
  <2>2. request'[u].phase \in {"looking", "compensating"}
    BY <1>2, <1>6, ToKeeps DEF Insert, UploadTypeOK
  <2>3. request'[u].phase = "looking" => u \in Committed'
    BY <1>2, <1>6, ToKeeps, RowAdded DEF Insert, UploadTypeOK
  <2>. QED  BY <2>1, <2>2, <2>3
<1>7. CASE Compensate(u) \/ Remove(u)
  BY <1>2, <1>3, <1>7, ToEffect, AnswerKeeps DEF Compensate, Remove
<1>8. CASE Reread(u)
  <2>1. Committed' = Committed
    BY <1>1, <1>8 DEF Reread
  <2>2. CASE Answer(u, "failed")
    BY <1>2, <2>2, AnswerKeeps
  <2>3. ASSUME NEW d \in Committed \cap Manual, Content[d] = Content[u],
               Adopt(u, d, "ended", "document")
        PROVE  Agreed(u)'
    BY <1>2, <2>1, <2>3, AdoptTakes
  <2>. QED  BY <1>8, <2>2, <2>3 DEF Reread
<1>9. CASE LookUp(u) \/ Add(u) \/ LookAgain(u)
  <2>1. Committed' = Committed
    BY <1>1, <1>9 DEF LookUp, Add, LookAgain
  <2>. QED  BY <1>2, <1>3, <1>9, <2>1, ToKeeps, ToEffect DEF LookUp, Add, LookAgain
<1>10. CASE Mark(u) \/ Excuse(u)
  <2>1. Committed' = Committed
    BY <1>1, <1>10 DEF Mark, Excuse
  <2>. QED  BY <1>2, <1>3, <1>10, <2>1, ToKeeps, ToEffect, AnswerKeeps DEF Mark, Excuse
<1>11. CASE Dies(u)
  BY <1>2, <1>11, AnswerKeeps DEF Dies
<1>. QED  BY <1>4, <1>5, <1>6, <1>7, <1>8, <1>9, <1>10, <1>11 DEF Upload

(* The unique index admits no second row of an upload's content.           *)
LEMMA StillDiffer ==
    ASSUME UploadTypeOK, RowsDiffer, NEW u \in Objects, Upload(u) \/ Dies(u)
    PROVE  RowsDiffer' /\ Committed \subseteq Committed'
<1>1. CASE rows' = rows
  BY <1>1 DEF RowsDiffer, Committed
<1>2. CASE rows' = Append(rows, u) /\ In(u, "inserting") /\ rows' # rows
  <2>1. ~Taken(u)
    BY <1>2 DEF Upload, Dies, Check, Put, Insert, Compensate, Remove, Reread, LookUp, Add,
         LookAgain, Mark, Excuse
  <2>. QED  BY <1>2, <2>1, RowAdded DEF RowsDiffer, Taken, UploadTypeOK
<1>. QED  BY <1>1, <1>2, OnlyOwn

LEMMA AgreementHolds == Spec => []Agreement
<1>1. Init => Agreement
  <2>. SUFFICES ASSUME Init
                PROVE  Agreement
    OBVIOUS
  <2>1. Committed = {}
    BY DEF Init, Committed
  <2>2. ASSUME NEW u \in Manual
        PROVE  Agreed(u)
    BY UploadAssumption DEF Init, Agreed, Document
  <2>. QED  BY <2>1, <2>2 DEF Agreement, RowsDiffer
<1>2. UploadTypeOK /\ Placement /\ Agreement /\ [Next]_vars => Agreement'
  <2>. SUFFICES ASSUME UploadTypeOK, Placement, Agreement, [Next]_vars
                PROVE  Agreement'
    OBVIOUS
  <2>. USE DEF Agreement
  <2>1. ASSUME NEW u \in Objects, Upload(u) \/ Dies(u)
        PROVE  Agreement'
    <3>1. ASSUME NEW v \in Manual, v # u
          PROVE  Agreed(v)'
      <4>1. request'[v] = request[v]
        BY <2>1, <3>1, OnlyOwn, UploadAssumption
      <4>2. Agreed(v) /\ Committed \subseteq Committed'
        BY <2>1, StillDiffer
      <4>. QED  BY <4>1, <4>2 DEF Agreed, Resolved, Document
    <3>2. u \in Manual => Agreed(u)'
      BY <2>1, OwnAgreed
    <3>. QED  BY <2>1, <3>1, <3>2, StillDiffer
  <2>2. ASSUME UNCHANGED <<rows, request>>
        PROVE  Agreement'
    BY <2>2 DEF RowsDiffer, Committed, Agreed, Resolved, Document
  <2>3. ASSUME NEW d \in Objects, Reconcile(d)
        PROVE  UNCHANGED <<rows, request>>
    BY <2>3 DEF Reconcile, uploadVars
  <2>4. BackupStep /\ UNCHANGED uploadVars => UNCHANGED <<rows, request>>
    BY DEF uploadVars
  <2>5. UNCHANGED vars => UNCHANGED <<rows, request>>
    BY DEF vars, uploadVars
  <2>. QED  BY <2>1, <2>2, <2>3, <2>4, <2>5 DEF Next
<1>. QED  BY <1>1, <1>2, UploadTypes, PlacementHolds, PTL DEF Spec

(* Uploads of the same bytes are answered with the same document, however  *)
(* their checks, inserts and compensations interleave.                     *)
THEOREM SameBytesSameDocument == Spec => []OneDocumentPerContent
<1>1. Agreement => OneDocumentPerContent
  BY DEF Agreement, OneDocumentPerContent, RowsDiffer, Agreed, Resolved
<1>. QED  BY <1>1, AgreementHolds, PTL
-----------------------------------------------------------------------------
(***************************************************************************)
(* The types of the backup: manifests keep their form through lost and     *)
(* rejected updates, and a worker holds a manifest that exists.            *)
(***************************************************************************)
WorkerPhases == {"idle", "examining", "fetching", "storing", "logging", "verifying", "concluding"}
WorkerRecords == [phase : WorkerPhases, id : Nat, attempts : Attempts, result : States, held : Ages]

BackupKept ==
    /\ objects \subseteq Objects /\ replicas \subseteq Objects
    /\ manifests \in Seq(Manifest) /\ faults \in 0..MaxFaults
    /\ worker \in [Workers -> WorkerRecords]
    /\ \A w \in Workers : worker[w] = Idle \/ (worker[w].phase # "idle" /\ worker[w].id \in DOMAIN manifests)

LEMMA KeptIsTyped ==
    ASSUME BackupKept
    PROVE  BackupTypeOK
<1>1. \A w \in Workers : worker[w] \in WorkerRecords
  BY DEF BackupKept
<1>. QED  BY <1>1 DEF BackupKept, BackupTypeOK, WorkerRecords, WorkerPhases

LEMMA IdleIsTyped == Idle \in WorkerRecords
BY BackupAssumption DEF Idle, WorkerRecords, WorkerPhases, Attempts, States, Ages

LEMMA Bounds ==
    /\ Older(0) \in Ages /\ \A a \in Ages : Older(a) \in Ages
    /\ \A n \in Attempts : Another(n) \in Attempts
    /\ 0 \in Attempts /\ 0 \in Ages
BY BackupAssumption DEF Older, Ages, Another, Attempts

LEMMA FaultsTyped ==
    ASSUME faults \in 0..MaxFaults, Fault \/ Sound
    PROVE  faults' \in 0..MaxFaults
BY BackupAssumption DEF Fault, Sound

LEMMA ManifestTyped ==
    ASSUME BackupKept, NEW i \in DOMAIN manifests
    PROVE  manifests[i] \in Manifest
<1>1. manifests \in Seq(Manifest)
  BY DEF BackupKept
<1>. QED  BY <1>1

(* A manifest is rewritten, or the update is lost or rejected.             *)
LEMMA ManifestsUpdated ==
    ASSUME BackupKept, NEW i \in DOMAIN manifests, NEW m \in Manifest,
           manifests' = Updated(i, m) \/ manifests' = [manifests EXCEPT ![i] = m] \/ UNCHANGED manifests
    PROVE  manifests' \in Seq(Manifest) /\ DOMAIN manifests' = DOMAIN manifests
<1>1. manifests \in Seq(Manifest)
  BY DEF BackupKept
<1>2. manifests' = manifests \/ manifests' = [manifests EXCEPT ![i] = m]
  BY DEF Updated
<1>. QED  BY <1>1, <1>2

(* One worker's step.                                                      *)
LEMMA WorkerStepKept ==
    ASSUME BackupKept, NEW w \in Workers, NEW mine \in WorkerRecords, worker' = [worker EXCEPT ![w] = mine],
           mine = Idle \/ (mine.phase # "idle" /\ mine.id \in DOMAIN manifests),
           manifests' \in Seq(Manifest), DOMAIN manifests' = DOMAIN manifests,
           objects' \subseteq Objects, replicas' \subseteq Objects, faults' \in 0..MaxFaults
    PROVE  BackupKept'
<1>1. worker' \in [Workers -> WorkerRecords] /\ worker'[w] = mine /\ \A v \in Workers \ {w} : worker'[v] = worker[v]
  BY DEF BackupKept
<1>. QED  BY <1>1 DEF BackupKept

(* A worker goes on with its manifest, to a phase and perhaps a result.    *)
LEMMA GoesOnKept ==
    ASSUME BackupKept, NEW w \in Workers, worker[w].phase # "idle", NEW phase \in WorkerPhases \ {"idle"},
           NEW result \in States, Goes(w, phase) \/ Yields(w, phase, result),
           UNCHANGED <<objects, manifests>>, replicas' \subseteq Objects, Fault \/ Sound
    PROVE  BackupKept'
<1>1. worker[w] \in WorkerRecords /\ worker[w].id \in DOMAIN manifests
  BY DEF BackupKept, Idle
<1>2. PICK mine : /\ mine = [worker[w] EXCEPT !.phase = phase] \/ mine = [worker[w] EXCEPT !.phase = phase, !.result = result]
                  /\ worker' = [worker EXCEPT ![w] = mine]
  BY DEF Goes, Yields
<1>3. mine \in WorkerRecords /\ mine.phase # "idle" /\ mine.id \in DOMAIN manifests
  BY <1>1, <1>2 DEF WorkerRecords
<1>4. /\ manifests' \in Seq(Manifest) /\ DOMAIN manifests' = DOMAIN manifests
      /\ objects' \subseteq Objects /\ faults' \in 0..MaxFaults
  BY FaultsTyped DEF BackupKept
<1>. QED  BY <1>2, <1>3, <1>4, WorkerStepKept

(* A worker is done with its manifest, or dies.                            *)
LEMMA EndsKept ==
    ASSUME BackupKept, NEW w \in Workers, Finishes(w), UNCHANGED <<objects, replicas>>, Fault \/ Sound,
           manifests' \in Seq(Manifest), DOMAIN manifests' = DOMAIN manifests
    PROVE  BackupKept'
<1>1. objects' \subseteq Objects /\ replicas' \subseteq Objects /\ faults' \in 0..MaxFaults
  BY FaultsTyped DEF BackupKept
<1>. QED  BY <1>1, IdleIsTyped, WorkerStepKept DEF Finishes

LEMMA ReplicateKept ==
    ASSUME BackupKept, NEW w \in Workers, Replicate(w) \/ Crash(w)
    PROVE  BackupKept'
<1>1. /\ manifests \in Seq(Manifest) /\ worker[w] \in WorkerRecords
      /\ objects \subseteq Objects /\ replicas \subseteq Objects /\ faults \in 0..MaxFaults
  BY DEF BackupKept
<1>2. /\ worker[w].phase # "idle" => Held(w) \in DOMAIN manifests /\ Object(w) \in Objects
  <2>1. worker[w].phase # "idle" => Held(w) \in DOMAIN manifests
    BY DEF BackupKept, Idle, Held
  <2>. QED  BY <2>1, ManifestTyped DEF Object, Manifest
<1>3. Failure(w) \in States /\ {"VERIFYING", "VERIFIED", "FAILED"} \subseteq States
  BY DEF Failure, States
<1>4. CASE Claim(w)
  <2>1. PICK i \in DOMAIN manifests :
           /\ manifests' = [manifests EXCEPT ![i].state = "COPYING", ![i].age = 0]
           /\ worker' = [worker EXCEPT ![w] = [phase |-> "examining", id |-> i,
                            attempts |-> Another(manifests[i].attempts), result |-> "PENDING",
                            held |-> 0]]
    BY <1>4 DEF Claim
  <2>2. manifests[i] \in Manifest /\ i \in Nat
    BY <1>1, <2>1, ManifestTyped
  <2>3. PICK m : m = [manifests[i] EXCEPT !.state = "COPYING", !.age = 0]
    OBVIOUS
  <2>4. m \in Manifest /\ manifests' = [manifests EXCEPT ![i] = m]
    BY <2>1, <2>2, <2>3, Bounds DEF Manifest, States
  <2>5. PICK n, mine : /\ n = Another(manifests[i].attempts)
                       /\ mine = [phase |-> "examining", id |-> i, attempts |-> n, result |-> "PENDING", held |-> 0]
    OBVIOUS
  <2>6. n \in Attempts
    BY <2>2, <2>5, Bounds DEF Manifest
  <2>7. mine \in WorkerRecords /\ mine.phase # "idle" /\ mine.id = i /\ worker' = [worker EXCEPT ![w] = mine]
    BY <2>1, <2>2, <2>5, <2>6, Bounds DEF WorkerRecords, WorkerPhases, States
  <2>8. manifests' \in Seq(Manifest) /\ DOMAIN manifests' = DOMAIN manifests
    BY <2>4, ManifestsUpdated
  <2>9. UNCHANGED <<objects, replicas, faults>>
    BY <1>4 DEF Claim
  <2>. QED  BY <1>1, <2>7, <2>8, <2>9, WorkerStepKept
<1>5. CASE Examine(w)
  BY <1>1, <1>3, <1>5, GoesOnKept DEF Examine, At, WorkerPhases
<1>6. CASE Fetch(w)
  BY <1>1, <1>3, <1>6, GoesOnKept DEF Fetch, At, WorkerPhases
<1>7. CASE Store(w)
  BY <1>1, <1>2, <1>3, <1>7, GoesOnKept DEF Store, At, WorkerPhases
<1>8. CASE Verify(w)
  BY <1>1, <1>3, <1>8, GoesOnKept DEF Verify, At, WorkerPhases
<1>9. CASE LogResult(w)
  <2>1. PICK i, result, age, m :
           /\ i = Held(w) /\ result = worker[w].result
           /\ age = (IF worker[w].result = "VERIFYING" THEN worker[w].held ELSE 0)
           /\ m = [manifests[i] EXCEPT !.state = result, !.attempts = worker[w].attempts, !.age = age]
    OBVIOUS
  <2>2. i \in DOMAIN manifests /\ manifests[i] \in Manifest /\ age \in Ages
    BY <1>1, <1>2, <1>9, <2>1, ManifestTyped, Bounds DEF LogResult, At, WorkerRecords
  <2>3. m \in Manifest
    BY <1>1, <2>1, <2>2 DEF Manifest, WorkerRecords
  <2>4. manifests' = Updated(i, m) \/ UNCHANGED manifests
    BY <1>9, <2>1 DEF LogResult
  <2>5. manifests' \in Seq(Manifest) /\ DOMAIN manifests' = DOMAIN manifests
    BY <2>2, <2>3, <2>4, ManifestsUpdated
  <2>6. UNCHANGED <<objects, replicas>> /\ (Fault \/ Sound)
    BY <1>9 DEF LogResult
  <2>7. CASE Finishes(w)
    BY <2>5, <2>6, <2>7, EndsKept
  <2>8. CASE worker' = [worker EXCEPT ![w] = [Idle EXCEPT !.phase = "verifying", !.id = Held(w)]]
    <3>1. PICK mine : mine = [Idle EXCEPT !.phase = "verifying", !.id = i]
      OBVIOUS
    <3>2. i \in Nat
      BY <1>1, <2>2
    <3>3. mine \in WorkerRecords /\ mine.phase # "idle" /\ mine.id = i
      BY <3>1, <3>2, IdleIsTyped DEF WorkerRecords, WorkerPhases
    <3>4. worker' = [worker EXCEPT ![w] = mine]
      BY <2>1, <2>8, <3>1
    <3>. QED  BY <1>1, <2>2, <2>5, <2>6, <3>3, <3>4, FaultsTyped, WorkerStepKept
  <2>. QED  BY <1>9, <2>7, <2>8 DEF LogResult
<1>10. CASE Conclude(w)
  <2>1. PICK i, m : i = Held(w) /\ m = [manifests[i] EXCEPT !.state = worker[w].result, !.age = 0]
    OBVIOUS
  <2>2. i \in DOMAIN manifests /\ manifests[i] \in Manifest
    BY <1>2, <1>10, <2>1, ManifestTyped DEF Conclude, At
  <2>3. m \in Manifest
    BY <1>1, <2>1, <2>2, Bounds DEF Manifest, WorkerRecords
  <2>4. manifests' \in Seq(Manifest) /\ DOMAIN manifests' = DOMAIN manifests
    <3>1. manifests' = Updated(i, m) \/ UNCHANGED manifests
      BY <1>10, <2>1 DEF Conclude
    <3>. QED  BY <2>2, <2>3, <3>1, ManifestsUpdated
  <2>. QED  BY <1>10, <2>4, EndsKept DEF Conclude
<1>11. CASE Crash(w)
  BY <1>1, <1>11, EndsKept DEF Crash
<1>. QED  BY <1>4, <1>5, <1>6, <1>7, <1>8, <1>9, <1>10, <1>11 DEF Replicate

LEMMA TickKept ==
    ASSUME BackupKept, Tick
    PROVE  BackupKept'
<1> DEFINE Aged(w) == IF worker[w].phase \in Copying THEN [worker[w] EXCEPT !.held = Older(@)] ELSE worker[w]
           Staler(i) == IF manifests[i].state \in {"COPYING", "VERIFYING"}
                        THEN [manifests[i] EXCEPT !.age = Older(@)] ELSE manifests[i]
<1>1. worker' = [w \in Workers |-> Aged(w)] /\ manifests' = [i \in DOMAIN manifests |-> Staler(i)]
  BY DEF Tick
<1>2. ASSUME NEW w \in Workers
      PROVE  /\ Aged(w) \in WorkerRecords
             /\ Aged(w) = Idle \/ (Aged(w).phase # "idle" /\ Aged(w).id \in DOMAIN manifests)
  <2>1. worker[w] \in WorkerRecords /\ (worker[w] = Idle \/ (worker[w].phase # "idle" /\ worker[w].id \in DOMAIN manifests))
    BY DEF BackupKept
  <2>2. PICK a : a = Older(worker[w].held)
    OBVIOUS
  <2>3. a \in Ages
    BY <2>1, <2>2, Bounds DEF WorkerRecords
  <2>4. Aged(w) = IF worker[w].phase \in Copying THEN [worker[w] EXCEPT !.held = a] ELSE worker[w]
    BY <2>2
  <2>. HIDE DEF Aged
  <2>. QED  BY <2>1, <2>3, <2>4 DEF WorkerRecords, Copying, Idle
<1>3. ASSUME NEW i \in DOMAIN manifests PROVE Staler(i) \in Manifest
  <2>1. manifests[i] \in Manifest
    BY ManifestTyped
  <2>2. PICK a : a = Older(manifests[i].age)
    OBVIOUS
  <2>3. a \in Ages
    BY <2>1, <2>2, Bounds DEF Manifest
  <2>. QED  BY <2>1, <2>2, <2>3 DEF Manifest
<1>. HIDE DEF Aged, Staler
<1>4. manifests' \in Seq(Manifest) /\ DOMAIN manifests' = DOMAIN manifests
  <2>1. DOMAIN manifests = 1..Len(manifests) /\ Len(manifests) \in Nat
    BY DEF BackupKept
  <2>. QED  BY <1>1, <1>3, <2>1
<1>5. worker' \in [Workers -> WorkerRecords]
  BY <1>1, <1>2
<1>. QED  BY <1>1, <1>2, <1>4, <1>5 DEF BackupKept, Tick

(* A request changes the primary store and adds manifests.                 *)
LEMMA RequestKept ==
    ASSUME UploadTypeOK, BackupKept, NEW u \in Objects, Upload(u) \/ Dies(u) \/ Reconcile(u)
    PROVE  BackupKept'
<1>1. UNCHANGED <<replicas, worker>>
  BY DEF Upload, Dies, Reconcile, Check, Put, Insert, Compensate, Remove, Reread, LookUp, Add, LookAgain, Mark, Excuse
<1>2. objects' \subseteq Objects
  BY DEF BackupKept, Upload, Dies, Reconcile, Check, Put, Insert, Compensate, Remove, Reread, LookUp, Add, LookAgain,
         Mark, Excuse
<1>3. faults' \in 0..MaxFaults
  <2>1. Fault \/ Sound
    BY DEF Sound, Upload, Dies, Reconcile, Check, Put, Insert, Compensate, Remove, Reread, LookUp, Add, LookAgain,
           Mark, Excuse
  <2>. QED  BY <2>1, FaultsTyped DEF BackupKept
<1>4. PICK o \in Objects : UNCHANGED manifests \/ manifests' = Append(manifests, NewManifest(o))
  <2>1. Document(u) \in Objects
    BY DEF UploadTypeOK, Document
  <2>. QED  BY <2>1 DEF Upload, Dies, Reconcile, Check, Put, Insert, Compensate, Remove, Reread, LookUp, Add, LookAgain,
                       Mark, Excuse
<1>5. manifests' \in Seq(Manifest) /\ DOMAIN manifests \subseteq DOMAIN manifests'
  <2>1. NewManifest(o) \in Manifest
    BY Bounds DEF NewManifest, Manifest, States
  <2>2. PICK m : m = NewManifest(o)
    OBVIOUS
  <2>3. manifests \in Seq(Manifest)
    BY DEF BackupKept
  <2>. QED  BY <1>4, <2>1, <2>2, <2>3
<1>. QED  BY <1>1, <1>2, <1>3, <1>5 DEF BackupKept

LEMMA BackupStaysKept == Spec => []BackupKept
<1>1. Init => BackupKept
  <2>. SUFFICES ASSUME Init PROVE BackupKept
    OBVIOUS
  <2>1. worker \in [Workers -> WorkerRecords] /\ \A w \in Workers : worker[w] = Idle
    BY IdleIsTyped DEF Init, BackupInit
  <2>2. faults \in 0..MaxFaults /\ manifests \in Seq(Manifest)
    BY BackupAssumption DEF Init, BackupInit
  <2>. QED  BY <2>1, <2>2 DEF BackupKept, Init, BackupInit
<1>2. UploadTypeOK /\ BackupKept /\ [Next]_vars => BackupKept'
  <2>. SUFFICES ASSUME UploadTypeOK, BackupKept, [Next]_vars PROVE BackupKept'
    OBVIOUS
  <2>1. CASE BackupStep
    BY <2>1, ReplicateKept, TickKept DEF BackupStep
  <2>2. CASE UNCHANGED vars
    BY <2>2 DEF vars, backupVars, BackupKept
  <2>. QED  BY <2>1, <2>2, RequestKept DEF Next
<1>. QED  BY <1>1, <1>2, UploadTypes, PTL DEF Spec

(* Requests, rows, manifests and workers have their types: no lost update, *)
(* crash or outlasted lease leaves a worker with a manifest that does not  *)
(* exist or a manifest out of its states.                                  *)
THEOREM UploadAndBackupAreTyped == Spec => []TypeOK
<1>1. UploadTypeOK /\ BackupKept => TypeOK
  BY KeptIsTyped DEF TypeOK, UploadTypeOK
<1>. QED  BY <1>1, UploadTypes, BackupStaysKept, PTL
-----------------------------------------------------------------------------
(* A manifest that says VERIFIED tells the truth: the backup store holds   *)
(* the copy (replicateAndVerifyManifest), though workers crash, outlast    *)
(* their lease and write over each other's results.                        *)
VerifiedIsCopied ==
    \A i \in DOMAIN manifests : manifests[i].state = "VERIFIED" => manifests[i].object \in replicas

(* Only a worker that found the copy is about to write VERIFIED.           *)
Found(w) == worker[w].result = "VERIFIED" => At(w, "concluding") /\ Object(w) \in replicas

Copied == VerifiedIsCopied /\ \A w \in Workers : Found(w)

LEMMA CopiedStep ==
    ASSUME BackupKept, Copied, NEW w \in Workers, NEW mine, worker' = [worker EXCEPT ![w] = mine],
           replicas \subseteq replicas', DOMAIN manifests' = DOMAIN manifests,
           \A i \in DOMAIN manifests :
              /\ manifests'[i].object = manifests[i].object
              /\ manifests'[i].state = "VERIFIED" =>
                    manifests[i].state = "VERIFIED" \/ manifests[i].object \in replicas,
           mine.result = "VERIFIED" =>
              mine.phase = "concluding" /\ mine.id \in DOMAIN manifests /\ manifests[mine.id].object \in replicas
    PROVE  Copied'
<1>1. worker'[w] = mine /\ \A v \in Workers \ {w} : worker'[v] = worker[v]
  BY DEF BackupKept
<1>2. VerifiedIsCopied'
  BY DEF Copied, VerifiedIsCopied
<1>3. ASSUME NEW v \in Workers PROVE Found(v)'
  <2>1. CASE v = w
    BY <1>1, <2>1 DEF Found, At, Object, Held
  <2>2. CASE v # w
    <3>1. Found(v) /\ (At(v, "concluding") => worker[v].id \in DOMAIN manifests)
      BY DEF Copied, BackupKept, Idle, At
    <3>. QED  BY <1>1, <2>2, <3>1 DEF Found, At, Object, Held
  <2>. QED  BY <2>1, <2>2
<1>. QED  BY <1>2, <1>3 DEF Copied

(* The step of a worker that rewrites at most the manifest it names.       *)
LEMMA CopiedUpdate ==
    ASSUME BackupKept, Copied, NEW w \in Workers, NEW mine, worker' = [worker EXCEPT ![w] = mine],
           mine.result # "VERIFIED", UNCHANGED replicas,
           NEW i \in DOMAIN manifests, NEW m,
           m.object = manifests[i].object, m.state = "VERIFIED" => m.object \in replicas,
           manifests' = Updated(i, m) \/ manifests' = [manifests EXCEPT ![i] = m] \/ UNCHANGED manifests
    PROVE  Copied'
<1>1. manifests \in Seq(Manifest)
  BY DEF BackupKept
<1>2. manifests' = manifests \/ manifests' = [manifests EXCEPT ![i] = m]
  BY DEF Updated
<1>3. DOMAIN manifests' = DOMAIN manifests
      /\ \A j \in DOMAIN manifests : manifests'[j] = manifests[j] \/ (j = i /\ manifests'[j] = m)
  BY <1>1, <1>2
<1>. QED  BY <1>3, CopiedStep

LEMMA ReplicateCopied ==
    ASSUME BackupKept, Copied, NEW w \in Workers, Replicate(w) \/ Crash(w)
    PROVE  Copied'
<1>1. worker[w] \in WorkerRecords /\ Found(w) /\ (worker[w].phase # "idle" => worker[w].id \in DOMAIN manifests)
  BY DEF BackupKept, Copied, Idle
<1>2. Idle.result # "VERIFIED" /\ Failure(w) # "VERIFIED"
  BY DEF Idle, Failure
<1>3. CASE Claim(w)
  <2>1. PICK i \in DOMAIN manifests :
           /\ manifests' = [manifests EXCEPT ![i].state = "COPYING", ![i].age = 0]
           /\ worker' = [worker EXCEPT ![w] = [phase |-> "examining", id |-> i,
                            attempts |-> Another(manifests[i].attempts), result |-> "PENDING",
                            held |-> 0]]
    BY <1>3 DEF Claim
  <2>2. PICK m, mine : /\ m = [manifests[i] EXCEPT !.state = "COPYING", !.age = 0]
                       /\ mine = [phase |-> "examining", id |-> i, attempts |-> Another(manifests[i].attempts),
                                  result |-> "PENDING", held |-> 0]
    OBVIOUS
  <2>3. m.object = manifests[i].object /\ m.state = "COPYING" /\ mine.result = "PENDING"
    BY <2>2, ManifestTyped DEF Manifest
  <2>4. manifests' = [manifests EXCEPT ![i] = m] /\ worker' = [worker EXCEPT ![w] = mine]
    BY <2>1, <2>2
  <2>. QED  BY <1>3, <2>3, <2>4, CopiedUpdate DEF Claim
<1>4. ASSUME NEW phase, NEW result, Goes(w, phase) \/ Yields(w, phase, result), UNCHANGED manifests,
             replicas \subseteq replicas', worker[w].phase # "idle", worker[w].result # "VERIFIED",
             result = "VERIFIED" => phase = "concluding" /\ Object(w) \in replicas
      PROVE  Copied'
  <2>1. PICK mine : /\ mine = [worker[w] EXCEPT !.phase = phase] \/ mine = [worker[w] EXCEPT !.phase = phase, !.result = result]
                    /\ worker' = [worker EXCEPT ![w] = mine]
    BY <1>4 DEF Goes, Yields
  <2>2. mine.phase = phase /\ mine.id = worker[w].id /\ mine.result \in {worker[w].result, result}
    BY <1>1, <2>1 DEF WorkerRecords
  <2>. QED  BY <1>1, <1>4, <2>1, <2>2, CopiedStep DEF Object, Held
<1>5. CASE Examine(w) \/ Fetch(w) \/ Store(w) \/ Verify(w)
  <2>1. worker[w].result # "VERIFIED" /\ worker[w].phase # "idle"
    BY <1>1, <1>5 DEF Found, At, Examine, Fetch, Store, Verify
  <2>2. UNCHANGED manifests /\ replicas \subseteq replicas'
    BY <1>5 DEF Examine, Fetch, Store, Verify
  <2>3. \E phase, result : /\ Goes(w, phase) \/ Yields(w, phase, result)
                           /\ result = "VERIFIED" => phase = "concluding" /\ Object(w) \in replicas
    <3>1. CASE Verify(w)
      BY <3>1 DEF Verify
    <3>2. CASE Examine(w) \/ Fetch(w)
      BY <1>2, <3>2 DEF Examine, Fetch
    <3>3. CASE Store(w)
      BY <1>2, <3>3 DEF Store
    <3>. QED  BY <1>5, <3>1, <3>2, <3>3
  <2>. QED  BY <1>4, <2>1, <2>2, <2>3
<1>6. CASE LogResult(w)
  <2>1. PICK i, m : /\ i = worker[w].id
                    /\ m = [manifests[i] EXCEPT !.state = worker[w].result, !.attempts = worker[w].attempts,
                               !.age = IF worker[w].result = "VERIFYING" THEN worker[w].held ELSE 0]
    OBVIOUS
  <2>2. i \in DOMAIN manifests /\ worker[w].result # "VERIFIED"
    BY <1>1, <1>6, <2>1 DEF LogResult, At, Found
  <2>3. m.object = manifests[i].object /\ m.state = worker[w].result
    BY <2>1, <2>2, ManifestTyped DEF Manifest
  <2>4. manifests' = Updated(i, m) \/ UNCHANGED manifests
    BY <1>6, <2>1 DEF LogResult, Held
  <2>5. PICK mine : mine.result # "VERIFIED" /\ worker' = [worker EXCEPT ![w] = mine]
    <3>1. [Idle EXCEPT !.phase = "verifying", !.id = Held(w)].result # "VERIFIED"
      BY DEF Idle
    <3>. QED  BY <1>2, <1>6, <3>1 DEF LogResult, Finishes
  <2>. QED  BY <1>6, <2>2, <2>3, <2>4, <2>5, CopiedUpdate DEF LogResult
<1>7. CASE Conclude(w)
  <2>1. PICK i, m : i = worker[w].id /\ m = [manifests[i] EXCEPT !.state = worker[w].result, !.age = 0]
    OBVIOUS
  <2>2. i \in DOMAIN manifests
    BY <1>1, <1>7, <2>1 DEF Conclude, At
  <2>3. m.object = manifests[i].object /\ m.state = worker[w].result
    BY <2>1, <2>2, ManifestTyped DEF Manifest
  <2>4. m.state = "VERIFIED" => m.object \in replicas
    BY <1>1, <2>1, <2>3 DEF Found, Object, Held
  <2>5. manifests' = Updated(i, m) \/ UNCHANGED manifests
    BY <1>7, <2>1 DEF Conclude, Held
  <2>. QED  BY <1>2, <1>7, <2>2, <2>3, <2>4, <2>5, CopiedUpdate DEF Conclude, Finishes
<1>8. CASE Crash(w)
  BY <1>2, <1>8, CopiedStep DEF Crash, Finishes
<1>. QED  BY <1>3, <1>4, <1>5, <1>6, <1>7, <1>8 DEF Replicate

LEMMA TickCopied ==
    ASSUME BackupKept, Copied, Tick
    PROVE  Copied'
<1>1. ASSUME NEW i \in DOMAIN manifests
      PROVE  manifests'[i].object = manifests[i].object /\ manifests'[i].state = manifests[i].state
  BY ManifestTyped DEF Tick, Manifest
<1>2. ASSUME NEW w \in Workers
      PROVE  /\ worker'[w].phase = worker[w].phase /\ worker'[w].id = worker[w].id
             /\ worker'[w].result = worker[w].result /\ (worker[w].phase # "idle" => worker[w].id \in DOMAIN manifests)
  <2>1. worker[w] \in WorkerRecords
    BY DEF BackupKept
  <2>. QED  BY <2>1 DEF Tick, WorkerRecords, BackupKept, Idle
<1>3. UNCHANGED replicas /\ DOMAIN manifests' = DOMAIN manifests
  BY DEF Tick
<1>. QED  BY <1>1, <1>2, <1>3 DEF Copied, VerifiedIsCopied, Found, At, Object, Held

(* Requests and reconciliation only add manifests that are pending.        *)
LEMMA RequestCopied ==
    ASSUME BackupKept, Copied, NEW u \in Objects, Upload(u) \/ Dies(u) \/ Reconcile(u)
    PROVE  Copied'
<1>1. UNCHANGED <<replicas, worker>>
  BY DEF Upload, Dies, Reconcile, Check, Put, Insert, Compensate, Remove, Reread, LookUp, Add, LookAgain, Mark, Excuse
<1>2. PICK m : m.state = "PENDING" /\ (UNCHANGED manifests \/ manifests' = Append(manifests, m))
  <2>1. \A o : NewManifest(o).state = "PENDING"
    BY DEF NewManifest
  <2>2. \E o : UNCHANGED manifests \/ manifests' = Append(manifests, NewManifest(o))
    BY DEF Upload, Dies, Reconcile, Check, Put, Insert, Compensate, Remove, Reread, LookUp, Add, LookAgain, Mark, Excuse
  <2>. QED  BY <2>1, <2>2
<1>3. manifests \in Seq(Manifest)
  BY DEF BackupKept
<1>4. /\ \A i \in DOMAIN manifests : i \in DOMAIN manifests' /\ manifests'[i] = manifests[i]
      /\ \A i \in DOMAIN manifests' \ DOMAIN manifests : manifests'[i] = m
  BY <1>2, <1>3
<1>5. \A w \in Workers : worker[w].phase # "idle" => worker[w].id \in DOMAIN manifests
  BY DEF BackupKept, Idle
<1>. QED  BY <1>1, <1>2, <1>4, <1>5 DEF Copied, VerifiedIsCopied, Found, At, Object, Held

(* In every state uploads, workers, reconciliation and faults can reach,   *)
(* a manifest that says VERIFIED has its copy in the backup store.         *)
THEOREM VerifiedBackupsExist == Spec => []VerifiedIsCopied
<1>1. Init => Copied
  BY DEF Init, BackupInit, Idle, Copied, VerifiedIsCopied, Found
<1>2. BackupKept /\ Copied /\ [Next]_vars => Copied'
  <2>. SUFFICES ASSUME BackupKept, Copied, [Next]_vars PROVE Copied'
    OBVIOUS
  <2>1. CASE BackupStep
    BY <2>1, ReplicateCopied, TickCopied DEF BackupStep
  <2>2. CASE UNCHANGED vars
    BY <2>2 DEF vars, backupVars, Copied, VerifiedIsCopied, Found, At, Object, Held
  <2>. QED  BY <2>1, <2>2, RequestCopied DEF Next
<1>3. Copied => VerifiedIsCopied
  BY DEF Copied
<1>. QED  BY <1>1, <1>2, <1>3, BackupStaysKept, PTL DEF Spec
=============================================================================
