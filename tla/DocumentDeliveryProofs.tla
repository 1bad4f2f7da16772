----------------------- MODULE DocumentDeliveryProofs -----------------------
(***************************************************************************)
(* That a key is used for one call of the provider at most and that the    *)
(* delivery history is true, for any clients, keys, messages and orders,   *)
(* and whatever the sessions of the database do meanwhile.                 *)
(*                                                                         *)
(* What makes the first inductive is that a request about to call the      *)
(* provider is the only one for its key and finds nothing handed over yet  *)
(* (Claimed); the second, that a request about to complete carries an      *)
(* answer that is still true (Warranted).                                  *)
(***************************************************************************)
EXTENDS DocumentDelivery, TLAPS

Claimed ==
    \A c \in Clients :
        At(c, "sending") =>
            /\ intent[Key(c)].status # "NONE" /\ intent[Key(c)].message = Message(c)
            /\ handed[Key(c)] = <<>>
            /\ \A d \in Clients : At(d, "sending") /\ Key(d) = Key(c) => d = c

NothingEarly ==
    \A k \in DeliveryKeys :
        /\ intent[k].status = "NONE" => handed[k] = <<>>
        /\ handed[k] = <<>> => outbox[k] = "NONE"

Warranted ==
    \A c \in Clients :
        At(c, "completing") /\ request[c].result # "UNKNOWN" =>
            outbox[Key(c)] \in After(request[c].result)

(* A request that is under way has a key, a message as long as it may      *)
(* still send one, and no answer while it asks for one.                    *)
Bound ==
    \A c \in Clients :
        /\ ~At(c, "idle") => Key(c) \in DeliveryKeys
        /\ At(c, "preparing") \/ At(c, "claiming") \/ At(c, "sending") => Message(c) \in Messages
        /\ At(c, "looking") => request[c].result = "UNKNOWN"

TypeInv == DeliveryTypeOK /\ Bound
CallInv == Claimed /\ NothingEarly /\ OneCallPerKey
HistoryInv == Warranted /\ HistoryIsTrue

-----------------------------------------------------------------------------
(* Types.                                                                  *)

(* What a request may become.                                              *)
Sound(r) ==
    /\ r \in Requests
    /\ r.phase # "idle" => r.key \in DeliveryKeys
    /\ r.phase \in {"preparing", "claiming", "sending"} => r.message \in Messages
    /\ r.phase = "looking" => r.result = "UNKNOWN"

LEMMA RequestsAreSound ==
    ASSUME TypeInv, NEW c \in Clients PROVE Sound(request[c])
  BY DEF TypeInv, DeliveryTypeOK, Bound, Sound, At, Key, Message

LEMMA SoundStep ==
    ASSUME TypeInv, NEW c \in Clients, NEW r, Sound(r), request' = [request EXCEPT ![c] = r]
    PROVE  request' \in [Clients -> Requests] /\ Bound'
<1>1. request' \in [Clients -> Requests]
  BY DEF TypeInv, DeliveryTypeOK, Sound
<1>2. ASSUME NEW d \in Clients PROVE Sound(request'[d])
  BY RequestsAreSound DEF TypeInv, DeliveryTypeOK, Sound
<1> QED
  BY <1>1, <1>2 DEF Bound, Sound, At, Key, Message

LEMMA SoundMoves ==
    ASSUME TypeInv, NEW c \in Clients,
           NEW phase \in {"claiming", "sending", "completing"},
           phase = "completing" \/ request[c].phase \in {"preparing", "claiming"},
           ~At(c, "idle"), NEW result \in Fates \cup {"UNKNOWN"}
    PROVE  /\ Sound([request[c] EXCEPT !.phase = phase])
           /\ Sound([request[c] EXCEPT !.phase = phase, !.result = result])
<1>1. Sound(request[c])
  BY RequestsAreSound
<1> QED
  BY <1>1 DEF Sound, At, Requests

LEMMA Ending == Sound(NoRequest)
  BY DEF Sound, NoRequest, Requests

LEMMA Leaving ==
    ASSUME TypeInv, NEW c \in Clients, Leave(c)
    PROVE  request' \in [Clients -> Requests] /\ Bound'
  BY Ending, SoundStep DEF Leave

LEMMA Moving ==
    ASSUME TypeInv, NEW c \in Clients,
           NEW phase \in {"claiming", "sending", "completing"}, ~At(c, "idle"),
           phase = "completing" \/ request[c].phase \in {"preparing", "claiming"},
           NEW result \in Fates \cup {"UNKNOWN"},
           \/ To(c, phase)
           \/ request' = [request EXCEPT ![c].phase = phase, ![c].result = result]
    PROVE  request' \in [Clients -> Requests] /\ Bound'
<1> DEFINE moved == [request[c] EXCEPT !.phase = phase]
           answered == [request[c] EXCEPT !.phase = phase, !.result = result]
<1>1. Sound(moved) /\ Sound(answered)
  BY SoundMoves
<1>2. \/ request' = [request EXCEPT ![c] = moved]
      \/ request' = [request EXCEPT ![c] = answered]
  BY DEF To, TypeInv, DeliveryTypeOK
<1> QED
  BY <1>1, <1>2, SoundStep

(* The steps of a request, one by one.                                     *)
LEMMA RequestTypes ==
    ASSUME TypeInv, NEW c \in Clients,
           \/ Serve(c) \/ Lose(c)
           \/ \E k \in DeliveryKeys : CheckStatus(c, k) \/ \E m \in Messages : Post(c, k, m)
    PROVE  TypeInv'
<1> USE DEF TypeInv
<1>1. CASE Prepare(c)
  BY <1>1, Leaving, Moving DEF Prepare, DeliveryTypeOK, At
<1>2. CASE Claim(c)
  <2>1. request' \in [Clients -> Requests] /\ Bound'
    BY <1>2, Moving DEF Claim, At
  <2>2. Message(c) \in Messages /\ User[c] \in {User[d] : d \in Clients}
    BY <1>2 DEF Claim, Bound
  <2>3. [status |-> "PENDING", message |-> Message(c), sender |-> User[c],
         reference |-> Channel[Message(c)] = "GATEWAY"] \in Intents
    BY <2>2 DEF Intents, Statuses
  <2>4. intent' \in [DeliveryKeys -> Intents]
    BY <1>2, <2>3 DEF Claim, DeliveryTypeOK
  <2> QED
    BY <1>2, <2>1, <2>4 DEF Claim, DeliveryTypeOK
<1>3. CASE NotClaimed(c)
  BY <1>3, Leaving DEF NotClaimed, DeliveryTypeOK
<1>4. CASE Call(c)
  <2>1. PICK now \in Fates \cup {"TRAVELLING", "REJECTED"}, result \in Fates \cup {"UNKNOWN"} :
           /\ outbox' = [outbox EXCEPT ![Key(c)] = now]
           /\ request' = [request EXCEPT ![c].phase = "completing", ![c].result = result]
    BY <1>4 DEF Call
  <2>2. request' \in [Clients -> Requests] /\ Bound'
    BY <1>4, <2>1, Moving DEF Call, At
  <2>3. Key(c) \in DeliveryKeys /\ Message(c) \in Messages
    BY <1>4 DEF Call, Bound, At
  <2>4. outbox' \in [DeliveryKeys -> Fates \cup {"NONE", "TRAVELLING", "REJECTED"}]
    BY <2>1, <2>3 DEF DeliveryTypeOK
  <2>5. handed' \in [DeliveryKeys -> Seq(Messages)]
    BY <1>4, <2>3 DEF Call, DeliveryTypeOK
  <2> QED
    BY <1>4, <2>2, <2>4, <2>5 DEF Call, DeliveryTypeOK
<1>5. CASE Complete(c)
  <2> DEFINE k == Key(c)
             status == request[c].result
             known == intent[k].reference \/ {status, outbox[k]} \subseteq Fates
             added == IF Audited(k, status) THEN {status} ELSE {}
             completed == [intent[k] EXCEPT !.status = status, !.reference = known]
  <2>1. k \in DeliveryKeys /\ status \in Fates \cup {"UNKNOWN"} /\ known \in BOOLEAN
    BY <1>5, RequestsAreSound DEF Complete, Sound, At, Key, Requests, DeliveryTypeOK, Intents
  <2>2. Audited(k, status) => status \in Fates
    BY <2>1 DEF Audited
  <2>3. completed \in Intents
    BY <2>1 DEF DeliveryTypeOK, Intents, Statuses
  <2>4. [intent EXCEPT ![k].status = status, ![k].reference = known]
           = [intent EXCEPT ![k] = completed]
    BY <2>1 DEF DeliveryTypeOK
  <2>5. \/ UNCHANGED <<intent, audits>>
        \/ /\ intent' = [intent EXCEPT ![k] = completed]
           /\ audits' = [audits EXCEPT ![k] = @ \cup added]
    BY <1>5, <2>4 DEF Complete
  <2>6. intent' \in [DeliveryKeys -> Intents]
    <3> HIDE DEF completed, k, status
    <3> QED
      BY <2>3, <2>5 DEF DeliveryTypeOK
  <2>7. audits' \in [DeliveryKeys -> SUBSET Fates]
    <3>1. added \subseteq Fates
      BY <2>2
    <3> HIDE DEF completed, added, k, status
    <3> QED
      BY <2>1, <2>5, <3>1 DEF DeliveryTypeOK
  <2> QED
    BY <1>5, <2>6, <2>7, Leaving DEF Complete, DeliveryTypeOK
<1>6. CASE LookUpFails(c)
  BY <1>6, Moving DEF LookUpFails, DeliveryTypeOK, At
<1>7. CASE \E k \in DeliveryKeys : LookUp(c, k)
  <2>1. PICK k \in DeliveryKeys : LookUp(c, k)
    BY <1>7
  <2>2. Seen(k) \in Fates \cup {"UNKNOWN"}
    BY DEF Seen
  <2> QED
    BY <2>1, <2>2, Moving DEF LookUp, DeliveryTypeOK, At
<1>8. CASE Lose(c)
  BY <1>8, Leaving, DeliveryAssumption DEF Lose, DeliveryTypeOK
<1>9. CASE \E k \in DeliveryKeys : CheckStatus(c, k)
  <2>1. PICK k \in DeliveryKeys : CheckStatus(c, k)
    BY <1>9
  <2>2. intent[k].message \in Messages \cup {None}
    BY DEF DeliveryTypeOK, Intents
  <2>3. Sound([phase |-> "looking", key |-> k, message |-> intent[k].message, result |-> "UNKNOWN"])
    BY <2>2 DEF Sound, Requests
  <2> QED
    BY <2>1, <2>3, SoundStep DEF CheckStatus, DeliveryTypeOK
<1>10. CASE \E k \in DeliveryKeys, m \in Messages : Post(c, k, m)
  <2>1. PICK k \in DeliveryKeys, m \in Messages : Post(c, k, m)
    BY <1>10
  <2>2. Sound([phase |-> IF Sms(m) THEN "claiming" ELSE "preparing",
               key |-> k, message |-> m, result |-> "UNKNOWN"])
    BY DEF Sound, Requests
  <2>3. request' \in [Clients -> Requests] /\ Bound'
    BY <2>1, <2>2, SoundStep DEF Post
  <2>4. posts' \in 0..MaxPosts
    BY <2>1, DeliveryAssumption DEF Post, DeliveryTypeOK
  <2> QED
    BY <2>1, <2>3, <2>4 DEF Post, DeliveryTypeOK
<1> QED
  BY <1>1, <1>2, <1>3, <1>4, <1>5, <1>6, <1>7, <1>8, <1>9, <1>10 DEF Serve

LEMMA TypesKept == TypeInv /\ [DeliveryNext]_deliveryVars => TypeInv'
<1> SUFFICES ASSUME TypeInv, [DeliveryNext]_deliveryVars PROVE TypeInv'
  OBVIOUS
<1>1. CASE \E k \in DeliveryKeys : Advance(k)
  BY <1>1 DEF Advance, Becomes, Fates, TypeInv, DeliveryTypeOK, Bound, At, Key, Message
<1>2. CASE UNCHANGED delivery
  BY <1>2 DEF delivery, TypeInv, DeliveryTypeOK, Bound, At, Key, Message
<1> QED
  BY <1>1, <1>2, RequestTypes DEF DeliveryNext, deliveryVars

LEMMA TypesAtFirst == DeliveryInit => TypeInv
  BY DeliveryAssumption DEF DeliveryInit, TypeInv, DeliveryTypeOK, Bound, At, NoRequest, NoIntent,
     Requests, Intents, Statuses

(* The state of requests, history and providers has its types, for every   *)
(* run of messagingRouter.ts's endpoints.                                  *)
THEOREM DeliveryTypesAreKept == DeliverySpec => []DeliveryTypeOK
<1>1. TypeInv => DeliveryTypeOK
  BY DEF TypeInv
<1> QED
  BY <1>1, TypesAtFirst, TypesKept, PTL DEF DeliverySpec
-----------------------------------------------------------------------------
(* The steps that change neither history nor provider, and let no request  *)
(* come to a call or to an answer that does not stand.                     *)
Quiet ==
    /\ UNCHANGED <<intent, audits, handed, outbox>>
    /\ \A d \in Clients :
          \/ request'[d] = request[d]
          \/ /\ request'[d].phase # "sending"
             /\ \/ request'[d].phase # "completing"
                \/ request'[d].result = "UNKNOWN"
                \/ outbox[request'[d].key] \in After(request'[d].result)

LEMMA QuietSteps ==
    ASSUME TypeInv, NEW c \in Clients,
           \/ Prepare(c) \/ NotClaimed(c) \/ LookUpFails(c) \/ Lose(c)
           \/ \E k \in DeliveryKeys :
                 LookUp(c, k) \/ CheckStatus(c, k) \/ \E m \in Messages : Post(c, k, m)
    PROVE  Quiet
<1>0. request \in [Clients -> Requests]
  BY DEF TypeInv, DeliveryTypeOK
<1> USE DEF At, To, Leave, Key, NoRequest
<1>1. CASE Prepare(c) \/ NotClaimed(c) \/ Lose(c)
  <2>1. UNCHANGED <<intent, audits, handed, outbox>>
    BY <1>1 DEF Prepare, NotClaimed, Lose
  <2>2. request' = [request EXCEPT ![c] = NoRequest]
        \/ request' = [request EXCEPT ![c].phase = "claiming"]
    BY <1>1 DEF Prepare, NotClaimed, Lose
  <2>3. \A d \in Clients : request'[d] = request[d] \/ request'[d].phase \in {"idle", "claiming"}
    BY <1>0, <2>2 DEF Requests
  <2> QED
    BY <2>1, <2>3 DEF Quiet
<1>2. CASE LookUpFails(c)
  BY <1>0, <1>2 DEF LookUpFails, Quiet, TypeInv, Bound
<1>3. CASE \E k \in DeliveryKeys : LookUp(c, k)
  <2>1. PICK k \in DeliveryKeys : LookUp(c, k)
    BY <1>3
  <2>2. Seen(k) = "UNKNOWN" \/ outbox[k] \in After(Seen(k))
    BY DEF Seen, After, Fates
  <2>3. /\ request'[c].phase = "completing" /\ request'[c].key = k /\ request'[c].result = Seen(k)
        /\ \A d \in Clients : d # c => request'[d] = request[d]
    BY <1>0, <2>1 DEF LookUp, Requests
  <2>4. UNCHANGED <<intent, audits, handed, outbox>>
    BY <2>1 DEF LookUp
  <2> QED
    BY <2>2, <2>3, <2>4 DEF Quiet
<1>4. CASE \E k \in DeliveryKeys : CheckStatus(c, k) \/ \E m \in Messages : Post(c, k, m)
  BY <1>0, <1>4 DEF CheckStatus, Post, Quiet
<1> QED
  BY <1>1, <1>2, <1>3, <1>4
(* What a completion may do to the history.                                *)
LEMMA Completing ==
    ASSUME TypeInv, NEW c \in Clients, Complete(c)
    PROVE  \A j \in DeliveryKeys :
              /\ intent'[j].message = intent[j].message
              /\ \/ intent'[j].status = intent[j].status
                 \/ j = Key(c) /\ intent'[j].status = request[c].result
              /\ \/ audits'[j] = audits[j]
                 \/ /\ j = Key(c)
                    /\ audits'[j] \subseteq audits[j] \cup ({request[c].result} \cap Fates)
<1> DEFINE k == Key(c)
           status == request[c].result
           known == intent[k].reference \/ {status, outbox[k]} \subseteq Fates
           added == IF Audited(k, status) THEN {status} ELSE {}
           completed == [intent[k] EXCEPT !.status = status, !.reference = known]
<1>1. /\ intent \in [DeliveryKeys -> Intents] /\ DOMAIN audits = DeliveryKeys
      /\ k \in DeliveryKeys /\ status \in Fates \cup {"UNKNOWN"}
  BY RequestsAreSound DEF Complete, TypeInv, DeliveryTypeOK, Sound, At, Key, Requests
<1>2. [intent EXCEPT ![k].status = status, ![k].reference = known]
         = [intent EXCEPT ![k] = completed]
  BY <1>1
<1>3. \/ UNCHANGED <<intent, audits>>
      \/ /\ intent' = [intent EXCEPT ![k] = completed]
         /\ audits' = [audits EXCEPT ![k] = @ \cup added]
  BY <1>2 DEF Complete
<1>4. completed.message = intent[k].message /\ completed.status = status
  BY <1>1 DEF Intents
<1>5. added \subseteq {status} \cap Fates
  BY <1>1 DEF Audited
<1> HIDE DEF k, status, added, completed
<1>6. \A j \in DeliveryKeys :
         /\ intent'[j] = intent[j] \/ (j = k /\ intent'[j] = completed)
         /\ audits'[j] = audits[j] \/ (j = k /\ audits'[j] = audits[j] \cup added)
  BY <1>1, <1>3
<1> QED
  BY <1>4, <1>5, <1>6 DEF k, status
-----------------------------------------------------------------------------
(* One call for each key.                                                  *)

LEMMA CallsAtFirst == DeliveryInit => CallInv
  BY DEF DeliveryInit, CallInv, Claimed, NothingEarly, OneCallPerKey, At, NoRequest, NoIntent

LEMMA QuietCalls ==
    ASSUME TypeInv, CallInv, Quiet PROVE CallInv'
  BY DEF CallInv, Claimed, NothingEarly, OneCallPerKey, Quiet, At, Key, Message

LEMMA CallsKept ==
    ASSUME TypeInv, CallInv, [DeliveryNext]_deliveryVars PROVE CallInv'
<1>0. /\ request \in [Clients -> Requests] /\ intent \in [DeliveryKeys -> Intents]
      /\ handed \in [DeliveryKeys -> Seq(Messages)] /\ DOMAIN outbox = DeliveryKeys
  BY DEF TypeInv, DeliveryTypeOK
<1>1. ASSUME NEW c \in Clients, Claim(c) PROVE CallInv'
  <2>1. Key(c) \in DeliveryKeys /\ intent[Key(c)].status = "NONE"
    BY <1>1 DEF Claim, Unclaimed, TypeInv, Bound, At
  <2>2. /\ intent'[Key(c)].status = "PENDING" /\ intent'[Key(c)].message = Message(c)
        /\ \A k \in DeliveryKeys : k # Key(c) => intent'[k] = intent[k]
    BY <1>0, <1>1, <2>1 DEF Claim
  <2>3. /\ request'[c].phase = "sending" /\ request'[c].key = Key(c)
        /\ request'[c].message = Message(c)
        /\ \A d \in Clients : d # c => request'[d] = request[d]
    BY <1>0, <1>1 DEF Claim, To, Key, Message
  <2>4. handed[Key(c)] = <<>> /\ UNCHANGED <<handed, outbox>>
    BY <1>1, <2>1 DEF Claim, CallInv, NothingEarly
  <2>5. \A d \in Clients : At(d, "sending") => Key(d) # Key(c)
    BY <2>1 DEF CallInv, Claimed
  <2>6. \A d \in Clients : At(d, "sending") => Key(d) \in DeliveryKeys
    BY DEF TypeInv, Bound, At
  <2>7. Claimed'
    BY <2>2, <2>3, <2>4, <2>5, <2>6 DEF CallInv, Claimed, At, Key, Message
  <2>8. NothingEarly' /\ OneCallPerKey'
    BY <2>1, <2>2, <2>4 DEF CallInv, NothingEarly, OneCallPerKey
  <2> QED
    BY <2>7, <2>8 DEF CallInv
<1>2. ASSUME NEW c \in Clients, Call(c) PROVE CallInv'
  <2>1. /\ Key(c) \in DeliveryKeys /\ handed[Key(c)] = <<>>
        /\ intent[Key(c)].status # "NONE" /\ intent[Key(c)].message = Message(c)
    BY <1>2 DEF Call, TypeInv, Bound, CallInv, Claimed, At
  <2>2. /\ handed'[Key(c)] = <<Message(c)>> /\ handed'[Key(c)] # <<>> /\ UNCHANGED intent
        /\ \A k \in DeliveryKeys : k # Key(c) => handed'[k] = handed[k] /\ outbox'[k] = outbox[k]
    BY <1>0, <1>2, <2>1 DEF Call
  <2>3. /\ request'[c].phase = "completing"
        /\ \A d \in Clients : d # c => request'[d] = request[d]
    BY <1>0, <1>2 DEF Call
  <2>4. \A d \in Clients : At(d, "sending") /\ d # c => Key(d) # Key(c) /\ Key(d) \in DeliveryKeys
    BY <1>2 DEF Call, CallInv, Claimed, TypeInv, Bound, At
  <2>5. Claimed'
    BY <2>2, <2>3, <2>4 DEF CallInv, Claimed, At, Key, Message
  <2>6. NothingEarly' /\ OneCallPerKey'
    BY <2>1, <2>2 DEF CallInv, NothingEarly, OneCallPerKey
  <2> QED
    BY <2>5, <2>6 DEF CallInv
<1>3. ASSUME NEW c \in Clients, Complete(c) PROVE CallInv'
  <2>1. request[c].result \in Fates \cup {"UNKNOWN"}
    BY <1>0 DEF Requests
  <2>2. \A k \in DeliveryKeys :
           /\ intent'[k].message = intent[k].message
           /\ intent'[k].status = intent[k].status \/ (intent'[k].status # "NONE" /\ k = Key(c))
    BY <1>3, <2>1, Completing DEF Fates
  <2>3. \A d \in Clients : request'[d] = request[d] \/ request'[d].phase = "idle"
    BY <1>0, <1>3 DEF Complete, Leave, NoRequest
  <2>4. UNCHANGED <<handed, outbox>>
    BY <1>3 DEF Complete
  <2>5. \A k \in DeliveryKeys : intent'[k].status = "NONE" => intent[k].status = "NONE"
    BY <2>2
  <2>6. \A d \in Clients : At(d, "sending") => Key(d) \in DeliveryKeys
    BY DEF TypeInv, Bound, At
  <2>7. \A k \in DeliveryKeys : intent[k].status # "NONE" => intent'[k].status # "NONE"
    BY <2>2
  <2>8. Claimed'
    BY <2>2, <2>3, <2>4, <2>6, <2>7 DEF CallInv, Claimed, At, Key, Message
  <2> QED
    BY <2>2, <2>4, <2>5, <2>8 DEF CallInv, NothingEarly, OneCallPerKey
<1>4. ASSUME NEW k \in DeliveryKeys, Advance(k) PROVE CallInv'
  <2>1. outbox[k] # "NONE" /\ \A j \in DeliveryKeys : outbox'[j] = outbox[j] \/ j = k
    BY <1>0, <1>4 DEF Advance, Becomes
  <2>2. UNCHANGED <<request, intent, handed>>
    BY <1>4 DEF Advance
  <2> QED
    BY <2>1, <2>2 DEF CallInv, Claimed, NothingEarly, OneCallPerKey, At, Key, Message
<1>5. CASE UNCHANGED delivery
  BY <1>5 DEF delivery, CallInv, Claimed, NothingEarly, OneCallPerKey, At, Key, Message
<1>6. CASE Quiet
  BY <1>6, QuietCalls
<1> QED
  BY <1>1, <1>2, <1>3, <1>4, <1>5, <1>6, QuietSteps DEF DeliveryNext, Serve, deliveryVars

(* However messagingRouter.ts's requests and the claiming and completing   *)
(* functions of the database interleave, and whichever requests die, no    *)
(* key is used for a second call of a provider.                            *)
THEOREM KeysAreCalledOnce == DeliverySpec => []OneCallPerKey
<1>1. DeliveryInit => TypeInv /\ CallInv
  BY TypesAtFirst, CallsAtFirst
<1>2. TypeInv /\ CallInv /\ [DeliveryNext]_deliveryVars => (TypeInv /\ CallInv)'
  BY TypesKept, CallsKept
<1>3. CallInv => OneCallPerKey
  BY DEF CallInv
<1> QED
  BY <1>1, <1>2, <1>3, PTL DEF DeliverySpec
-----------------------------------------------------------------------------
(* The history is true.                                                    *)

LEMMA HistoryAtFirst == DeliveryInit => HistoryInv
  BY DEF DeliveryInit, HistoryInv, Warranted, HistoryIsTrue, At, NoRequest, NoIntent, Fates

LEMMA QuietHistory ==
    ASSUME HistoryInv, Quiet PROVE HistoryInv'
  BY DEF HistoryInv, Warranted, HistoryIsTrue, Quiet, At, Key

(* No status is said of a message that was not handed over, and what was   *)
(* true once stays so while the provider goes on.                          *)
LEMMA Standing ==
    ASSUME NEW s \in Fates, NEW now \in After(s)
    PROVE  now \notin {"NONE", "TRAVELLING"} /\ \A next \in Becomes(now) : next \in After(s)
  BY DEF After, Fates, Becomes

LEMMA HistoryKept ==
    ASSUME TypeInv, CallInv, HistoryInv, [DeliveryNext]_deliveryVars PROVE HistoryInv'
<1>0. /\ request \in [Clients -> Requests] /\ intent \in [DeliveryKeys -> Intents]
      /\ audits \in [DeliveryKeys -> SUBSET Fates] /\ DOMAIN outbox = DeliveryKeys
  BY DEF TypeInv, DeliveryTypeOK
<1>1. \A c \in Clients : ~At(c, "idle") => Key(c) \in DeliveryKeys
  BY DEF TypeInv, Bound
<1>2. \A c \in Clients : request[c].result \in Fates \cup {"UNKNOWN"}
  BY <1>0 DEF Requests
<1>3. ASSUME NEW c \in Clients, Claim(c) PROVE HistoryInv'
  <2>1. /\ UNCHANGED <<audits, outbox>>
        /\ \A k \in DeliveryKeys : intent'[k] = intent[k] \/ intent'[k].status = "PENDING"
    BY <1>0, <1>3 DEF Claim
  <2>2. \A d \in Clients : request'[d] = request[d] \/ request'[d].phase = "sending"
    BY <1>0, <1>3 DEF Claim, To
  <2>3. "PENDING" \notin Fates
    BY DEF Fates
  <2> QED
    BY <2>1, <2>2, <2>3 DEF HistoryInv, Warranted, HistoryIsTrue, At, Key
<1>4. ASSUME NEW c \in Clients, Call(c) PROVE HistoryInv'
  <2>1. Key(c) \in DeliveryKeys /\ handed[Key(c)] = <<>>
    BY <1>1, <1>4 DEF Call, CallInv, Claimed, At
  <2>2. outbox[Key(c)] = "NONE"
    BY <2>1 DEF CallInv, NothingEarly
  <2>3. \A s \in Fates : "NONE" \notin After(s)
    BY Standing
  <2>4. PICK now \in Fates \cup {"TRAVELLING", "REJECTED"}, result \in Fates \cup {"UNKNOWN"} :
           /\ \/ result = now
              \/ now = "REJECTED" /\ result = "FAILED"
              \/ result = "UNKNOWN"
           /\ outbox' = [outbox EXCEPT ![Key(c)] = now]
           /\ request' = [request EXCEPT ![c].phase = "completing", ![c].result = result]
    BY <1>4 DEF Call
  <2>5. /\ outbox'[Key(c)] = now
        /\ \A k \in DeliveryKeys : k # Key(c) => outbox'[k] = outbox[k]
    BY <1>0, <2>1, <2>4
  <2>6. /\ request'[c].key = Key(c) /\ request'[c].result = result
        /\ \A d \in Clients : d # c => request'[d] = request[d]
    BY <1>0, <2>4 DEF Key
  <2>7. result # "UNKNOWN" => now \in After(result)
    BY <2>4 DEF After, Fates
  <2>8. \A d \in Clients : At(d, "completing") /\ Key(d) = Key(c) => request[d].result = "UNKNOWN"
    BY <1>2, <2>2, <2>3 DEF HistoryInv, Warranted
  <2>9. Warranted'
    BY <1>1, <2>5, <2>6, <2>7, <2>8 DEF HistoryInv, Warranted, At, Key
  <2>10. UNCHANGED <<intent, audits>>
    BY <1>4 DEF Call
  <2>11. audits[Key(c)] \cup ({intent[Key(c)].status} \cap Fates) = {}
    BY <1>0, <2>1, <2>2, <2>3 DEF HistoryInv, HistoryIsTrue
  <2>12. HistoryIsTrue'
    BY <2>5, <2>10, <2>11 DEF HistoryInv, HistoryIsTrue
  <2> QED
    BY <2>9, <2>12 DEF HistoryInv
<1>5. ASSUME NEW c \in Clients, Complete(c) PROVE HistoryInv'
  <2> DEFINE k == Key(c)
             status == request[c].result
  <2>1. k \in DeliveryKeys /\ UNCHANGED outbox
    BY <1>1, <1>5 DEF Complete, At
  <2>2. status # "UNKNOWN" => outbox[k] \in After(status)
    BY <1>5 DEF Complete, HistoryInv, Warranted
  <2>3. \A j \in DeliveryKeys :
           /\ intent'[j].status = intent[j].status \/ (j = k /\ intent'[j].status = status)
           /\ audits'[j] = audits[j] \/ (j = k /\ audits'[j] \subseteq audits[j] \cup ({status} \cap Fates))
    BY <1>5, Completing
  <2>4. "UNKNOWN" \notin Fates
    BY DEF Fates
  <2>5. HistoryIsTrue'
    <3> HIDE DEF k, status
    <3> QED
      BY <2>1, <2>2, <2>3, <2>4 DEF HistoryInv, HistoryIsTrue
  <2>6. \A d \in Clients : request'[d] = request[d] \/ request'[d].phase = "idle"
    BY <1>0, <1>5 DEF Complete, Leave, NoRequest
  <2> QED
    BY <2>1, <2>5, <2>6 DEF HistoryInv, Warranted, At, Key
<1>6. ASSUME NEW k \in DeliveryKeys, Advance(k) PROVE HistoryInv'
  <2>1. UNCHANGED <<request, intent, audits>>
    BY <1>6 DEF Advance
  <2>2. \A j \in DeliveryKeys : outbox'[j] = outbox[j] \/ outbox'[j] \in Becomes(outbox[j])
    BY <1>0, <1>6 DEF Advance
  <2>3. \A j \in DeliveryKeys, s \in Fates : outbox[j] \in After(s) => outbox'[j] \in After(s)
    BY <2>2, Standing
  <2> QED
    BY <1>0, <1>1, <1>2, <2>1, <2>3 DEF HistoryInv, Warranted, HistoryIsTrue, At, Key
<1>7. CASE UNCHANGED delivery
  BY <1>7 DEF delivery, HistoryInv, Warranted, HistoryIsTrue, At, Key
<1>8. CASE Quiet
  BY <1>8, QuietHistory
<1> QED
  BY <1>3, <1>4, <1>5, <1>6, <1>7, <1>8, QuietSteps DEF DeliveryNext, Serve, deliveryVars

(* What the delivery history and its audits say of a message is what the   *)
(* provider reported and still stands: the completing functions and the    *)
(* status checks never make a message failed that was or will be sent.     *)
THEOREM HistoryTellsTheTruth == DeliverySpec => []HistoryIsTrue
<1>1. DeliveryInit => TypeInv /\ CallInv /\ HistoryInv
  BY TypesAtFirst, CallsAtFirst, HistoryAtFirst
<1>2. TypeInv /\ CallInv /\ HistoryInv /\ [DeliveryNext]_deliveryVars
          => (TypeInv /\ CallInv /\ HistoryInv)'
  BY TypesKept, CallsKept, HistoryKept
<1>3. HistoryInv => HistoryIsTrue
  BY DEF HistoryInv
<1> QED
  BY <1>1, <1>2, <1>3, PTL DEF DeliverySpec
=============================================================================
