-------------------------- MODULE DocumentDelivery --------------------------
(***************************************************************************)
(* Sending text messages and e-mails through a provider: the endpoints of  *)
(* messagingRouter.ts, the functions and triggers of                       *)
(* src/supabase/migrations that keep the delivery history, and the         *)
(* providers as their adapters see them.                                   *)
(*                                                                         *)
(* A request claims its idempotency key by inserting an intent, calls the  *)
(* provider and completes the intent with the answer, each an await of its *)
(* own.  Any of them may be the last that happens, and a call that times   *)
(* out may still reach the provider later.  An e-mail may carry a purchase *)
(* order, which the sessions of CompanyDatabase may withdraw at any time.  *)
(***************************************************************************)
EXTENDS CompanyDatabase

CONSTANTS
    Clients,    \* requests that can be in flight at once
    User,       \* who sends each
    DeliveryKeys, \* idempotency keys, made by the composing panels
    Messages,
    Channel,    \* provider of each message: "GATEWAY", "PHILSMS" or "BREVO"
    Attached,   \* the order an e-mail carries, or None
    MaxPosts,   \* bound on the requests to send
    MaxLosses   \* bound on the requests that die

(* What becomes of a message that a provider has taken.                    *)
Fates == {"ACCEPTED", "SENT", "DELIVERED", "FAILED", "CANCELLED"}
Final == {"DELIVERED", "FAILED", "CANCELLED"}
Statuses == Fates \cup {"PENDING", "UNKNOWN"}

ASSUME DeliveryAssumption ==
    /\ None \notin DeliveryKeys \cup Messages
    /\ Channel \in [Messages -> {"GATEWAY", "PHILSMS", "BREVO"}]
    /\ Attached \in [Messages -> Orders \cup {None}]
    /\ \A m \in Messages : Attached[m] # None => Channel[m] = "BREVO"
    /\ {MaxPosts, MaxLosses} \subseteq Nat

VARIABLES
    request,    \* the request each client has in flight
    intent,     \* document_send_intents by idempotency key
    audits,     \* statuses of document_send_audits for each intent
    handed,     \* messages handed to the provider under each key
    outbox,     \* where the provider has the message of each key
    posts, losses

delivery == <<request, intent, audits, handed, outbox, posts, losses>>
deliveryVars == <<vars, delivery>>

Requests == [phase : {"idle", "preparing", "claiming", "sending", "looking", "completing"},
             key : DeliveryKeys \cup {None}, message : Messages \cup {None},
             result : Fates \cup {"UNKNOWN"}]
Intents == [status : Statuses \cup {"NONE"}, message : Messages \cup {None},
            sender : {User[c] : c \in Clients} \cup {None}, reference : BOOLEAN]
NoRequest == [phase |-> "idle", key |-> None, message |-> None, result |-> "UNKNOWN"]
NoIntent == [status |-> "NONE", message |-> None, sender |-> None, reference |-> FALSE]

DeliveryInit ==
    /\ Init
    /\ request = [c \in Clients |-> NoRequest]
    /\ intent = [k \in DeliveryKeys |-> NoIntent]
    /\ audits = [k \in DeliveryKeys |-> {}]
    /\ handed = [k \in DeliveryKeys |-> <<>>]
    /\ outbox = [k \in DeliveryKeys |-> "NONE"]
    /\ posts = 0 /\ losses = 0
-----------------------------------------------------------------------------
Key(c) == request[c].key
Message(c) == request[c].message
At(c, phase) == request[c].phase = phase
To(c, phase) == request' = [request EXCEPT ![c].phase = phase]
Leave(c) == request' = [request EXCEPT ![c] = NoRequest]
Sms(m) == Channel[m] # "BREVO"

(* Only orders that are issued or closed are delivered.                    *)
Released(m) == Attached[m] # None => order[Attached[m]].status \in {"ISSUED", "CLOSED"}

(* POST /messaging/sms/send and /messaging/email/send.                     *)
Post(c, k, m) ==
    /\ At(c, "idle") /\ posts < MaxPosts
    /\ request' = [request EXCEPT ![c] =
                      [phase |-> IF Sms(m) THEN "claiming" ELSE "preparing",
                       key |-> k, message |-> m, result |-> "UNKNOWN"]]
    /\ posts' = posts + 1
    /\ UNCHANGED <<vars, intent, audits, handed, outbox, losses>>

(* An e-mail looks at its order and asks whether the provider is ready.    *)
Prepare(c) ==
    /\ At(c, "preparing")
    /\ \/ Released(Message(c)) /\ To(c, "claiming")
       \/ Leave(c)
    /\ UNCHANGED <<vars, intent, audits, handed, outbox, posts, losses>>

(* Mutant of Unclaimed: a key whose intent is unsettled is taken again.    *)
UnclaimedOrUnsettled(k) == intent[k].status \in {"NONE", "PENDING", "UNKNOWN"}

Unclaimed(k) == intent[k].status = "NONE"

(* claim_sms_send_intent, claim_document_send_intent: the first request    *)
(* with a key writes the intent, the gateway's with the reference that is  *)
(* derived from the key; the trigger looks at the order once more.         *)
Claim(c) ==
    /\ At(c, "claiming") /\ Unclaimed(Key(c)) /\ Released(Message(c))
    /\ intent' = [intent EXCEPT ![Key(c)] =
                     [status |-> "PENDING", message |-> Message(c), sender |-> User[c],
                      reference |-> Channel[Message(c)] = "GATEWAY"]]
    /\ To(c, "sending")
    /\ UNCHANGED <<vars, audits, handed, outbox, posts, losses>>

(* Any other is refused or told of the intent there is.                    *)
NotClaimed(c) ==
    /\ At(c, "claiming") /\ ~(Unclaimed(Key(c)) /\ Released(Message(c)))
    /\ Leave(c)
    /\ UNCHANGED <<vars, intent, audits, handed, outbox, posts, losses>>

(* The fates a provider may report at once; Brevo only accepts.            *)
Reported(m) == IF Sms(m) THEN Fates ELSE {"ACCEPTED"}

(* provider.send: taken, rejected, or not answered in time, which leaves   *)
(* open whether the provider has the message, or will.                     *)
Call(c) ==
    /\ At(c, "sending")
    /\ handed' = [handed EXCEPT ![Key(c)] = Append(@, Message(c))]
    /\ \E now \in Fates \cup {"TRAVELLING", "REJECTED"}, result \in Fates \cup {"UNKNOWN"} :
          /\ \/ now \in Reported(Message(c)) /\ result = now
             \/ now = "REJECTED" /\ result = "FAILED"
             \/ now \in {"ACCEPTED", "TRAVELLING"} /\ result = "UNKNOWN"
          /\ outbox' = [outbox EXCEPT ![Key(c)] = now]
          /\ request' = [request EXCEPT ![c].phase = "completing", ![c].result = result]
    /\ UNCHANGED <<vars, intent, audits, posts, losses>>
-----------------------------------------------------------------------------
(* The changes of status that the completing functions let through.        *)
Allows(old, new) ==
    /\ old \in {"FAILED", "CANCELLED"} => new = old
    /\ old = "DELIVERED" => new \in {"DELIVERED", "FAILED"}
    /\ old = "SENT" => new \notin {"ACCEPTED", "CANCELLED"}

(* Mutant of Recordable: the status may change in any way.                 *)
AlwaysRecordable(c) ==
    intent[Key(c)].sender = User[c] /\ Released(intent[Key(c)].message)

(* Only the sender completes, and the trigger looks at the order again.    *)
Recordable(c) ==
    LET i == intent[Key(c)]
    IN  i.sender = User[c] /\ Released(i.message) /\ Allows(i.status, request[c].result)

Audited(k, status) ==
    /\ status \notin {intent[k].status, "UNKNOWN"}
    /\ status = "ACCEPTED" => ~Sms(intent[k].message)

(* complete_sms_delivery_intent, complete_email_delivery_intent with the   *)
(* audit trigger; a refused one changes nothing.                           *)
Complete(c) ==
    /\ At(c, "completing")
    /\ LET k == Key(c)
           status == request[c].result
       IN  IF Recordable(c)
           THEN /\ intent' = [intent EXCEPT ![k].status = status,
                                            ![k].reference = @ \/ {status, outbox[k]} \subseteq Fates]
                /\ audits' = [audits EXCEPT ![k] = @ \cup IF Audited(k, status) THEN {status} ELSE {}]
           ELSE UNCHANGED <<intent, audits>>
    /\ Leave(c)
    /\ UNCHANGED <<vars, handed, outbox, posts, losses>>

(* POST /messaging/sms/reconcile for an entry that has a reference.        *)
CheckStatus(c, k) ==
    /\ At(c, "idle")
    /\ intent[k].reference /\ Sms(intent[k].message)
    /\ request' = [request EXCEPT ![c] = [phase |-> "looking", key |-> k,
                                          message |-> intent[k].message, result |-> "UNKNOWN"]]
    /\ UNCHANGED <<vars, intent, audits, handed, outbox, posts, losses>>

(* Mutant of Seen: a message the provider does not know has failed.        *)
SeenOrFailed(k) == IF outbox[k] \in Fates THEN outbox[k] ELSE "FAILED"

(* provider.lookupStatus: the state the provider has, if it knows the      *)
(* message at all.                                                         *)
Seen(k) == IF outbox[k] \in Fates THEN outbox[k] ELSE "UNKNOWN"

LookUp(c, k) ==
    /\ At(c, "looking") /\ Key(c) = k
    /\ request' = [request EXCEPT ![c].phase = "completing", ![c].result = Seen(k)]
    /\ UNCHANGED <<vars, intent, audits, handed, outbox, posts, losses>>

LookUpFails(c) == At(c, "looking") /\ To(c, "completing")
                  /\ UNCHANGED <<vars, intent, audits, handed, outbox, posts, losses>>

(* A request dies with its connection, its server or an error.             *)
Lose(c) ==
    /\ ~At(c, "idle") /\ losses < MaxLosses
    /\ Leave(c)
    /\ losses' = losses + 1
    /\ UNCHANGED <<vars, intent, audits, handed, outbox, posts>>

(* The provider goes on.                                                   *)
Becomes(now) ==
    CASE now = "TRAVELLING" -> {"ACCEPTED", "REJECTED"}
      [] now = "ACCEPTED"   -> {"SENT", "FAILED", "CANCELLED"}
      [] now = "SENT"       -> {"DELIVERED", "FAILED"}
      [] OTHER              -> {}

Advance(k) ==
    /\ \E next \in Becomes(outbox[k]) : outbox' = [outbox EXCEPT ![k] = next]
    /\ UNCHANGED <<vars, request, intent, audits, handed, posts, losses>>
-----------------------------------------------------------------------------
Serve(c) ==
    \/ Prepare(c) \/ Claim(c) \/ NotClaimed(c) \/ Call(c) \/ Complete(c) \/ LookUpFails(c)
    \/ \E k \in DeliveryKeys : LookUp(c, k)

DeliveryNext ==
    \/ \E c \in Clients :
          \/ Serve(c) \/ Lose(c)
          \/ \E k \in DeliveryKeys : CheckStatus(c, k) \/ \E m \in Messages : Post(c, k, m)
    \/ \E k \in DeliveryKeys : Advance(k)
    \/ Next /\ UNCHANGED delivery

DeliverySpec == DeliveryInit /\ [][DeliveryNext]_deliveryVars

(* Requests go on, the sender comes back to every entry of the history     *)
(* that offers a check, and a provider asked again and again answers.      *)
FairDeliverySpec ==
    /\ DeliverySpec
    /\ \A c \in Clients :
          /\ WF_deliveryVars(Serve(c))
          /\ \A k \in DeliveryKeys :
                SF_deliveryVars(CheckStatus(c, k)) /\ SF_deliveryVars(LookUp(c, k))
-----------------------------------------------------------------------------
(* Properties.                                                             *)
DeliveryTypeOK ==
    /\ request \in [Clients -> Requests]
    /\ intent \in [DeliveryKeys -> Intents]
    /\ audits \in [DeliveryKeys -> SUBSET Fates]
    /\ handed \in [DeliveryKeys -> Seq(Messages)]
    /\ outbox \in [DeliveryKeys -> Fates \cup {"NONE", "TRAVELLING", "REJECTED"}]
    /\ posts \in 0..MaxPosts /\ losses \in 0..MaxLosses

(* However often and by however many requests at once a key is posted, and *)
(* whichever of them die, the provider is called at most once with it, and *)
(* with the message that the history names.                                *)
OneCallPerKey ==
    \A k \in DeliveryKeys : handed[k] \in {<<>>, <<intent[k].message>>}

(* Where a message of which a status was once true may be by now.          *)
After(status) ==
    CASE status = "ACCEPTED" -> Fates
      [] status = "SENT"     -> {"SENT", "DELIVERED", "FAILED"}
      [] status = "FAILED"   -> {"FAILED", "REJECTED"}
      [] OTHER               -> {status}

(* The history and its audits claim only what the provider has reported    *)
(* and still stands: in particular a message said to have failed, which    *)
(* the panels offer to send anew, was not and will not be sent.            *)
HistoryIsTrue ==
    \A k \in DeliveryKeys :
        \A s \in audits[k] \cup ({intent[k].status} \cap Fates) : outbox[k] \in After(s)

(* What finally became of a text message whose intent has a reference is   *)
(* in the history in the end and stays there, whatever answers were lost   *)
(* and in whatever order status checks end.                                *)
OutcomeIsLearned ==
    \A k \in DeliveryKeys : \A s \in Final :
        [](outbox[k] = s /\ intent[k].reference /\ Sms(intent[k].message)
              => <>[](intent[k].status = s))
=============================================================================
