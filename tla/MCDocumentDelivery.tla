------------------------ MODULE MCDocumentDelivery -------------------------
(* DocumentDelivery: a text message through the company's own gateway, one *)
(* through PhilSMS and an e-mail with an order that is cancelled meanwhile.*)
EXTENDS DocumentDelivery, TLC

CONSTANTS s1, o1, c1, c2, u1, k1, text, other, mail

MCUser == [c \in Clients |-> u1]
MCChannel == text :> "GATEWAY" @@ other :> "PHILSMS" @@ mail :> "BREVO"
MCAttached == text :> None @@ other :> None @@ mail :> o1
MCOrdered == o1 :> 1
Nowhere == <<>>
MCWorkloads == {{[op |-> "Transition", order |-> o1, to |-> "CANCELLED"]}}
=============================================================================
