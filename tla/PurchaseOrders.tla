--------------------------- MODULE PurchaseOrders ---------------------------
(***************************************************************************)
(* Purchase orders, the receipts of what they ordered and their matches    *)
(* with supplier invoices, as the functions and triggers of                *)
(* src/supabase/migrations do them; the calls are described as in          *)
(* SupplierLedger, whose invoices they share.  An order has one line, no   *)
(* line being the quantity 0; matches have generated ids and are kept in   *)
(* the order of their creation.                                            *)
(***************************************************************************)
EXTENDS SupplierLedger

CONSTANTS
    Orders,     \* purchase orders, named by their numbers
    Ordered,    \* quantity of the orders issued at first; the others do not exist
    Receipts    \* ids of receipts, made by the client

Progress == {"NONE", "DRAFT", "APPROVED", "ISSUED", "CLOSED", "CANCELLED"}
OrderRows == [status : Progress, quantity : 0..MaxAmount, version : Nat]
ReceiptRows == [status : {"NONE", "RECEIVED", "VOIDED"}, order : Orders \cup {None},
                quantity : 0..MaxAmount]
Bills == [status : {"CONFIRMED", "UNMATCHED"}, invoice : Invoices, order : Orders,
          amount : Amounts]
NoReceipt == [status |-> "NONE", order |-> None, quantity |-> 0]

OrderCalls ==
    [op : {"CreateOrder"}, order : Orders, quantity : 0..MaxAmount]
    \cup [op : {"SaveOrder"}, order : Orders, quantity : 0..MaxAmount, version : Nat]
    \cup [op : {"Transition"}, order : Orders, to : {"APPROVED", "ISSUED", "CLOSED", "CANCELLED"}]
    \cup [op : {"DeleteOrder"}, order : Orders]
    \cup [op : {"Receive"}, receipt : Receipts, order : Orders, quantity : Amounts]
    \cup [op : {"VoidReceipt"}, receipt : Receipts]
    \cup [op : {"MatchOrder"}, invoice : Invoices, order : Orders, amount : Amounts]
    \cup [op : {"UnmatchOrder"}, bill : Nat \ {0}]
HeaderOps == {"CreateOrder", "SaveOrder", "Transition", "DeleteOrder"}
OrderOps == HeaderOps \cup {"Receive", "VoidReceipt", "MatchOrder", "UnmatchOrder"}

ASSUME OrderAssumption ==
    /\ IsFiniteSet(Receipts) /\ None \notin Orders
    /\ \E issued \in SUBSET Orders : Ordered \in [issued -> Amounts]

VARIABLES order, receipt, bills

orders == <<order, receipt, bills>>

OrderInit ==
    /\ order = [o \in Orders |->
                   IF o \in DOMAIN Ordered
                   THEN [status |-> "ISSUED", quantity |-> Ordered[o], version |-> 1]
                   ELSE [status |-> "NONE", quantity |-> 0, version |-> 0]]
    /\ receipt = [r \in Receipts |-> NoReceipt]
    /\ bills = <<>>

(***************************************************************************)
(* What the functions read.                                                *)
(***************************************************************************)
(* What the receipts that stand have brought of an order.                  *)
ReceiptsOf(o) == {r \in Receipts : receipt[r].status = "RECEIVED" /\ receipt[r].order = o}
Received(o) == SumOf(ReceiptsOf(o), [r \in Receipts |-> receipt[r].quantity])

Billed(i) == {n \in DOMAIN bills : bills[n].invoice = i}
ConfirmedBill(i) == \E n \in Billed(i) : bills[n].status = "CONFIRMED"

(* The states an order may go to.                                          *)
Follows(status) ==
    CASE status = "DRAFT" -> {"APPROVED", "CANCELLED"}
      [] status = "APPROVED" -> {"ISSUED", "CANCELLED"}
      [] status = "ISSUED" -> {"CLOSED", "CANCELLED"}
      [] OTHER -> {}

(***************************************************************************)
(* Plans, refusals and answers.                                            *)
(***************************************************************************)
(* Mutant of ReceivePlan: receipts do not exclude each other.              *)
SharedReceivePlan(c) ==
    <<ForShare("orders", c.order),
      IfFound(receipt[c.receipt].status # "NONE", ForUpdate("receipts", c.receipt)),
      ForShare("lines", c.order)>>

(* The order, the receipt if the id was used before, and the order's line. *)
ReceivePlan(c) ==
    <<ForUpdate("orders", c.order),
      IfFound(receipt[c.receipt].status # "NONE", ForUpdate("receipts", c.receipt)),
      ForUpdate("lines", c.order)>>

MatchPlan(c) == <<ForShare("invoices", c.invoice), ForShare("orders", c.order)>>

OrderPlan(c) ==
    CASE c.op = "CreateOrder" -> <<>>
      [] c.op = "Receive" -> ReceivePlan(c)
      [] c.op = "VoidReceipt" -> <<ForUpdate("receipts", c.receipt)>>
      [] c.op = "MatchOrder" -> MatchPlan(c)
      [] c.op = "UnmatchOrder" -> <<ForUpdate("bills", c.bill)>>
      [] OTHER -> <<ForUpdate("orders", c.order)>>

OrderExists(row) ==
    /\ row.table = "orders" => order[row.key].status # "NONE"
    /\ row.table = "receipts" => receipt[row.key].status # "NONE"
    /\ row.table = "bills" => row.key \in DOMAIN bills

(* The last check follows the lock of the line.                            *)
ReceiveRefused(c, k) ==
    \/ k = 1 /\ order[c.order].status # "ISSUED"
    \/ k = 2 /\ (receipt[c.receipt].order # c.order \/ receipt[c.receipt].status = "VOIDED")
    \/ k = 3 /\ Received(c.order) + c.quantity > order[c.order].quantity

TransitionRefused(c) ==
    LET o == order[c.order]
    IN  \/ c.to \notin Follows(o.status)
        \/ c.to = "APPROVED" /\ o.quantity = 0
        \/ c.to = "CLOSED" /\ Received(c.order) < o.quantity

MatchRefused(c, k) ==
    \/ invoice[c.invoice].life # "ACTIVE"
    \/ k = 2 /\ order[c.order].status \notin {"ISSUED", "CLOSED"}
    \/ k = 2 /\ (ConfirmedBill(c.invoice) \/ c.amount > invoice[c.invoice].total)

OrderRefused(c, k) ==
    \/ c.op = "Receive" /\ ReceiveRefused(c, k)
    \/ c.op = "Transition" /\ k = 1 /\ TransitionRefused(c)
    \/ c.op = "SaveOrder" /\ k = 1 /\ (order[c.order].status # "DRAFT" \/ order[c.order].version # c.version)
    \/ c.op = "DeleteOrder" /\ k = 1 /\ order[c.order].status # "DRAFT"
    \/ c.op = "VoidReceipt" /\ k = 1 /\ receipt[c.receipt].status # "RECEIVED"
    \/ c.op = "MatchOrder" /\ k > 0 /\ MatchRefused(c, k)
    \/ c.op = "UnmatchOrder" /\ k = 1 /\ bills[c.bill].status # "CONFIRMED"

(* A receipt with a known id is not compared with the one recorded.        *)
OrderAnswered(c, k) == c.op = "Receive" /\ k = 2

(* Mutant of OrderKeyTaken: no index keeps confirmed matches apart.         *)
IndexlessKeyTaken(c) ==
    \/ c.op = "CreateOrder" /\ order[c.order].status # "NONE"
    \/ c.op = "Receive" /\ receipt[c.receipt].status # "NONE"

(* The unique indexes on order numbers, receipt ids and confirmed matches. *)
OrderKeyTaken(c) ==
    \/ c.op = "CreateOrder" /\ order[c.order].status # "NONE"
    \/ c.op = "Receive" /\ receipt[c.receipt].status # "NONE"
    \/ c.op = "MatchOrder" /\ ConfirmedBill(c.invoice)

(***************************************************************************)
(* What a call writes.                                                     *)
(***************************************************************************)
HeaderWrite(c) ==
    /\ order' = [order EXCEPT ![c.order] =
                    CASE c.op = "CreateOrder" -> [status |-> "DRAFT", quantity |-> c.quantity, version |-> 1]
                      [] c.op = "SaveOrder"   -> [@ EXCEPT !.quantity = c.quantity,
                                                         !.version = order[c.order].version + 1]
                      [] c.op = "Transition"  -> [@ EXCEPT !.status = c.to]
                      [] OTHER                -> [@ EXCEPT !.status = "NONE"]]
    /\ UNCHANGED <<receipt, bills>>

ReceiptWrite(c) ==
    /\ receipt' = [receipt EXCEPT ![c.receipt] =
                      IF c.op = "Receive"
                      THEN [status |-> "RECEIVED", order |-> c.order, quantity |-> c.quantity]
                      ELSE [@ EXCEPT !.status = "VOIDED"]]
    /\ UNCHANGED <<order, bills>>

BillWrite(c) ==
    /\ bills' = IF c.op = "MatchOrder"
                THEN Append(bills, [status |-> "CONFIRMED", invoice |-> c.invoice,
                                    order |-> c.order, amount |-> c.amount])
                ELSE [bills EXCEPT ![c.bill].status = "UNMATCHED"]
    /\ UNCHANGED <<order, receipt>>

OrderWrite(c) ==
    \/ c.op \in {"Receive", "VoidReceipt"} /\ ReceiptWrite(c)
    \/ c.op \in {"MatchOrder", "UnmatchOrder"} /\ BillWrite(c)
    \/ c.op \in HeaderOps /\ HeaderWrite(c)

(***************************************************************************)
(* Properties.                                                             *)
(***************************************************************************)
OrderTypeOK ==
    /\ order \in [Orders -> OrderRows]
    /\ receipt \in [Receipts -> ReceiptRows]
    /\ bills \in Seq(Bills)

(* The receipts that stand never bring more than was ordered, however they *)
(* overlap, are repeated or are voided.                                    *)
NotOverReceived == \A o \in Orders : Received(o) <= order[o].quantity

(* An invoice is matched with one order at a time, while it is not void    *)
(* and the order is released, for no more than it bills.                   *)
NewMatchIsSound ==
    [][Len(bills') > Len(bills) =>
          LET b == bills'[Len(bills')]
          IN  /\ invoice[b.invoice].life = "ACTIVE" /\ b.amount <= invoice[b.invoice].total
              /\ order[b.order].status \in {"ISSUED", "CLOSED"}
              /\ \A n \in Billed(b.invoice) : bills[n].status = "UNMATCHED"]_bills

(* An order is closed only when everything ordered has been received.      *)
ClosesFullyReceived ==
    [][\A o \in Orders :
          order[o].status = "ISSUED" /\ order'[o].status = "CLOSED" =>
              Received(o) = order[o].quantity]_order
=============================================================================
