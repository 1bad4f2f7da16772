-------------------------- MODULE MCCompanyDatabase -------------------------
(* CompanyDatabase with a supplier invoice, its expense and one of its own,*)
(* three bank transactions, an order issued and one to be written, and a   *)
(* stock item, under five mixes of calls.                                  *)
EXTENDS CompanyDatabase, TLC

CONSTANTS s1, s2, i1, e1, e2, m1, m2, m3, g1, g2, o1, o2, r1, r2, r3, w1, p1, k1, k2, k3, k4, k5

MCSessions == {s1, s2}
MCTransactions == 1..3
MCStatement == <<[amount |-> 2, direction |-> "DEBIT"], [amount |-> 2, direction |-> "CREDIT"],
                 [amount |-> 1, direction |-> "DEBIT"]>>
MCPair == g1 :> <<1, 2>> @@ g2 :> <<2, 1>>
MCTotal == i1 :> 2
MCSupplierInvoice == e1 :> i1 @@ e2 :> None

Settle(m, t, k, x, a) ==
    [op |-> "Settle", match |-> m, tx |-> t, kind |-> k, target |-> x, amount |-> a]
OnInvoice(op) == [op |-> op, invoice |-> i1]
OnExpense(op, e) == [op |-> op, expense |-> e]
OnTx(op, t) == [op |-> op, tx |-> t]

(* Two transactions settle one obligation while it is corrected.           *)
Obligation ==
    {Settle(m1, 1, "INVOICE", i1, 2), Settle(m1, 1, "EXPENSE", e1, 2), Settle(m2, 3, "EXPENSE", e1, 1),
     Settle(m2, 3, "INVOICE", i1, 1), [op |-> "Unsettle", match |-> m1]}
    \cup {OnInvoice(op) : op \in {"Verify", "VoidInvoice", "DeleteInvoice", "Reopen"}}
    \cup {OnExpense(op, e1) : op \in {"ApproveExpense", "VoidExpense", "DeleteExpense"}}
    \cup {[op |-> "EditInvoice", invoice |-> i1, total |-> 1]}

(* One transaction settles several obligations, is paired and corrected.   *)
Statements ==
    {Settle(m1, 1, "EXPENSE", e2, 1), Settle(m2, 1, "EXPENSE", e2, 1), Settle(m3, 1, "EXPENSE", e2, 2),
     Settle(m2, 3, "EXPENSE", e2, 1),
     [op |-> "Unsettle", match |-> m1], [op |-> "Transfer", group |-> g1],
     [op |-> "CreateExpense", expense |-> e2, amount |-> 2, status |-> "APPROVED"],
     [op |-> "ReverseTransfer", group |-> g1], [op |-> "Transfer", group |-> g2],
     [op |-> "CorrectTx", tx |-> 1, amount |-> 1, direction |-> "DEBIT"]}
    \cup {OnTx(op, 1) : op \in {"ReverseTx", "IgnoreTx", "RestoreTx"}}
    \cup {OnExpense("PayExpense", e2), OnExpense("VoidExpense", e2)}

Transition(o, to) == [op |-> "Transition", order |-> o, to |-> to]
Receive(r, o, q) == [op |-> "Receive", receipt |-> r, order |-> o, quantity |-> q]

(* Orders are written, changed by two users, released and received.        *)
Ordering ==
    {[op |-> "CreateOrder", order |-> o2, quantity |-> 0],
     [op |-> "SaveOrder", order |-> o2, quantity |-> 2, version |-> 1],
     [op |-> "SaveOrder", order |-> o2, quantity |-> 1, version |-> 1],
     [op |-> "DeleteOrder", order |-> o2],
     Receive(r1, o1, 1), Receive(r1, o2, 1), Receive(r3, o2, 1)}
    \cup {Transition(o2, to) : to \in {"APPROVED", "ISSUED", "CANCELLED"}}

(* An order is received, closed and matched with the invoice, which is     *)
(* corrected meanwhile.                                                    *)
Purchasing ==
    {Receive(r1, o1, 2), Receive(r2, o1, 1),
     [op |-> "MatchOrder", invoice |-> i1, order |-> o1, amount |-> 2],
     [op |-> "UnmatchOrder", bill |-> 1],
     [op |-> "EditInvoice", invoice |-> i1, total |-> 1]}
    \cup {[op |-> "VoidReceipt", receipt |-> r] : r \in {r1, r2}}
    \cup {Transition(o1, to) : to \in {"CLOSED", "CANCELLED"}}
    \cup {OnInvoice(op) : op \in {"VoidInvoice", "DeleteInvoice"}}

Move(k, kind, q, p) ==
    [op |-> "Move", key |-> k,
     terms |-> [kind |-> kind, item |-> w1, quantity |-> q, project |-> p, receipt |-> None, reverses |-> None]]
Post(k, r, q) ==
    [op |-> "Move", key |-> k,
     terms |-> [kind |-> "RECEIPT", item |-> w1, quantity |-> q, project |-> None, receipt |-> r,
                reverses |-> None]]
Undo(k, l) ==
    [op |-> "Move", key |-> k,
     terms |-> [kind |-> "REVERSAL", item |-> None, quantity |-> 0, project |-> None, receipt |-> None,
                reverses |-> l]]

(* What was received is posted, issued to a project, given back and taken  *)
(* back, with retries and reused keys.                                     *)
Stock ==
    {Receive(r1, o1, 2), [op |-> "VoidReceipt", receipt |-> r1],
     Post(k1, r1, 2), Post(k2, r1, 2),
     Move(k2, "OPENING", 2, None), Move(k3, "PROJECT_ISSUE", 1, p1), Move(k4, "PROJECT_ISSUE", 2, p1),
     Move(k4, "PROJECT_RETURN", 1, p1),
     Undo(k5, k3), Undo(k5, k4), Undo(k2, k1), Undo(k1, k2), Undo(k3, k5)}
    \cup {[op |-> "SaveItem", item |-> w1, status |-> st] : st \in {"ACTIVE", "INACTIVE"}}

Symmetry == Permutations(MCSessions)
MCOrdered == o1 :> 2
MCPurchasing == {Purchasing}
MCWorkloads == {Obligation, Statements, Ordering, Purchasing, Stock}
=============================================================================
