--------------------------- MODULE SupplierLedger ---------------------------
(***************************************************************************)
(* What the company owes its suppliers and what the bank shows it paid:    *)
(* bank transactions, the evidence that matches them to supplier invoices  *)
(* and expenses, and the corrections of all three, as the functions and    *)
(* triggers of src/supabase/migrations do them.                            *)
(*                                                                         *)
(* For each call: the rows it locks, in order (its plan), what makes it    *)
(* fail or answer without writing once the first k of them are locked, and *)
(* what it writes.  CompanyDatabase runs the calls.                        *)
(*                                                                         *)
(* The unique index on expenses leaves each invoice one linked expense: it *)
(* has a place of its own here, empty until the expense is created. The    *)
(* two rows of an internal transfer are written and reversed together and  *)
(* are one row here, named by the transfer group.                          *)
(***************************************************************************)
EXTENDS RowLocks, Tally, Sequences

CONSTANTS
    Transactions,   \* financial_transactions, numbered as their ids compare
    Invoices,
    Expenses,
    SupplierInvoice, \* supplier_invoice_id of each expense, or None
    Settlements,    \* ids of settlement matches
    Groups,         \* ids of transfer groups
    Pair,           \* left and right transaction of each group
    Statement,      \* amount and direction of each transaction as recorded
    Total,          \* total of each invoice as entered
    None

Matches == Settlements \cup Groups

Bank == [amount : Amounts, direction : {"CREDIT", "DEBIT"},
         status : {"POSTED", "REVERSED"}, group : Groups \cup {None},
         review : {"UNMATCHED", "PARTIAL", "MATCHED", "IGNORED"}]
Evidence == [txs : SUBSET Transactions, kind : {"NONE", "INVOICE", "EXPENSE", "TRANSFER"},
             target : Invoices \cup Expenses \cup {None}, amount : 0..MaxAmount,
             status : {"NONE", "CONFIRMED", "REVERSED"}]
Payables == [total : Amounts, review : {"NEEDS_REVIEW", "VERIFIED"},
             life : {"ACTIVE", "VOID", "GONE"}, verified : BOOLEAN]
Costs == [status : {"NONE", "DRAFT", "APPROVED", "PAID", "VOID"}, amount : Amounts]
NoMatch == [txs |-> {}, kind |-> "NONE", target |-> None, amount |-> 0, status |-> "NONE"]

LedgerCalls ==
    [op : {"Settle"}, match : Settlements, tx : Transactions, amount : Amounts,
     kind : {"INVOICE"}, target : Invoices]
    \cup [op : {"Settle"}, match : Settlements, tx : Transactions, amount : Amounts,
          kind : {"EXPENSE"}, target : Expenses]
    \cup [op : {"Unsettle"}, match : Settlements]
    \cup [op : {"CorrectTx"}, tx : Transactions, amount : Amounts,
          direction : {"CREDIT", "DEBIT"}]
    \cup [op : {"ReverseTx", "IgnoreTx", "RestoreTx"}, tx : Transactions]
    \cup [op : {"Transfer", "ReverseTransfer"}, group : Groups]
    \cup [op : {"Verify", "VoidInvoice", "DeleteInvoice", "Reopen"}, invoice : Invoices]
    \cup [op : {"EditInvoice"}, invoice : Invoices, total : Amounts]
    \cup [op : {"CreateExpense"}, expense : Expenses, amount : Amounts,
          status : {"DRAFT", "APPROVED"}]
    \cup [op : {"ApproveExpense", "PayExpense", "VoidExpense", "DeleteExpense"},
          expense : Expenses]

ASSUME LedgerAssumption ==
    /\ Transactions \subseteq Nat /\ IsFiniteSet(Matches)
    /\ Settlements \cap Groups = {} /\ Invoices \cap Expenses = {}
    /\ None \notin Invoices \cup Expenses \cup Groups
    /\ MaxAmount \in Nat \ {0}
    /\ Statement \in [Transactions -> [amount : Amounts, direction : {"CREDIT", "DEBIT"}]]
    /\ Total \in [Invoices -> Amounts]
    /\ Pair \in [Groups -> Transactions \X Transactions]
    /\ \A g \in Groups : Pair[g][1] # Pair[g][2]
    /\ SupplierInvoice \in [Expenses -> Invoices \cup {None}]
    /\ \A d, e \in Expenses :
          SupplierInvoice[d] = SupplierInvoice[e] => d = e \/ SupplierInvoice[d] = None

TxOps == {"CorrectTx", "ReverseTx", "IgnoreTx", "RestoreTx"}
TransferOps == {"Transfer", "ReverseTransfer"}
InvoiceOps == {"VoidInvoice", "DeleteInvoice", "Reopen", "EditInvoice"}
ExpenseOps == {"CreateExpense", "ApproveExpense", "PayExpense", "VoidExpense", "DeleteExpense"}

VARIABLES tx, match, invoice, expense       \* the tables

ledger == <<tx, match, invoice, expense>>

LedgerInit ==
    /\ tx = [t \in Transactions |->
                [amount |-> Statement[t].amount, direction |-> Statement[t].direction,
                 status |-> "POSTED", group |-> None, review |-> "UNMATCHED"]]
    /\ match = [m \in Matches |-> NoMatch]
    /\ invoice = [i \in Invoices |-> [total |-> Total[i], review |-> "NEEDS_REVIEW",
                                      life |-> "ACTIVE", verified |-> FALSE]]
    /\ expense = [e \in Expenses |-> [status |-> "NONE", amount |-> 1]]

(***************************************************************************)
(* What the functions read.                                                *)
(***************************************************************************)
Confirmed(S) == {m \in S : match[m].status = "CONFIRMED"}
OfTx(t) == {m \in Matches : t \in match[m].txs}
OfTarget(kind, x) == {m \in Matches : match[m].kind = kind /\ match[m].target = x}
LinkedExpense(i) == {e \in Expenses : SupplierInvoice[e] = i /\ expense[e].status # "NONE"}
Active(e) == expense[e].status \notin {"NONE", "VOID"}

Sum(S) == SumOf(S, [m \in Matches |-> match[m].amount])
Allocated(t) == Sum(Confirmed(OfTx(t)))

(* Mutant of OfObligation: only the rows of the target itself count.       *)
OfTargetOnly(kind, x) == OfTarget(kind, x)

(* Direct evidence for an invoice counts for the expense made from it.     *)
OfObligation(kind, x) ==
    OfTarget(kind, x)
    \cup IF kind = "EXPENSE" /\ SupplierInvoice[x] # None
         THEN OfTarget("INVOICE", SupplierInvoice[x]) ELSE {}
Basis(kind, x) == IF kind = "INVOICE" THEN invoice[x].total ELSE expense[x].amount

(* The reconciliation status that an allocated sum gives a transaction.    *)
Derived(amount, sum) ==
    IF sum = 0 THEN "UNMATCHED" ELSE IF sum >= amount THEN "MATCHED" ELSE "PARTIAL"

Payable(i) == invoice[i].life = "ACTIVE" /\ invoice[i].review = "VERIFIED"

(* The trigger on supplier expenses: the invoice still says what it says.  *)
Provenance(e) ==
    SupplierInvoice[e] # None =>
        /\ Payable(SupplierInvoice[e])
        /\ invoice[SupplierInvoice[e]].total = expense[e].amount

(***************************************************************************)
(* The rows a call locks, in order.                                        *)
(***************************************************************************)
(* Mutant of TxPlan: the transaction is only locked against changes.       *)
SharedTxPlan(c) == <<ForShare("transactions", c.tx)>>

TxPlan(c) == <<ForUpdate("transactions", c.tx)>>
InvoicePlan(c) == <<ForUpdate("invoices", c.invoice)>>
TargetRow(kind, x) == ForUpdate(IF kind = "INVOICE" THEN "invoices" ELSE "expenses", x)

(* Mutant of SettlePlan: what is settled is read without a lock.           *)
TxOnlyPlan(c) == <<TxPlan(c)[1]>>

SettlePlan(c) ==
    IF c.kind = "EXPENSE" /\ SupplierInvoice[c.target] # None
    THEN <<TxPlan(c)[1], TargetRow(c.kind, c.target), ForUpdate("invoices", SupplierInvoice[c.target])>>
    ELSE <<TxPlan(c)[1], TargetRow(c.kind, c.target)>>

UnsettlePlan(c) ==
    LET m == match[c.match]
    IN  IF m.kind = "NONE" THEN <<ForUpdate("matches", c.match)>>
        ELSE <<ForUpdate("matches", c.match),
               ForUpdate("transactions", CHOOSE t \in Transactions : t \in m.txs),
               TargetRow(m.kind, m.target)>>

(* Mutant of TransferPlan: the caller's left side is locked first.         *)
LeftFirstPlan(c) ==
    <<ForUpdate("transactions", Pair[c.group][1]), ForUpdate("transactions", Pair[c.group][2])>>

(* Both rows in the order of their ids, whoever is left or right.          *)
TransferPlan(c) ==
    LET p == Pair[c.group]
    IN  IF p[1] < p[2]
        THEN <<ForUpdate("transactions", p[1]), ForUpdate("transactions", p[2])>>
        ELSE <<ForUpdate("transactions", p[2]), ForUpdate("transactions", p[1])>>

VerifyPlan(c) ==
    IF LinkedExpense(c.invoice) = {} THEN InvoicePlan(c)
    ELSE <<ForUpdate("invoices", c.invoice),
           ForUpdate("expenses", CHOOSE e \in Expenses : SupplierInvoice[e] = c.invoice)>>

ExpensePlan(c) ==
    CASE c.op = "CreateExpense" -> <<>>
      [] c.op = "DeleteExpense" \/ SupplierInvoice[c.expense] = None -> <<ForUpdate("expenses", c.expense)>>
      [] OTHER -> <<ForUpdate("expenses", c.expense), ForShare("invoices", SupplierInvoice[c.expense])>>

LedgerPlan(c) ==
    CASE c.op = "Settle" -> SettlePlan(c)
      [] c.op = "Unsettle" -> UnsettlePlan(c)
      [] c.op \in TxOps -> TxPlan(c)
      [] c.op \in TransferOps -> TransferPlan(c)
      [] c.op = "Verify" -> VerifyPlan(c)
      [] c.op \in InvoiceOps -> InvoicePlan(c)
      [] OTHER -> ExpensePlan(c)

LedgerExists(row) ==
    /\ row.table = "matches" => match[row.key].status # "NONE"
    /\ row.table = "invoices" => invoice[row.key].life # "GONE"
    /\ row.table = "expenses" => expense[row.key].status # "NONE"

(***************************************************************************)
(* What a call refuses, and what it answers without writing because it was *)
(* done before, once the first k rows of its plan are locked.              *)
(***************************************************************************)
Terms(c) == [txs |-> {c.tx}, kind |-> c.kind, target |-> c.target,
             amount |-> c.amount, status |-> "CONFIRMED"]

Eligible(c) ==
    IF c.kind = "INVOICE"
    THEN Payable(c.target) /\ \A e \in LinkedExpense(c.target) : ~Active(e)
    ELSE IF SupplierInvoice[c.target] # None
         THEN Payable(SupplierInvoice[c.target]) /\ Active(c.target)
         ELSE expense[c.target].status \in {"APPROVED", "PAID"}

Fits(c) ==
    /\ Allocated(c.tx) + c.amount <= tx[c.tx].amount
    /\ Sum(Confirmed(OfObligation(c.kind, c.target))) + c.amount <= Basis(c.kind, c.target)

SettleRefused(c, k) ==
    \/ tx[c.tx].status # "POSTED" \/ tx[c.tx].direction # "DEBIT"
    \/ k = 1 /\ match[c.match] # NoMatch /\ match[c.match] # Terms(c)
    \/ k = Len(SettlePlan(c)) /\ ~(Eligible(c) /\ Fits(c))

HasEvidence(t) == Confirmed(OfTx(t)) # {}

TxRefused(c) ==
    LET t == tx[c.tx]
    IN  \/ c.op = "CorrectTx"
           /\ (t.group # None \/ t.status = "REVERSED" \/ t.review # "UNMATCHED" \/ OfTx(c.tx) # {})
        \/ c.op = "ReverseTx" /\ t.status # "REVERSED"
           /\ (t.review = "IGNORED" \/ t.group # None \/ HasEvidence(c.tx))
        \/ c.op \in {"IgnoreTx", "RestoreTx"} /\ t.status = "REVERSED"
        \/ c.op = "IgnoreTx"
           /\ (HasEvidence(c.tx) \/ (t.review # "IGNORED" /\ (t.group # None \/ t.review # "UNMATCHED")))
        \/ c.op = "RestoreTx" /\ t.review = "IGNORED" /\ (t.group # None \/ HasEvidence(c.tx))

(* Only two opposite movements of one amount pair up.                      *)
Opposite(l, r) == tx[l].direction # tx[r].direction /\ tx[l].amount = tx[r].amount
Paired(g) == match[g].status = "CONFIRMED" /\ \A t \in {Pair[g][1], Pair[g][2]} : tx[t].group = g
Unpaired(g) == match[g].status = "REVERSED" /\ \A t \in {Pair[g][1], Pair[g][2]} : tx[t].group = None

TransferRefused(c) ==
    LET l == Pair[c.group][1]
        r == Pair[c.group][2]
    IN  \/ c.op = "Transfer" /\ ~Paired(c.group)
           /\ (\/ match[c.group].status = "REVERSED" \/ ~Opposite(l, r)
               \/ \E t \in {l, r} : tx[t].group # None \/ tx[t].status # "POSTED"
                                    \/ tx[t].review # "UNMATCHED" \/ HasEvidence(t))
        \/ c.op = "ReverseTransfer" /\ ~Unpaired(c.group)
           /\ (\/ ~Opposite(l, r)
               \/ \E t \in {l, r} : tx[t].group # c.group \/ tx[t].status # "POSTED"
                                    \/ Confirmed(OfTx(t)) # {c.group})

VerifyRefused(c, k) ==
    \/ invoice[c.invoice].life = "VOID"
    \/ k = 2 /\ \E e \in LinkedExpense(c.invoice) : ~Active(e)

InvoiceRefused(c) ==
    LET i == invoice[c.invoice]
        rows == OfTarget("INVOICE", c.invoice)
    IN  \/ c.op = "VoidInvoice" /\ Confirmed(rows) # {}
        \/ c.op = "DeleteInvoice" /\ (i.verified \/ rows # {})
        \/ c.op \in {"Reopen", "EditInvoice"} /\ i.life = "VOID"
        \/ c.op = "Reopen" /\ \E e \in LinkedExpense(c.invoice) : Active(e)
        \/ c.op = "EditInvoice" /\ i.review = "VERIFIED"

ExpenseRefused(c, k) ==
    LET e == c.expense
        rows == OfTarget("EXPENSE", e)
    IN  \/ c.op = "CreateExpense" /\ (SupplierInvoice[e] # None \/ expense[e].status # "NONE")
        \/ c.op = "ApproveExpense" /\ expense[e].status \notin {"DRAFT", "APPROVED"}
        \/ c.op = "PayExpense" /\ ~Active(e)
        \/ c.op = "VoidExpense" /\ Confirmed(rows) # {}
        \/ c.op = "DeleteExpense" /\ (expense[e].status # "DRAFT" \/ rows # {})
        \/ c.op # "DeleteExpense" /\ k = 2 /\ ~Provenance(e)

LedgerRefused(c, k) ==
    \/ c.op = "Settle" /\ k > 0 /\ SettleRefused(c, k)
    \/ c.op \in TxOps /\ k > 0 /\ TxRefused(c)
    \/ c.op \in TransferOps /\ k = 2 /\ TransferRefused(c)
    \/ c.op = "Verify" /\ k > 0 /\ VerifyRefused(c, k)
    \/ c.op \in InvoiceOps /\ k > 0 /\ InvoiceRefused(c)
    \/ c.op \in ExpenseOps /\ (c.op = "CreateExpense" \/ k > 0) /\ ExpenseRefused(c, k)

LedgerAnswered(c, k) ==
    \/ c.op = "Settle" /\ k = 1 /\ match[c.match] = Terms(c)
    \/ c.op = "Unsettle" /\ k > 0 /\ match[c.match].status = "REVERSED"
    \/ c.op = "ReverseTx" /\ k > 0 /\ tx[c.tx].status = "REVERSED"
    \/ c.op = "IgnoreTx" /\ k > 0 /\ tx[c.tx].review = "IGNORED"
    \/ c.op = "RestoreTx" /\ k > 0 /\ tx[c.tx].review # "IGNORED"
    \/ c.op = "Transfer" /\ k = 2 /\ Paired(c.group)
    \/ c.op = "ReverseTransfer" /\ k = 2 /\ Unpaired(c.group)
    \/ c.op = "VoidInvoice" /\ k > 0 /\ invoice[c.invoice].life = "VOID"
    \/ c.op = "VoidExpense" /\ k > 0 /\ expense[c.expense].status = "VOID"

(* Mutant of LedgerKeyTaken: a match with a known id is written over.       *)
ExpenseKeyTaken(c) == c.op = "CreateExpense" /\ expense[c.expense].status # "NONE"

(* An insert whose key another transaction took meanwhile fails.           *)
LedgerKeyTaken(c) ==
    \/ c.op = "Settle" /\ match[c.match] # NoMatch
    \/ c.op = "CreateExpense" /\ expense[c.expense].status # "NONE"

(***************************************************************************)
(* What a call writes.                                                     *)
(***************************************************************************)
(* refresh_financial_transaction_reconciliation, S being what is confirmed *)
(* of the transaction now.                                                 *)
Reviewed(t, sum) == [tx EXCEPT ![t].review = Derived(tx[t].amount, sum)]

SettleWrite(c) ==
    /\ match' = [match EXCEPT ![c.match] = Terms(c)]
    /\ tx' = Reviewed(c.tx, Allocated(c.tx) + c.amount)
    /\ UNCHANGED <<invoice, expense>>

(* Mutant of UnsettleWrite: the reconciliation status is not refreshed.    *)
UnsettleWithoutRefresh(c) ==
    /\ match' = [match EXCEPT ![c.match].status = "REVERSED"]
    /\ UNCHANGED <<tx, invoice, expense>>

UnsettleWrite(c) ==
    LET t == CHOOSE u \in Transactions : u \in match[c.match].txs
    IN  /\ match' = [match EXCEPT ![c.match].status = "REVERSED"]
        /\ tx' = Reviewed(t, Sum(Confirmed(OfTx(t)) \ {c.match}))
        /\ UNCHANGED <<invoice, expense>>

(* Mutant of TxWrite: a reversal marks the row as a void one.              *)
VoidTxWrite(c) ==
    /\ tx' = [tx EXCEPT ![c.tx].status = "VOID"]
    /\ UNCHANGED <<match, invoice, expense>>

TxWrite(c) ==
    /\ tx' = [tx EXCEPT ![c.tx] =
                  CASE c.op = "CorrectTx" -> [@ EXCEPT !.amount = c.amount, !.direction = c.direction]
                    [] c.op = "ReverseTx" -> [@ EXCEPT !.status = "REVERSED", !.review = "UNMATCHED"]
                    [] c.op = "IgnoreTx"  -> [@ EXCEPT !.review = "IGNORED"]
                    [] OTHER              -> [@ EXCEPT !.review = "UNMATCHED"]]
    /\ UNCHANGED <<match, invoice, expense>>

(* Both transactions of the pair and both rows of the match.               *)
TransferWrite(c) ==
    LET both == {Pair[c.group][1], Pair[c.group][2]}
        on == c.op = "Transfer"
    IN  /\ tx' = [t \in Transactions |->
                    IF t \notin both THEN tx[t]
                    ELSE [tx[t] EXCEPT !.group = IF on THEN c.group ELSE None,
                                       !.review = IF on THEN "MATCHED" ELSE "UNMATCHED"]]
        /\ match' = [match EXCEPT ![c.group] =
                        IF on THEN [txs |-> both, kind |-> "TRANSFER", target |-> None,
                                    amount |-> tx[Pair[c.group][1]].amount, status |-> "CONFIRMED"]
                        ELSE [@ EXCEPT !.status = "REVERSED"]]
        /\ UNCHANGED <<invoice, expense>>

VerifyWrite(c) ==
    LET i == c.invoice
    IN  /\ invoice' = [invoice EXCEPT ![i].review = "VERIFIED", ![i].verified = TRUE]
        /\ expense' = [e \in Expenses |->
                          IF SupplierInvoice[e] = i /\ expense[e].status = "NONE"
                          THEN [status |-> "DRAFT", amount |-> invoice[i].total] ELSE expense[e]]
        /\ UNCHANGED <<tx, match>>

InvoiceWrite(c) ==
    /\ invoice' = [invoice EXCEPT ![c.invoice] =
                      CASE c.op = "VoidInvoice"   -> [@ EXCEPT !.life = "VOID"]
                        [] c.op = "DeleteInvoice" -> [@ EXCEPT !.life = "GONE"]
                        [] c.op = "Reopen"        -> [@ EXCEPT !.review = "NEEDS_REVIEW"]
                        [] OTHER                  -> [@ EXCEPT !.total = c.total]]
    /\ UNCHANGED <<tx, match, expense>>

ExpenseWrite(c) ==
    /\ expense' = [expense EXCEPT ![c.expense] =
                      CASE c.op = "CreateExpense"  -> [status |-> c.status, amount |-> c.amount]
                        [] c.op = "ApproveExpense" -> [@ EXCEPT !.status = "APPROVED"]
                        [] c.op = "PayExpense"     -> [@ EXCEPT !.status = "PAID"]
                        [] c.op = "VoidExpense"    -> [@ EXCEPT !.status = "VOID"]
                        [] OTHER                   -> [@ EXCEPT !.status = "NONE"]]
    /\ UNCHANGED <<tx, match, invoice>>

LedgerWrite(c) ==
    \/ c.op = "Settle" /\ SettleWrite(c)
    \/ c.op = "Unsettle" /\ UnsettleWrite(c)
    \/ c.op \in TxOps /\ TxWrite(c)
    \/ c.op \in TransferOps /\ TransferWrite(c)
    \/ c.op = "Verify" /\ VerifyWrite(c)
    \/ c.op \in InvoiceOps /\ InvoiceWrite(c)
    \/ c.op \in ExpenseOps /\ ExpenseWrite(c)

(***************************************************************************)
(* Properties.                                                             *)
(***************************************************************************)
LedgerTypeOK ==
    /\ tx \in [Transactions -> Bank]
    /\ match \in [Matches -> Evidence]
    /\ invoice \in [Invoices -> Payables]
    /\ expense \in [Expenses -> Costs]

(* No transaction is matched beyond its amount, however its confirmations, *)
(* transfers and corrections run into each other.                          *)
NotOverdrawn == \A t \in Transactions : Allocated(t) <= tx[t].amount

(* The reconciliation status of a transaction tells what evidence it has,  *)
(* and a reversed or ignored one has none.                                 *)
ReviewTellsEvidence ==
    \A t \in Transactions :
        /\ tx[t].status = "REVERSED" \/ tx[t].review = "IGNORED" => Allocated(t) = 0
        /\ tx[t].review # "IGNORED" => tx[t].review = Derived(tx[t].amount, Allocated(t))
        /\ tx[t].group # None => t \in match[tx[t].group].txs /\ Confirmed({tx[t].group}) # {}

Obligations == ({"INVOICE"} \X Invoices) \cup ({"EXPENSE"} \X Expenses)

(* Everything confirmed for what an invoice, or an expense that no invoice *)
(* stands behind, makes payable: directly or through the linked expense.   *)
Paid(kind, x) ==
    Sum(Confirmed(OfTarget(kind, x)
                  \cup IF kind = "EXPENSE" /\ SupplierInvoice[x] # None
                       THEN OfTarget("INVOICE", SupplierInvoice[x])
                       ELSE UNION {OfTarget("EXPENSE", e) : e \in {d \in Expenses : SupplierInvoice[d] = x}}))

(* Evidence is confirmed only for a target that may still be settled, and  *)
(* never beyond what is payable, an invoice and its linked expense being   *)
(* one obligation.                                                         *)
NewEvidenceIsSound ==
    [][\A m \in Settlements, o \in Obligations :
          match[m].status = "NONE" /\ match'[m].kind = o[1] /\ match'[m].target = o[2] =>
              /\ Eligible([kind |-> o[1], target |-> o[2]])
              /\ Paid(o[1], o[2])' <= Basis(o[1], o[2])]_ledger

(* Evidence is never changed or dropped, only reversed, once: a repeated   *)
(* request with the same id settles nothing twice.                         *)
EvidenceOnlyReverses ==
    [][\A m \in Matches :
          match[m].status # "NONE" /\ match'[m] # match[m] =>
              /\ match[m].status = "CONFIRMED"
              /\ match'[m] = [match[m] EXCEPT !.status = "REVERSED"]]_ledger

(* No confirmed evidence names a voided invoice or expense as its target,  *)
(* whichever of a settlement and a void began first.                       *)
VoidedTargetsAreFree ==
    \A m \in Settlements :
        match[m].status = "CONFIRMED" =>
            /\ match[m].kind = "INVOICE" => invoice[match[m].target].life = "ACTIVE"
            /\ match[m].kind = "EXPENSE" => Active(match[m].target)
=============================================================================
