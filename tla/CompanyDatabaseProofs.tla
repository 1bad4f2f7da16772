----------------------- MODULE CompanyDatabaseProofs -----------------------
(***************************************************************************)
(* Proofs about CompanyDatabase, for any number of sessions and any calls: *)
(* the row locks that a call holds keep true what it checked before it     *)
(* writes.  No order is received beyond its quantity, no bank transaction  *)
(* is matched beyond its amount, evidence is only ever reversed, and a     *)
(* movement is taken back once; what is voided or deleted has no evidence  *)
(* confirmed against it, the reconciliation status of a transaction tells  *)
(* its evidence, stock is covered, and transactions wait for each other    *)
(* for good only where the lock order is known to be opposite.             *)
(***************************************************************************)
EXTENDS CompanyDatabase, FiniteSetTheorems, WellFoundedInduction, TLAPS

(***************************************************************************)
(* Sums of amounts when rows come and go, and the least of some numbers.   *)
(***************************************************************************)

LEMMA UnitsAreFinite ==
    ASSUME MaxAmount \in Nat, NEW S, IsFiniteSet(S), NEW f
    PROVE  IsFiniteSet(Units(S, f))
<1>1. IsFiniteSet(1..MaxAmount)
  BY FS_Interval
<1>2. IsFiniteSet(S \X (1..MaxAmount))
  BY <1>1, FS_Product
<1>3. Units(S, f) \in SUBSET (S \X (1..MaxAmount))
  BY DEF Units, Amounts
<1> QED
  BY <1>2, <1>3, FS_Subset

LEMMA SumIsNatural ==
    ASSUME MaxAmount \in Nat, NEW S, IsFiniteSet(S), NEW f
    PROVE  SumOf(S, f) \in Nat
BY UnitsAreFinite, FS_CardinalityType DEF SumOf

(* Fewer rows with the same amounts sum to no more.                        *)
LEMMA SumShrinks ==
    ASSUME MaxAmount \in Nat, NEW T, IsFiniteSet(T), NEW S \in SUBSET T, NEW f, NEW g,
           \A x \in S : f[x] = g[x]
    PROVE  SumOf(S, f) <= SumOf(T, g)
<1>1. IsFiniteSet(Units(T, g))
  BY UnitsAreFinite
<1>2. Units(S, f) \in SUBSET Units(T, g)
  BY DEF Units
<1> QED
  BY <1>1, <1>2, FS_Subset DEF SumOf

LEMMA SumOfNone ==
    ASSUME NEW f
    PROVE  SumOf({}, f) = 0
<1>1. Units({}, f) = {}
  BY DEF Units
<1> QED
  BY <1>1, FS_EmptySet DEF SumOf

(* One row more adds its amount.                                           *)
LEMMA SumGrows ==
    ASSUME MaxAmount \in Nat, NEW S, IsFiniteSet(S), NEW x, x \notin S, NEW f, NEW g,
           \A y \in S : f[y] = g[y], g[x] \in 0..MaxAmount
    PROVE  SumOf(S \cup {x}, g) = SumOf(S, f) + g[x]
<1> DEFINE Own == {x} \X (1..g[x])
<1>1. IsFiniteSet({x}) /\ Cardinality({x}) = 1
  BY FS_Singleton
<1>2. \A n \in Nat : IsFiniteSet(1..n) /\ Cardinality(1..n) = n
  <2>1. \A a, b \in Int : IsFiniteSet(a..b) /\ Cardinality(a..b) = IF a > b THEN 0 ELSE b - a + 1
    BY FS_Interval
  <2>2. ASSUME NEW n \in Nat PROVE IsFiniteSet(1..n) /\ Cardinality(1..n) = IF 1 > n THEN 0 ELSE n - 1 + 1
    <3>1. 1 \in Int /\ n \in Int
      OBVIOUS
    <3> QED
      BY <2>1, <3>1
  <2>3. ASSUME NEW n \in Nat PROVE (IF 1 > n THEN 0 ELSE n - 1 + 1) = n
    OBVIOUS
  <2> QED
    BY <2>2, <2>3
<1> g[x] \in Nat
  OBVIOUS
<1>3. IsFiniteSet(Own) /\ Cardinality(Own) = g[x]
  <2>1. IsFiniteSet(1..g[x]) /\ Cardinality(1..g[x]) = g[x]
    BY <1>2
  <2>2. IsFiniteSet(Own) /\ Cardinality(Own) = Cardinality({x}) * Cardinality(1..g[x])
    BY <1>1, <2>1, FS_Product
  <2> QED
    BY <1>1, <2>1, <2>2
<1>4. Units(S \cup {x}, g) = Units(S, f) \cup Own
  <2>1. ASSUME NEW u PROVE u \in Units(S \cup {x}, g) <=> u \in Units(S, f) \cup Own
    BY DEF Units, Amounts
  <2> QED
    BY <2>1
<1>5. Units(S, f) \cap Own = {}
  BY DEF Units
<1>6. IsFiniteSet(Units(S, f))
  BY UnitsAreFinite
<1>7. Cardinality(Units(S, f) \cup Own) = Cardinality(Units(S, f)) + g[x] - 0
  <2>1. Cardinality(Units(S, f) \cup Own)
           = Cardinality(Units(S, f)) + Cardinality(Own) - Cardinality(Units(S, f) \cap Own)
    BY <1>3, <1>6, FS_Union
  <2> QED
    BY <1>3, <1>5, <2>1, FS_EmptySet
<1>8. Cardinality(Units(S, f)) \in Nat
  BY <1>6, FS_CardinalityType
<1>9. Cardinality(Units(S, f) \cup Own) = Cardinality(Units(S, f)) + g[x]
  BY <1>7, <1>8
<1> QED
  BY <1>4, <1>9 DEF SumOf

LEMMA LeastNumber ==
    ASSUME NEW S \in SUBSET Nat, S # {}
    PROVE  \E n \in S : \A m \in S : n <= m
<1> DEFINE R == {ss \in Nat \X Nat : ss[1] < ss[2]}
<1>1. IsWellFoundedOn(R, Nat)
  BY NatLessThanWellFounded DEF OpToRel
<1>2. \A x, y \in Nat : <<y, x>> \in R <=> y < x
  OBVIOUS
<1> HIDE DEF R
<1>3. \E x \in S : \A y \in S : ~ (<<y, x>> \in R)
  BY <1>1, WFMin
<1>4. PICK x \in S : \A y \in S : ~ (<<y, x>> \in R)
  BY <1>3
<1>5. ASSUME NEW y \in S PROVE x <= y
  <2>1. x \in Nat /\ y \in Nat
    OBVIOUS
  <2>2. ~(y < x)
    BY <1>2, <1>4, <2>1
  <2> QED
    BY <2>1, <2>2
<1> QED
  BY <1>5

(***************************************************************************)
(* Locks, orders, transactions and movements.                              *)
(***************************************************************************)

(* Calls that lock the order they are about before anything else, and those*)
(* that do so with one bank transaction.                                   *)
OwnOrder == {"SaveOrder", "Transition", "DeleteOrder", "Receive"}
OwnTx == {"Settle"} \cup TxOps

(* The session has passed the checks under the lock of its first row.      *)
Seen(s) == call[s] # None /\ (at[s] > 1 \/ (at[s] = 1 /\ passed[s]))

IdleHoldsNothing ==
    /\ held = [s \in Sessions |-> held[s]]
    /\ \A s \in Sessions : call[s] = None => at[s] = 0 /\ ~passed[s] /\ held[s] = {}

(* No two sessions hold locks that exclude each other.                     *)
LocksExclude ==
    \A s, t \in Sessions : s # t => \A g \in held[s], h \in held[t] : ~Conflict(g, h)

OrderLocked(s) ==
    call[s] # None /\ call[s].op \in OwnOrder /\ at[s] > 0 =>
        ForUpdate("orders", call[s].order) \in held[s]
TxLocked(s) ==
    call[s] # None /\ call[s].op \in OwnTx /\ at[s] > 0 =>
        ForUpdate("transactions", call[s].tx) \in held[s]
PairLocked(s) ==
    call[s] # None /\ call[s].op \in TransferOps =>
        /\ at[s] > 0 => TransferPlan(call[s])[1] \in held[s]
        /\ at[s] > 1 => TransferPlan(call[s])[2] \in held[s]

Locked == IdleHoldsNothing /\ LocksExclude
          /\ \A s \in Sessions : OrderLocked(s) /\ TxLocked(s) /\ PairLocked(s)

(* What each call has checked of its order and its receipts still holds.   *)
OrderChecked(s) ==
    Seen(s) =>
        LET c == call[s]
        IN  /\ c.op = "Receive" => order[c.order].status = "ISSUED"
            /\ c.op \in {"SaveOrder", "DeleteOrder"} => order[c.order].status = "DRAFT"
            /\ c.op = "Transition" => c.to \in Follows(order[c.order].status)
            /\ c.op = "Receive" /\ at[s] = 3 /\ passed[s] =>
                  Received(c.order) + c.quantity <= order[c.order].quantity

(* What is not issued yet has not been received.                           *)
NoEarlyReceipts ==
    \A o \in Orders : order[o].status \in {"NONE", "DRAFT", "APPROVED"} => ReceiptsOf(o) = {}

OrdersKept ==
    /\ NotOverReceived /\ NoEarlyReceipts
    /\ \A s \in Sessions : OrderChecked(s)

(* What each call has checked of its bank transactions still holds.        *)
TxChecked(s) ==
    call[s] # None /\ passed[s] =>
        LET c == call[s]
        IN  /\ c.op = "Settle" /\ at[s] = Len(SettlePlan(c)) =>
                  Allocated(c.tx) + c.amount <= tx[c.tx].amount
            /\ c.op = "CorrectTx" /\ at[s] = 1 => ~HasEvidence(c.tx)
            /\ c.op = "Transfer" /\ at[s] = 2 =>
                  /\ Opposite(Pair[c.group][1], Pair[c.group][2])
                  /\ ~HasEvidence(Pair[c.group][1]) /\ ~HasEvidence(Pair[c.group][2])
                  /\ match[c.group].status # "REVERSED"
            /\ c.op = "ReverseTransfer" /\ at[s] = 2 => match[c.group].status = "CONFIRMED"

(* A recorded transfer matches the two transactions of its group.          *)
TransfersArePairs ==
    \A g \in Groups : match[g].status # "NONE" => match[g].txs = {Pair[g][1], Pair[g][2]}

LedgerKept ==
    /\ NotOverdrawn /\ TransfersArePairs
    /\ \A s \in Sessions : TxChecked(s)

(***************************************************************************)
(* Types.                                                                  *)
(***************************************************************************)
LEMMA CallsAreOfAKind ==
    ASSUME NEW c \in Calls
    PROVE  /\ c.op \in OrderOps => c \in OrderCalls
           /\ c.op \in StockOps => c \in StockCalls
           /\ c.op \notin OrderOps \cup StockOps => c \in LedgerCalls
<1>1. CASE c \in LedgerCalls
  <2>1. c.op \notin OrderOps \cup StockOps
    BY <1>1 DEF LedgerCalls, OrderOps, HeaderOps, StockOps
  <2> QED
    BY <1>1, <2>1
<1>2. CASE c \in OrderCalls
  <2>1. c.op \in OrderOps /\ c.op \notin StockOps
    BY <1>2 DEF OrderCalls, OrderOps, HeaderOps, StockOps
  <2> QED
    BY <1>2, <2>1
<1>3. CASE c \in StockCalls
  <2>1. c.op \in StockOps /\ c.op \notin OrderOps
    BY <1>3 DEF StockCalls, OrderOps, HeaderOps, StockOps
  <2> QED
    BY <1>3, <2>1
<1> QED
  BY <1>1, <1>2, <1>3 DEF Calls

LEMMA SettleFields ==
    ASSUME NEW c \in LedgerCalls, c.op = "Settle"
    PROVE  /\ c.match \in Settlements /\ c.tx \in Transactions /\ c.amount \in Amounts
           /\ \/ c.kind = "INVOICE" /\ c.target \in Invoices
              \/ c.kind = "EXPENSE" /\ c.target \in Expenses
BY DEF LedgerCalls

LEMMA TxFields ==
    ASSUME NEW c \in LedgerCalls, c.op \in TxOps
    PROVE  /\ c.tx \in Transactions
           /\ c.op = "CorrectTx" => c.amount \in Amounts /\ c.direction \in {"CREDIT", "DEBIT"}
BY DEF LedgerCalls, TxOps

LEMMA TransferFields ==
    ASSUME NEW c \in LedgerCalls, c.op \in TransferOps
    PROVE  /\ c.group \in Groups
           /\ Pair[c.group][1] \in Transactions /\ Pair[c.group][2] \in Transactions
           /\ Pair[c.group][1] # Pair[c.group][2]
<1>1. c.group \in Groups
  BY DEF LedgerCalls, TransferOps
<1> QED
  BY <1>1, LedgerAssumption

LEMMA EditFields ==
    ASSUME NEW c \in LedgerCalls, c.op = "EditInvoice"
    PROVE  c.total \in Amounts
BY DEF LedgerCalls

LEMMA ExpenseFields ==
    ASSUME NEW c \in LedgerCalls, c.op \in ExpenseOps
    PROVE  /\ c.expense \in Expenses
           /\ c.op = "CreateExpense" => c.amount \in Amounts /\ c.status \in {"DRAFT", "APPROVED"}
BY DEF LedgerCalls, ExpenseOps

LEMMA HeaderFields ==
    ASSUME NEW c \in OrderCalls, c.op \in HeaderOps
    PROVE  /\ c.order \in Orders
           /\ c.op \in {"CreateOrder", "SaveOrder"} => c.quantity \in 0..MaxAmount
           /\ c.op = "Transition" => c.to \in Progress
BY DEF OrderCalls, HeaderOps, Progress

LEMMA ReceiveFields ==
    ASSUME NEW c \in OrderCalls, c.op = "Receive"
    PROVE  c.receipt \in Receipts /\ c.order \in Orders /\ c.quantity \in Amounts
BY DEF OrderCalls

LEMMA MatchFields ==
    ASSUME NEW c \in OrderCalls, c.op = "MatchOrder"
    PROVE  c.invoice \in Invoices /\ c.order \in Orders /\ c.amount \in Amounts
BY DEF OrderCalls

LEMMA StockFields ==
    ASSUME NEW c \in StockCalls
    PROVE  /\ c.op = "Move" =>
                /\ c.key \in Keys /\ c.terms \in Movements(Kinds)
                /\ c.terms.kind = "REVERSAL" => c.terms.reverses \in Keys
           /\ c.op # "Move" => c.status \in {"ACTIVE", "INACTIVE"}
BY StockAssumption DEF StockCalls, Movements, WellFormed

LEMMA ReviewedType ==
    ASSUME tx \in [Transactions -> Bank], NEW t, NEW sum
    PROVE  /\ Reviewed(t, sum) \in [Transactions -> Bank]
           /\ \A u \in Transactions : /\ Reviewed(t, sum)[u].amount = tx[u].amount
                                     /\ Reviewed(t, sum)[u].direction = tx[u].direction
<1> DEFINE review == Derived(tx[t].amount, sum)
<1>1. review \in {"UNMATCHED", "PARTIAL", "MATCHED", "IGNORED"}
  BY DEF Derived
<1>2. Reviewed(t, sum) = [tx EXCEPT ![t].review = review]
  BY DEF Reviewed
<1> HIDE DEF review
<1>3. DOMAIN Reviewed(t, sum) = Transactions /\ Reviewed(t, sum) = [u \in Transactions |-> Reviewed(t, sum)[u]]
  BY <1>2
<1>4. ASSUME NEW u \in Transactions
      PROVE  /\ Reviewed(t, sum)[u] \in Bank
             /\ Reviewed(t, sum)[u].amount = tx[u].amount
             /\ Reviewed(t, sum)[u].direction = tx[u].direction
  <2>1. Reviewed(t, sum)[u] = IF u = t THEN [tx[u] EXCEPT !.review = review] ELSE tx[u]
    BY <1>2
  <2>2. tx[u] \in Bank
    OBVIOUS
  <2> QED
    BY <1>1, <2>1, <2>2 DEF Bank
<1> QED
  BY <1>3, <1>4

LEMMA LedgerWriteType ==
    ASSUME LedgerTypeOK, NEW c \in LedgerCalls, LedgerWrite(c)
    PROVE  LedgerTypeOK'
<1> USE DEF LedgerTypeOK
<1>1. CASE c.op = "Settle"
  <2>1. SettleWrite(c)
    BY <1>1 DEF LedgerWrite, TxOps, TransferOps, InvoiceOps, ExpenseOps
  <2>2. Terms(c) \in Evidence
    <3>1. c.amount \in 0..MaxAmount
      BY <1>1, SettleFields, LedgerAssumption DEF Amounts
    <3> QED
      BY <1>1, <3>1, SettleFields DEF Terms, Evidence
  <2>3. match' \in [Matches -> Evidence]
    BY <2>1, <2>2 DEF SettleWrite
  <2>4. tx' \in [Transactions -> Bank]
    BY <2>1, ReviewedType DEF SettleWrite
  <2> QED
    BY <2>1, <2>3, <2>4 DEF SettleWrite
<1>2. CASE c.op = "Unsettle"
  <2>1. UnsettleWrite(c)
    BY <1>2 DEF LedgerWrite, TxOps, TransferOps, InvoiceOps, ExpenseOps
  <2>2. match' \in [Matches -> Evidence]
    <3>1. \A old \in Evidence : [old EXCEPT !.status = "REVERSED"] \in Evidence
      BY DEF Evidence
    <3>2. match' = [match EXCEPT ![c.match] = [@ EXCEPT !.status = "REVERSED"]]
      BY <2>1 DEF UnsettleWrite
    <3> QED
      BY <3>1, <3>2
  <2>3. tx' \in [Transactions -> Bank]
    BY <2>1, ReviewedType DEF UnsettleWrite
  <2> QED
    BY <2>1, <2>2, <2>3 DEF UnsettleWrite
<1>3. CASE c.op \in TxOps
  <2>1. TxWrite(c)
    BY <1>3 DEF LedgerWrite, TxOps, TransferOps, InvoiceOps, ExpenseOps
  <2>2. tx' \in [Transactions -> Bank]
    <3> DEFINE old == tx[c.tx]
    <3>1. c.tx \in Transactions /\ old \in Bank
      BY <1>3, TxFields
    <3>2. \A new \in Bank : [tx EXCEPT ![c.tx] = new] \in [Transactions -> Bank]
      OBVIOUS
    <3>3. CASE c.op = "CorrectTx"
      <4>1. tx' = [tx EXCEPT ![c.tx] = [old EXCEPT !.amount = c.amount, !.direction = c.direction]]
        BY <2>1, <3>3 DEF TxWrite
      <4>2. [old EXCEPT !.amount = c.amount, !.direction = c.direction] \in Bank
        BY <1>3, <3>1, <3>3, TxFields DEF Bank
      <4> QED
        BY <3>2, <4>1, <4>2
    <3>4. CASE c.op = "ReverseTx"
      <4>1. tx' = [tx EXCEPT ![c.tx] = [old EXCEPT !.status = "REVERSED", !.review = "UNMATCHED"]]
        BY <2>1, <3>4 DEF TxWrite
      <4>2. [old EXCEPT !.status = "REVERSED", !.review = "UNMATCHED"] \in Bank
        BY <3>1 DEF Bank
      <4> QED
        BY <3>2, <4>1, <4>2
    <3>5. CASE c.op = "IgnoreTx"
      <4>1. tx' = [tx EXCEPT ![c.tx] = [old EXCEPT !.review = "IGNORED"]]
        BY <2>1, <3>5 DEF TxWrite
      <4>2. [old EXCEPT !.review = "IGNORED"] \in Bank
        BY <3>1 DEF Bank
      <4> QED
        BY <3>2, <4>1, <4>2
    <3>6. CASE c.op = "RestoreTx"
      <4>1. tx' = [tx EXCEPT ![c.tx] = [old EXCEPT !.review = "UNMATCHED"]]
        BY <2>1, <3>6 DEF TxWrite
      <4>2. [old EXCEPT !.review = "UNMATCHED"] \in Bank
        BY <3>1 DEF Bank
      <4> QED
        BY <3>2, <4>1, <4>2
    <3> QED
      BY <1>3, <3>3, <3>4, <3>5, <3>6 DEF TxOps
  <2> QED
    BY <2>1, <2>2 DEF TxWrite
<1>4. CASE c.op \in TransferOps
  <2>1. TransferWrite(c)
    BY <1>4 DEF LedgerWrite, TxOps, TransferOps, InvoiceOps, ExpenseOps
  <2>2. tx' \in [Transactions -> Bank]
    <3>1. c.group \in Groups
      BY <1>4, TransferFields
    <3>2. ASSUME NEW t \in Transactions PROVE tx'[t] \in Bank
      <4> DEFINE group == IF c.op = "Transfer" THEN c.group ELSE None
                 review == IF c.op = "Transfer" THEN "MATCHED" ELSE "UNMATCHED"
      <4>1. \/ tx'[t] = tx[t]
            \/ tx'[t] = [tx[t] EXCEPT !.group = group, !.review = review]
        BY <2>1 DEF TransferWrite
      <4>2. group \in Groups \cup {None} /\ review \in {"UNMATCHED", "MATCHED"}
        BY <3>1
      <4>3. tx[t] \in Bank
        OBVIOUS
      <4> HIDE DEF group, review
      <4> QED
        BY <4>1, <4>2, <4>3 DEF Bank
    <3> QED
      BY <2>1, <3>2 DEF TransferWrite
  <2>3. match' \in [Matches -> Evidence]
    <3> DEFINE g == c.group
               new == [txs |-> {Pair[g][1], Pair[g][2]}, kind |-> "TRANSFER", target |-> None,
                       amount |-> tx[Pair[g][1]].amount, status |-> "CONFIRMED"]
    <3>1. tx[Pair[g][1]].amount \in 0..MaxAmount
      <4>1. Pair[g][1] \in Transactions
        BY <1>4, TransferFields
      <4>2. tx[Pair[g][1]] \in Bank
        BY <4>1
      <4>3. tx[Pair[g][1]].amount \in Amounts
        BY <4>2 DEF Bank
      <4> QED
        BY <4>3, LedgerAssumption DEF Amounts
    <3>2. new \in Evidence
      BY <1>4, <3>1, TransferFields DEF Evidence
    <3>3. \A m \in Matches : [match[m] EXCEPT !.status = "REVERSED"] \in Evidence
      BY DEF Evidence
    <3>4. match' = [match EXCEPT ![g] = IF c.op = "Transfer" THEN new ELSE [@ EXCEPT !.status = "REVERSED"]]
      BY <2>1 DEF TransferWrite
    <3>5. g \in Matches
      BY <1>4, TransferFields DEF Matches
    <3> HIDE DEF new
    <3> QED
      BY <3>2, <3>3, <3>4, <3>5
  <2> QED
    BY <2>1, <2>2, <2>3 DEF TransferWrite
<1>5. CASE c.op = "Verify"
  <2>1. VerifyWrite(c)
    BY <1>5 DEF LedgerWrite, TxOps, TransferOps, InvoiceOps, ExpenseOps
  <2>2. c.invoice \in Invoices
    BY <1>5 DEF LedgerCalls
  <2>3. invoice' \in [Invoices -> Payables]
    <3>1. \A p \in Payables : [[p EXCEPT !.review = "VERIFIED"] EXCEPT !.verified = TRUE] \in Payables
      BY DEF Payables
    <3>2. invoice' = [invoice EXCEPT ![c.invoice] =
                        [[@ EXCEPT !.review = "VERIFIED"] EXCEPT !.verified = TRUE]]
      BY <2>1, <2>2 DEF VerifyWrite
    <3> QED
      BY <3>1, <3>2
  <2>4. expense' \in [Expenses -> Costs]
    <3>1. ASSUME NEW e \in Expenses PROVE expense'[e] \in Costs
      BY <2>1, <2>2 DEF VerifyWrite, Costs, Payables
    <3> QED
      BY <2>1, <3>1 DEF VerifyWrite
  <2> QED
    BY <2>1, <2>3, <2>4 DEF VerifyWrite
<1>6. CASE c.op \in InvoiceOps
  <2>1. InvoiceWrite(c)
    BY <1>6 DEF LedgerWrite, TxOps, TransferOps, InvoiceOps, ExpenseOps
  <2>2. c.op = "EditInvoice" => c.total \in Amounts
    BY EditFields
  <2>3. \A p \in Payables :
           /\ [p EXCEPT !.life = "VOID"] \in Payables
           /\ [p EXCEPT !.life = "GONE"] \in Payables
           /\ [p EXCEPT !.review = "NEEDS_REVIEW"] \in Payables
           /\ \A n \in Amounts : [p EXCEPT !.total = n] \in Payables
    BY DEF Payables
  <2>4. c.op \notin {"VoidInvoice", "DeleteInvoice", "Reopen"} => c.op = "EditInvoice"
    BY <1>6 DEF InvoiceOps
  <2>5. \E p \in Payables : invoice' = [invoice EXCEPT ![c.invoice] = p]
    <3>1. c.invoice \in Invoices
      BY <1>6 DEF LedgerCalls, InvoiceOps
    <3>2. invoice[c.invoice] \in Payables
      BY <3>1
    <3> QED
      BY <2>1, <2>2, <2>3, <2>4, <3>2 DEF InvoiceWrite
  <2>6. invoice' \in [Invoices -> Payables]
    BY <2>5
  <2> QED
    BY <2>1, <2>6 DEF InvoiceWrite
<1>7. CASE c.op \in ExpenseOps
  <2>1. ExpenseWrite(c)
    BY <1>7 DEF LedgerWrite, TxOps, TransferOps, InvoiceOps, ExpenseOps
  <2>2. expense' \in [Expenses -> Costs]
    BY <1>7, <2>1, ExpenseFields DEF ExpenseWrite, Costs, ExpenseOps
  <2> QED
    BY <2>1, <2>2 DEF ExpenseWrite
<1> QED
  BY <1>1, <1>2, <1>3, <1>4, <1>5, <1>6, <1>7 DEF LedgerWrite

LEMMA SavedRow ==
    ASSUME NEW old \in OrderRows, NEW q \in 0..MaxAmount, NEW v \in Nat
    PROVE  [old EXCEPT !.quantity = q, !.version = v] \in OrderRows
<1> DEFINE half == [old EXCEPT !.quantity = q]
<1>1. half \in OrderRows
  BY DEF OrderRows
<1>2. [half EXCEPT !.version = v] \in OrderRows
  <2> HIDE DEF half
  <2> QED
    BY <1>1 DEF OrderRows
<1> QED
  BY <1>2

LEMMA OrderWriteType ==
    ASSUME OrderTypeOK, NEW c \in OrderCalls, OrderWrite(c)
    PROVE  OrderTypeOK'
<1> USE DEF OrderTypeOK
<1>1. CASE c.op \in {"Receive", "VoidReceipt"}
  <2>1. ReceiptWrite(c)
    BY <1>1 DEF OrderWrite, HeaderOps
  <2>2. receipt' \in [Receipts -> ReceiptRows]
    <3>1. CASE c.op = "Receive"
      <4>1. c.quantity \in 0..MaxAmount
        BY <3>1, ReceiveFields, LedgerAssumption DEF Amounts
      <4> QED
        BY <2>1, <3>1, <4>1, ReceiveFields DEF ReceiptWrite, ReceiptRows
    <3>2. CASE c.op = "VoidReceipt"
      BY <2>1, <3>2 DEF ReceiptWrite, ReceiptRows
    <3> QED
      BY <1>1, <3>1, <3>2
  <2> QED
    BY <2>1, <2>2 DEF ReceiptWrite
<1>2. CASE c.op \in {"MatchOrder", "UnmatchOrder"}
  <2>1. BillWrite(c)
    BY <1>2 DEF OrderWrite, HeaderOps
  <2>2. bills' \in Seq(Bills)
    <3>1. CASE c.op = "MatchOrder"
      <4>1. [status |-> "CONFIRMED", invoice |-> c.invoice, order |-> c.order, amount |-> c.amount] \in Bills
        BY <3>1, MatchFields DEF Bills
      <4> QED
        BY <2>1, <3>1, <4>1 DEF BillWrite
    <3>2. CASE c.op = "UnmatchOrder"
      <4>1. bills' = [bills EXCEPT ![c.bill].status = "UNMATCHED"]
        BY <2>1, <3>2 DEF BillWrite
      <4>2. bills \in [1..Len(bills) -> Bills] /\ Len(bills) \in Nat
        OBVIOUS
      <4>3. \A b \in Bills : [b EXCEPT !.status = "UNMATCHED"] \in Bills
        BY DEF Bills
      <4>4. bills' \in [1..Len(bills) -> Bills]
        BY <4>1, <4>2, <4>3
      <4> QED
        BY <4>2, <4>4
    <3> QED
      BY <1>2, <3>1, <3>2
  <2> QED
    BY <2>1, <2>2 DEF BillWrite
<1>3. CASE c.op \in HeaderOps
  <2>1. HeaderWrite(c)
    BY <1>3 DEF OrderWrite, HeaderOps
  <2>2. order' \in [Orders -> OrderRows]
    <3> DEFINE old == order[c.order]
    <3>1. c.order \in Orders /\ old \in OrderRows
      BY <1>3, HeaderFields
    <3>2. \A new \in OrderRows : [order EXCEPT ![c.order] = new] \in [Orders -> OrderRows]
      OBVIOUS
    <3>3. CASE c.op = "CreateOrder"
      <4>1. order' = [order EXCEPT ![c.order] = [status |-> "DRAFT", quantity |-> c.quantity, version |-> 1]]
        BY <2>1, <3>3 DEF HeaderWrite
      <4>2. [status |-> "DRAFT", quantity |-> c.quantity, version |-> 1] \in OrderRows
        BY <1>3, <3>3, HeaderFields DEF OrderRows, Progress
      <4> QED
        BY <3>2, <4>1, <4>2
    <3>4. CASE c.op = "SaveOrder"
      <4>1. order' = [order EXCEPT ![c.order] = [old EXCEPT !.quantity = c.quantity, !.version = old.version + 1]]
        BY <2>1, <3>4 DEF HeaderWrite
      <4>2. c.quantity \in 0..MaxAmount
        BY <1>3, <3>4, HeaderFields
      <4>3. old.version \in Nat
        BY <3>1 DEF OrderRows
      <4>4. old.version + 1 \in Nat
        BY <4>3
      <4>5. [old EXCEPT !.quantity = c.quantity, !.version = old.version + 1] \in OrderRows
        BY <3>1, <4>2, <4>4, SavedRow
      <4> QED
        BY <3>2, <4>1, <4>5
    <3>5. CASE c.op = "Transition"
      <4>1. order' = [order EXCEPT ![c.order] = [old EXCEPT !.status = c.to]]
        BY <2>1, <3>5 DEF HeaderWrite
      <4>2. [old EXCEPT !.status = c.to] \in OrderRows
        BY <1>3, <3>1, <3>5, HeaderFields DEF OrderRows
      <4> QED
        BY <3>2, <4>1, <4>2
    <3>6. CASE c.op = "DeleteOrder"
      <4>1. order' = [order EXCEPT ![c.order] = [old EXCEPT !.status = "NONE"]]
        BY <2>1, <3>6 DEF HeaderWrite
      <4>2. [old EXCEPT !.status = "NONE"] \in OrderRows
        BY <3>1 DEF OrderRows, Progress
      <4> QED
        BY <3>2, <4>1, <4>2
    <3> QED
      BY <1>3, <3>3, <3>4, <3>5, <3>6 DEF HeaderOps
  <2> QED
    BY <2>1, <2>2 DEF HeaderWrite
<1> QED
  BY <1>1, <1>2, <1>3 DEF OrderWrite

LEMMA StockWriteType ==
    ASSUME StockTypeOK, NEW c \in StockCalls, StockWrite(c)
    PROVE  StockTypeOK'
<1> USE DEF StockTypeOK
<1>1. CASE c.op = "Move"
  <2>1. FullTerms(c) \in Movements(Kinds)
    <3>1. CASE c.terms.kind = "REVERSAL"
      <4>1. movement[c.terms.reverses] \in Movements(Kinds \cup {"NONE"})
        BY <1>1, <3>1, StockFields
      <4> QED
        BY <1>1, <3>1, <4>1, StockFields DEF FullTerms, Movements
    <3>2. CASE c.terms.kind # "REVERSAL"
      BY <1>1, <3>2, StockFields DEF FullTerms
    <3> QED
      BY <3>1, <3>2
  <2>2. Movements(Kinds) \subseteq Movements(Kinds \cup {"NONE"})
    BY DEF Movements
  <2>3. movement' = [movement EXCEPT ![c.key] = FullTerms(c)] /\ UNCHANGED item
    BY <1>1 DEF StockWrite
  <2> QED
    BY <2>1, <2>2, <2>3
<1>2. CASE c.op # "Move"
  BY <1>2, StockFields DEF StockWrite
<1> QED
  BY <1>1, <1>2

(* Each kind of write is that of a call of its kind.                       *)
LEMMA WritesAreOfAKind ==
    ASSUME NEW c \in Calls
    PROVE  /\ LedgerWrite(c) => c \in LedgerCalls
           /\ OrderWrite(c) => c \in OrderCalls
           /\ StockWrite(c) => c \in StockCalls
<1>1. LedgerWrite(c) => c.op \notin OrderOps \cup StockOps
  BY DEF LedgerWrite, TxOps, TransferOps, InvoiceOps, ExpenseOps, OrderOps, HeaderOps, StockOps
<1>2. OrderWrite(c) => c.op \in OrderOps
  BY DEF OrderWrite, OrderOps
<1>3. StockWrite(c) => c.op \in StockOps
  BY DEF StockWrite, StockOps
<1> QED
  BY <1>1, <1>2, <1>3, CallsAreOfAKind

SessionStep(s) ==
    Begin(s) \/ Pass(s) \/ Lock(s) \/ Skip(s) \/ Raise(s) \/ Answer(s)
    \/ Collide(s) \/ Commit(s) \/ EndDeadlock(s)

LEMMA CommitType ==
    ASSUME TypeOK, NEW s \in Sessions, Commit(s)
    PROVE  /\ LedgerTypeOK' /\ OrderTypeOK' /\ StockTypeOK'
           /\ call[s] \in Calls
<1>1. LedgerTypeOK /\ OrderTypeOK /\ StockTypeOK
  BY DEF TypeOK
<1>2. call[s] \in Calls /\ Write(call[s])
  BY DEF TypeOK, Commit, Writing
<1>3. CASE LedgerWrite(call[s]) /\ UNCHANGED <<orders, stock>>
  <2>1. LedgerTypeOK'
    BY <1>1, <1>2, <1>3, WritesAreOfAKind, LedgerWriteType
  <2>2. OrderTypeOK' /\ StockTypeOK'
    BY <1>1, <1>3 DEF OrderTypeOK, StockTypeOK, orders, stock
  <2> QED
    BY <1>2, <2>1, <2>2
<1>4. CASE OrderWrite(call[s]) /\ UNCHANGED <<ledger, stock>>
  <2>1. OrderTypeOK'
    BY <1>1, <1>2, <1>4, WritesAreOfAKind, OrderWriteType
  <2>2. LedgerTypeOK' /\ StockTypeOK'
    BY <1>1, <1>4 DEF LedgerTypeOK, StockTypeOK, ledger, stock
  <2> QED
    BY <1>2, <2>1, <2>2
<1>5. CASE StockWrite(call[s]) /\ UNCHANGED <<ledger, orders>>
  <2>1. StockTypeOK'
    BY <1>1, <1>2, <1>5, WritesAreOfAKind, StockWriteType
  <2>2. LedgerTypeOK' /\ OrderTypeOK'
    BY <1>1, <1>5 DEF LedgerTypeOK, OrderTypeOK, ledger, orders
  <2> QED
    BY <1>2, <2>1, <2>2
<1> QED
  BY <1>2, <1>3, <1>4, <1>5 DEF Write

(* A step that does not write leaves the tables alone.                     *)
LEMMA OnlyCommitsWrite ==
    ASSUME NEW s \in Sessions, SessionStep(s), ~Commit(s)
    PROVE  UNCHANGED tables
BY DEF SessionStep, Begin, Pass, Lock, Skip, Raise, Answer, Collide, EndDeadlock

LEMMA TablesKeepTypes ==
    ASSUME LedgerTypeOK, OrderTypeOK, StockTypeOK, UNCHANGED tables
    PROVE  LedgerTypeOK' /\ OrderTypeOK' /\ StockTypeOK'
BY DEF LedgerTypeOK, OrderTypeOK, StockTypeOK, tables, ledger, orders, stock

LEMMA TypeStep ==
    ASSUME TypeOK, [Next]_vars
    PROVE  TypeOK'
<1>1. LedgerTypeOK /\ OrderTypeOK /\ StockTypeOK
  BY DEF TypeOK
<1>2. ASSUME NEW s \in Sessions, SessionStep(s)
      PROVE  TypeOK'
  <2>1. LedgerTypeOK' /\ OrderTypeOK' /\ StockTypeOK'
    BY <1>1, <1>2, CommitType, OnlyCommitsWrite, TablesKeepTypes
  <2>2. CASE Begin(s)
    <3>1. PICK c \in workload : call' = [call EXCEPT ![s] = c]
      BY <2>2 DEF Begin
    <3>2. c \in Calls
      BY DatabaseAssumption DEF TypeOK
    <3>3. call' \in [Sessions -> Calls \cup {None}]
      BY <3>1, <3>2 DEF TypeOK
    <3>4. calls' \in 0..MaxCalls
      BY <2>2, DatabaseAssumption DEF Begin, TypeOK
    <3> QED
      BY <2>1, <2>2, <3>3, <3>4 DEF Begin, TypeOK
  <2>3. CASE Pass(s)
    BY <2>1, <2>3 DEF Pass, TypeOK
  <2>4. CASE Lock(s)
    <3>1. at' \in [Sessions -> Nat] /\ passed' \in [Sessions -> BOOLEAN]
      BY <2>4 DEF Lock, TypeOK
    <3> QED
      BY <2>1, <2>4, <3>1 DEF Lock, TypeOK
  <2>5. CASE Skip(s)
    <3>1. at' \in [Sessions -> Nat]
      BY <2>5 DEF Skip, TypeOK
    <3> QED
      BY <2>1, <2>5, <3>1 DEF Skip, TypeOK
  <2>6. CASE Finish(s)
    BY <2>1, <2>6 DEF Finish, TypeOK
  <2> QED
    BY <1>2, <2>2, <2>3, <2>4, <2>5, <2>6 DEF SessionStep, Raise, Answer, Collide, Commit, EndDeadlock
<1>3. CASE UNCHANGED vars
  <2>1. LedgerTypeOK' /\ OrderTypeOK' /\ StockTypeOK'
    BY <1>1, <1>3, TablesKeepTypes DEF vars
  <2> QED
    BY <1>3, <2>1 DEF TypeOK, vars, sessions
<1> QED
  BY <1>2, <1>3 DEF Next, SessionStep, Done

LEMMA TypeInit ==
    ASSUME Init
    PROVE  TypeOK
<1>1. LedgerTypeOK
  <2>1. tx \in [Transactions -> Bank]
    BY LedgerAssumption DEF Init, LedgerInit, Bank
  <2>2. match \in [Matches -> Evidence]
    <3>1. 0 \in 0..MaxAmount
      BY LedgerAssumption
    <3>2. NoMatch \in Evidence
      BY <3>1 DEF NoMatch, Evidence
    <3> QED
      BY <3>2 DEF Init, LedgerInit
  <2>3. invoice \in [Invoices -> Payables]
    BY LedgerAssumption DEF Init, LedgerInit, Payables
  <2>4. expense \in [Expenses -> Costs]
    <3>1. SUFFICES ASSUME NEW e \in Expenses PROVE 1 \in Amounts
      BY DEF Init, LedgerInit, Costs
    <3> QED
      BY LedgerAssumption DEF Amounts
  <2> QED
    BY <2>1, <2>2, <2>3, <2>4 DEF LedgerTypeOK
<1>2. OrderTypeOK
  <2>1. order \in [Orders -> OrderRows]
    <3>1. \A o \in DOMAIN Ordered : Ordered[o] \in 0..MaxAmount
      <4>1. PICK issued \in SUBSET Orders : Ordered \in [issued -> Amounts]
        BY OrderAssumption
      <4> QED
        BY <4>1, LedgerAssumption DEF Amounts
    <3>2. 0 \in 0..MaxAmount
      BY LedgerAssumption
    <3>3. ASSUME NEW o \in Orders PROVE order[o] \in OrderRows
      <4>1. CASE o \in DOMAIN Ordered
        <5>1. order[o] = [status |-> "ISSUED", quantity |-> Ordered[o], version |-> 1]
          BY <4>1 DEF Init, OrderInit
        <5> QED
          BY <3>1, <4>1, <5>1 DEF OrderRows, Progress
      <4>2. CASE o \notin DOMAIN Ordered
        <5>1. order[o] = [status |-> "NONE", quantity |-> 0, version |-> 0]
          BY <4>2 DEF Init, OrderInit
        <5> QED
          BY <3>2, <5>1 DEF OrderRows, Progress
      <4> QED
        BY <4>1, <4>2
    <3> QED
      BY <3>3 DEF Init, OrderInit
  <2>2. receipt \in [Receipts -> ReceiptRows]
    <3>1. NoReceipt \in ReceiptRows
      BY LedgerAssumption DEF NoReceipt, ReceiptRows
    <3> QED
      BY <3>1 DEF Init, OrderInit
  <2> QED
    BY <2>1, <2>2 DEF Init, OrderInit, OrderTypeOK
<1>3. StockTypeOK
  <2>1. NoMovement \in Movements(Kinds \cup {"NONE"})
    BY LedgerAssumption DEF NoMovement, Movements
  <2> QED
    BY <2>1 DEF Init, StockInit, StockTypeOK
<1> QED
  BY <1>1, <1>2, <1>3, DatabaseAssumption DEF Init, TypeOK

(* The tables, the sessions and their calls are always what TypeOK says.   *)
THEOREM TypesAreKept == Spec => []TypeOK
<1>1. Init => TypeOK
  BY TypeInit
<1>2. TypeOK /\ [Next]_vars => TypeOK'
  BY TypeStep
<1> QED
  BY <1>1, <1>2, PTL DEF Spec

(***************************************************************************)
(* Locks.                                                                  *)
(***************************************************************************)
LEMMA OrderIsLockedFirst ==
    ASSUME NEW c, c.op \in OwnOrder
    PROVE  /\ Plan(c)[1] = ForUpdate("orders", c.order)
           /\ c.op = "Receive" => Len(Plan(c)) = 3 /\ Plan(c)[3] = ForUpdate("lines", c.order)
           /\ c.op # "Receive" => Len(Plan(c)) = 1
<1>1. c.op \in OrderOps /\ c.op \notin {"CreateOrder", "VoidReceipt", "MatchOrder", "UnmatchOrder"}
  BY DEF OwnOrder, OrderOps, HeaderOps
<1>2. Plan(c) = OrderPlan(c)
  BY DEF Plan, OwnOrder, OrderOps, HeaderOps, StockOps
<1>3. CASE c.op = "Receive"
  <2>1. Plan(c) = ReceivePlan(c)
    BY <1>2, <1>3 DEF OrderPlan
  <2> QED
    BY <1>3, <2>1 DEF ReceivePlan
<1>4. CASE c.op # "Receive"
  <2>1. Plan(c) = <<ForUpdate("orders", c.order)>>
    BY <1>1, <1>2, <1>4 DEF OrderPlan
  <2> QED
    BY <1>4, <2>1
<1> QED
  BY <1>3, <1>4

LEMMA TxIsLockedFirst ==
    ASSUME NEW c, c.op \in OwnTx
    PROVE  /\ Plan(c)[1] = ForUpdate("transactions", c.tx)
           /\ c.op = "Settle" => Plan(c) = SettlePlan(c)
           /\ c.op # "Settle" => Len(Plan(c)) = 1
<1>1. c.op \notin OrderOps \cup StockOps
  BY DEF OwnTx, TxOps, OrderOps, HeaderOps, StockOps
<1>2. Plan(c) = LedgerPlan(c)
  BY <1>1 DEF Plan
<1>3. CASE c.op = "Settle"
  <2>1. Plan(c) = SettlePlan(c)
    BY <1>2, <1>3 DEF LedgerPlan, TxOps, TransferOps, InvoiceOps
  <2> QED
    BY <1>3, <2>1 DEF SettlePlan, TxPlan
<1>4. CASE c.op # "Settle"
  <2>1. c.op \in TxOps /\ c.op # "Unsettle"
    BY <1>4 DEF OwnTx, TxOps
  <2>2. Plan(c) = TxPlan(c)
    BY <1>2, <1>4, <2>1 DEF LedgerPlan, TxOps, TransferOps, InvoiceOps
  <2> QED
    BY <1>4, <2>2 DEF TxPlan
<1> QED
  BY <1>3, <1>4

LEMMA PairIsLocked ==
    ASSUME NEW c, c.op \in TransferOps
    PROVE  Plan(c) = TransferPlan(c) /\ Len(Plan(c)) = 2
<1>1. c.op \notin OrderOps \cup StockOps \cup TxOps \cup {"Settle", "Unsettle"}
  BY DEF TransferOps, TxOps, OrderOps, HeaderOps, StockOps
<1>2. Plan(c) = TransferPlan(c)
  BY DEF Plan, LedgerPlan, TransferOps, TxOps, OrderOps, HeaderOps, StockOps, InvoiceOps
<1> QED
  BY <1>2 DEF TransferPlan

(* A query that finds nothing is none of those that lock the order, the    *)
(* transaction or the pair.                                                *)
LEMMA SkipsNoLock ==
    ASSUME TypeOK, NEW s \in Sessions, Skip(s)
    PROVE  /\ call[s].op \in OwnOrder => at[s] = 1 /\ call[s].op = "Receive"
           /\ call[s].op \notin OwnTx /\ call[s].op \notin TransferOps
<1> DEFINE c == call[s]
<1>1. at[s] \in Nat /\ at[s] < Len(Plan(c)) /\ Plan(c)[at[s] + 1] = Nothing
  BY DEF Skip, Locking, NextRow, TypeOK
<1>2. \A table, key : table # "none" => ForUpdate(table, key) # Nothing
  BY DEF ForUpdate, Nothing
<1>3. c.op \in OwnOrder => at[s] = 1 /\ c.op = "Receive"
  <2>1. SUFFICES ASSUME c.op \in OwnOrder PROVE at[s] = 1 /\ c.op = "Receive"
    OBVIOUS
  <2>2. Plan(c)[1] # Nothing /\ (c.op = "Receive" => Plan(c)[3] # Nothing)
    BY <1>2, <2>1, OrderIsLockedFirst
  <2>3. at[s] # 0
    BY <1>1, <2>2
  <2>4. c.op = "Receive"
    BY <1>1, <2>1, <2>3, OrderIsLockedFirst
  <2>5. Len(Plan(c)) = 3
    BY <2>1, <2>4, OrderIsLockedFirst
  <2>6. at[s] # 2
    BY <1>1, <2>2, <2>4
  <2> QED
    BY <1>1, <2>3, <2>4, <2>5, <2>6
<1>4. c.op \notin OwnTx
  <2>1. SUFFICES ASSUME c.op \in OwnTx PROVE FALSE
    OBVIOUS
  <2>2. Plan(c)[1] # Nothing
    BY <1>2, <2>1, TxIsLockedFirst
  <2>3. at[s] # 0
    BY <1>1, <2>2
  <2>4. c.op = "Settle"
    BY <1>1, <2>1, <2>3, TxIsLockedFirst
  <2>5. Plan(c) = SettlePlan(c)
    BY <2>1, <2>4, TxIsLockedFirst
  <2>6. Plan(c)[2] # Nothing /\ Len(Plan(c)) \in {2, 3} /\ (Len(Plan(c)) = 3 => Plan(c)[3] # Nothing)
    BY <1>2, <2>5 DEF SettlePlan, TargetRow
  <2> QED
    BY <1>1, <2>3, <2>6
<1>5. c.op \notin TransferOps
  <2>1. SUFFICES ASSUME c.op \in TransferOps PROVE FALSE
    OBVIOUS
  <2>2. Plan(c)[1] # Nothing /\ Plan(c)[2] # Nothing
    BY <1>2, <2>1, PairIsLocked DEF TransferPlan
  <2> QED
    BY <1>1, <2>1, <2>2, PairIsLocked
<1> QED
  BY <1>3, <1>4, <1>5

LEMMA ConflictIsMutual ==
    ASSUME NEW g, NEW h, Conflict(g, h)
    PROVE  Conflict(h, g)
BY DEF Conflict

(* A session that goes on keeps its locks and may take one more, one that  *)
(* ends gives them up; the others do not move.                             *)
Advances(s) ==
    /\ call'[s] = call[s] /\ held'[s] = held[s]
    /\ at'[s] = at[s]
Locks(s) ==
    /\ call'[s] = call[s] /\ at[s] < Len(Plan(call[s])) /\ at'[s] = at[s] + 1 /\ ~passed'[s]
    /\ held'[s] = held[s] \cup {Plan(call[s])[at[s] + 1]}
    /\ \A t \in Sessions \ {s} : \A h \in held[t] : ~Conflict(h, Plan(call[s])[at[s] + 1])
Skips(s) ==
    /\ call'[s] = call[s] /\ held'[s] = held[s] /\ at'[s] = at[s] + 1 /\ passed'[s] = passed[s]
Starts(s) ==
    /\ call[s] = None /\ at'[s] = at[s] /\ passed'[s] = passed[s] /\ held'[s] = held[s]
Ends(s) ==
    /\ call'[s] = None /\ at'[s] = 0 /\ ~passed'[s] /\ held'[s] = {}
Rests(s) ==
    /\ call'[s] = call[s] /\ at'[s] = at[s] /\ passed'[s] = passed[s] /\ held'[s] = held[s]

LEMMA OneSessionMoves ==
    ASSUME TypeOK, IdleHoldsNothing, NEW s \in Sessions, SessionStep(s)
    PROVE  /\ \A t \in Sessions \ {s} : Rests(t)
           /\ held' = [t \in Sessions |-> held'[t]]
           /\ \/ Starts(s) /\ Begin(s)
              \/ Advances(s) /\ Pass(s)
              \/ Locks(s) /\ Lock(s)
              \/ Skips(s) /\ Skip(s)
              \/ Ends(s)
<1> USE DEF TypeOK, IdleHoldsNothing, Rests
<1>1. CASE Begin(s)
  BY <1>1 DEF Begin, Starts
<1>2. CASE Pass(s)
  BY <1>2 DEF Pass, Advances
<1>3. CASE Lock(s)
  <2>1. Wants[s] # {}
    BY <1>3 DEF Lock
  <2>2. Locking(s)
    BY <2>1 DEF Wants, Asks
  <2> QED
    BY <1>3, <2>2 DEF Lock, Locks, NextRow, Free, Locking
<1>4. CASE Skip(s)
  BY <1>4 DEF Skip, Skips
<1>5. CASE Finish(s)
  BY <1>5 DEF Finish, Ends
<1> QED
  BY <1>1, <1>2, <1>3, <1>4, <1>5 DEF SessionStep, Raise, Answer, Collide, Commit, EndDeadlock

LEMMA LockedStep ==
    ASSUME TypeOK, Locked, [Next]_vars
    PROVE  Locked'
<1>1. ASSUME NEW s \in Sessions, SessionStep(s)
      PROVE  Locked'
  <2>1. IdleHoldsNothing /\ LocksExclude
    BY DEF Locked
  <2>2. \A t \in Sessions \ {s} : Rests(t)
    BY <1>1, <2>1, OneSessionMoves
  <2>3. \/ Starts(s) /\ Begin(s)
        \/ Advances(s) /\ Pass(s)
        \/ Locks(s) /\ Lock(s)
        \/ Skips(s) /\ Skip(s)
        \/ Ends(s)
    BY <1>1, <2>1, OneSessionMoves
  <2>4. at[s] \in Nat /\ (call[s] # None => call[s] \in Calls)
    BY DEF TypeOK
  <2>5. IdleHoldsNothing'
    <3>1. held' = [t \in Sessions |-> held'[t]]
      BY <1>1, <2>1, OneSessionMoves
    <3>2. call'[s] = None => at'[s] = 0 /\ ~passed'[s] /\ held'[s] = {}
      BY <2>1, <2>3 DEF Starts, Advances, Locks, Skips, Ends, IdleHoldsNothing, Pass, Checking, Lock,
                        Locking, Skip, Wants, Asks
    <3>3. \A t \in Sessions \ {s} : call'[t] = None => at'[t] = 0 /\ ~passed'[t] /\ held'[t] = {}
      BY <2>1, <2>2 DEF Rests, IdleHoldsNothing
    <3> QED
      BY <3>1, <3>2, <3>3 DEF IdleHoldsNothing
  <2>6. LocksExclude'
    <3>1. SUFFICES ASSUME NEW t \in Sessions, NEW u \in Sessions, t # u,
                          NEW g \in held'[t], NEW h \in held'[u]
                   PROVE  ~Conflict(g, h)
      BY DEF LocksExclude
    <3>2. \A v \in Sessions \ {s} : held'[v] = held[v]
      BY <2>2 DEF Rests
    <3>3. CASE Locks(s)
      <4> DEFINE row == Plan(call[s])[at[s] + 1]
      <4>1. held'[s] = held[s] \cup {row} /\ \A v \in Sessions \ {s} : \A k \in held[v] : ~Conflict(k, row)
        BY <3>3 DEF Locks
      <4> HIDE DEF row
      <4>2. CASE t = s /\ g = row
        BY <3>1, <3>2, <4>1, <4>2, ConflictIsMutual
      <4>3. CASE u = s /\ h = row
        BY <3>1, <3>2, <4>1, <4>3
      <4>4. CASE ~(t = s /\ g = row) /\ ~(u = s /\ h = row)
        BY <2>1, <3>1, <3>2, <4>1, <4>4 DEF LocksExclude
      <4> QED
        BY <4>2, <4>3, <4>4
    <3>4. CASE held'[s] = held[s]
      BY <2>1, <3>1, <3>2, <3>4 DEF LocksExclude
    <3>5. CASE Ends(s)
      BY <2>1, <3>1, <3>2, <3>5 DEF Ends, LocksExclude
    <3> QED
      BY <2>3, <3>3, <3>4, <3>5 DEF Starts, Advances, Skips
  <2>7. ASSUME NEW t \in Sessions PROVE (OrderLocked(t) /\ TxLocked(t) /\ PairLocked(t))'
    <3>1. OrderLocked(t) /\ TxLocked(t) /\ PairLocked(t)
      BY DEF Locked
    <3>2. CASE t # s
      BY <2>2, <3>1, <3>2 DEF Rests, OrderLocked, TxLocked, PairLocked, TransferPlan
    <3>3. CASE t = s /\ Starts(s)
      BY <2>1, <3>3 DEF Starts, IdleHoldsNothing, OrderLocked, TxLocked, PairLocked
    <3>4. CASE t = s /\ Advances(s)
      BY <3>1, <3>4 DEF Advances, OrderLocked, TxLocked, PairLocked, TransferPlan
    <3>5. CASE t = s /\ Locks(s)
      <4>1. call'[s] = call[s] /\ at'[s] = at[s] + 1 /\ at[s] < Len(Plan(call[s]))
            /\ held'[s] = held[s] \cup {Plan(call[s])[at[s] + 1]}
        BY <3>5 DEF Locks
      <4>2. OrderLocked(s)'
        BY <2>4, <3>1, <3>5, <4>1, OrderIsLockedFirst DEF OrderLocked
      <4>3. TxLocked(s)'
        BY <2>4, <3>1, <3>5, <4>1, TxIsLockedFirst DEF TxLocked
      <4>4. PairLocked(s)'
        <5>1. TransferPlan(call[s])' = TransferPlan(call[s])
          BY <4>1 DEF TransferPlan
        <5>2. SUFFICES ASSUME call[s] # None, call[s].op \in TransferOps
                       PROVE  /\ at'[s] > 0 => TransferPlan(call[s])[1] \in held'[s]
                              /\ at'[s] > 1 => TransferPlan(call[s])[2] \in held'[s]
          BY <4>1, <5>1 DEF PairLocked, TransferPlan
        <5>3. Plan(call[s]) = TransferPlan(call[s]) /\ Len(Plan(call[s])) = 2
          BY <5>2, PairIsLocked
        <5> QED
          BY <2>4, <3>1, <3>5, <4>1, <5>2, <5>3 DEF PairLocked
      <4> QED
        BY <3>5, <4>2, <4>3, <4>4
    <3>6. CASE t = s /\ Skips(s) /\ Skip(s)
      <4>1. /\ call[s].op \in OwnOrder => at[s] = 1 /\ call[s].op = "Receive"
            /\ call[s].op \notin OwnTx /\ call[s].op \notin TransferOps
        BY <3>6, SkipsNoLock
      <4> QED
        BY <3>1, <3>6, <4>1 DEF Skips, OrderLocked, TxLocked, PairLocked
    <3>7. CASE t = s /\ Ends(s)
      BY <3>7 DEF Ends, OrderLocked, TxLocked, PairLocked
    <3> QED
      BY <2>3, <3>2, <3>3, <3>4, <3>5, <3>6, <3>7
  <2> QED
    BY <2>5, <2>6, <2>7 DEF Locked
<1>2. CASE UNCHANGED vars
  BY <1>2 DEF Locked, IdleHoldsNothing, LocksExclude, OrderLocked, TxLocked, PairLocked, TransferPlan,
              vars, sessions
<1> QED
  BY <1>1, <1>2 DEF Next, SessionStep, Done

LEMMA LockedInit ==
    ASSUME Init
    PROVE  Locked
BY DEF Init, Locked, IdleHoldsNothing, LocksExclude, OrderLocked, TxLocked, PairLocked

(* Two transactions never hold row locks that exclude each other.          *)
THEOREM LocksAreExclusive == Spec => []LocksExclude
<1>1. Init => TypeOK /\ Locked
  BY TypeInit, LockedInit
<1>2. TypeOK /\ Locked /\ [Next]_vars => TypeOK' /\ Locked'
  BY TypeStep, LockedStep
<1>3. Locked => LocksExclude
  BY DEF Locked
<1> QED
  BY <1>1, <1>2, <1>3, PTL DEF Spec

(***************************************************************************)
(* Orders and receipts.                                                    *)
(***************************************************************************)
Quantities == [r \in Receipts |-> receipt[r].quantity]

LEMMA ReceivedIsNatural ==
    ASSUME NEW o
    PROVE  IsFiniteSet(ReceiptsOf(o)) /\ Received(o) \in Nat
<1>1. ReceiptsOf(o) \in SUBSET Receipts
  BY DEF ReceiptsOf
<1>2. IsFiniteSet(ReceiptsOf(o))
  BY <1>1, OrderAssumption, FS_Subset
<1> QED
  BY <1>2, LedgerAssumption, SumIsNatural DEF Received

(* Without a new receipt of the order, no more of it has been received.    *)
LEMMA ReceivedShrinks ==
    ASSUME NEW o, ReceiptsOf(o)' \subseteq ReceiptsOf(o),
           \A r \in ReceiptsOf(o)' : receipt'[r].quantity = receipt[r].quantity
    PROVE  Received(o)' <= Received(o)
<1> DEFINE now == [r \in Receipts |-> receipt'[r].quantity]
           S == ReceiptsOf(o)'
<1>1. IsFiniteSet(ReceiptsOf(o)) /\ S \in SUBSET ReceiptsOf(o)
  BY ReceivedIsNatural
<1>2. \A r \in S : now[r] = Quantities[r]
  BY DEF Quantities, ReceiptsOf
<1>3. Received(o)' = SumOf(S, now) /\ Received(o) = SumOf(ReceiptsOf(o), Quantities)
  BY DEF Received, Quantities
<1> HIDE DEF now, S
<1>4. SumOf(S, now) <= SumOf(ReceiptsOf(o), Quantities)
  BY <1>1, <1>2, LedgerAssumption, SumShrinks
<1> QED
  BY <1>3, <1>4

LEMMA ReceivedOfNone ==
    ASSUME NEW o, ReceiptsOf(o) = {}
    PROVE  Received(o) = 0
BY SumOfNone DEF Received

(* Of two sessions only one can be about to write what is locked for it.   *)
LEMMA OneWriterPerOrder ==
    ASSUME TypeOK, Locked, NEW s \in Sessions, NEW t \in Sessions, s # t, Commit(s),
           call[s].op \in OwnOrder, call[t] # None, call[t].op \in OwnOrder, at[t] > 0
    PROVE  call[s].order # call[t].order
<1>1. call[s] # None /\ at[s] > 0
  <2>1. call[s] # None /\ at[s] = Len(Plan(call[s]))
    BY DEF Commit, Writing
  <2>2. Len(Plan(call[s])) # 0
    <3>1. CASE call[s].op = "Receive"
      <4>1. Len(Plan(call[s])) = 3
        BY <3>1, OrderIsLockedFirst
      <4> QED
        BY <4>1
    <3>2. CASE call[s].op # "Receive"
      <4>1. Len(Plan(call[s])) = 1
        BY <3>2, OrderIsLockedFirst
      <4> QED
        BY <4>1
    <3> QED
      BY <3>1, <3>2
  <2>3. at[s] \in Nat
    BY DEF TypeOK
  <2>4. at[s] # 0
    BY <2>1, <2>2, Zenon
  <2> QED
    BY <2>1, <2>3, <2>4
<1>2. ForUpdate("orders", call[s].order) \in held[s] /\ ForUpdate("orders", call[t].order) \in held[t]
  BY <1>1 DEF Locked, OrderLocked
<1>3. ~Conflict(ForUpdate("orders", call[s].order), ForUpdate("orders", call[t].order))
  BY <1>2 DEF Locked, LocksExclude
<1> QED
  BY <1>3 DEF Conflict, ForUpdate

(* What a commit does to orders and receipts.                              *)
LEMMA CommitsOfOrders ==
    ASSUME NEW s \in Sessions, Commit(s), ~(call[s].op \in OrderOps /\ OrderWrite(call[s]))
    PROVE  UNCHANGED <<order, receipt>>
<1>1. Write(call[s])
  BY DEF Commit
<1>2. OrderWrite(call[s]) => call[s].op \in OrderOps
  BY DEF OrderWrite, OrderOps
<1> QED
  BY <1>1, <1>2 DEF Write, orders

(* While a session has an order locked, others leave the order as it is and*)
(* add no receipts to it.                                                  *)
LEMMA LockedOrderStays ==
    ASSUME TypeOK, Locked, NEW s \in Sessions, NEW t \in Sessions, s # t, Commit(s),
           call[t] # None, call[t].op \in OwnOrder, at[t] > 0,
           NEW o, o = call[t].order, order[o].status # "NONE"
    PROVE  order'[o] = order[o] /\ Received(o)' <= Received(o)
<1> DEFINE c == call[s]
<1>1. Received(o) \in Nat
  BY ReceivedIsNatural
<1>2. order \in [Orders -> OrderRows] /\ receipt \in [Receipts -> ReceiptRows]
  BY DEF TypeOK, OrderTypeOK
<1>3. c.op \in OwnOrder => c.order # o
  BY OneWriterPerOrder
<1>4. ~KeyTaken(c)
  BY DEF Commit
<1>5. CASE UNCHANGED <<order, receipt>>
  <2>1. Received(o)' = Received(o)
    BY <1>5 DEF Received, ReceiptsOf
  <2> QED
    BY <1>1, <1>5, <2>1
<1>6. CASE HeaderWrite(c) /\ c.op \in HeaderOps
  <2>1. c.order # o
    BY <1>3, <1>4, <1>6 DEF OwnOrder, HeaderOps, KeyTaken, OrderKeyTaken
  <2>2. order'[o] = order[o]
    BY <1>2, <1>6, <2>1 DEF HeaderWrite
  <2>3. Received(o)' = Received(o)
    BY <1>6 DEF HeaderWrite, Received, ReceiptsOf
  <2> QED
    BY <1>1, <2>2, <2>3
<1>7. CASE ReceiptWrite(c) /\ c.op \in {"Receive", "VoidReceipt"}
  <2>1. c.op = "Receive" => c.order # o
    BY <1>3 DEF OwnOrder
  <2>2. \A r \in Receipts : r # c.receipt => receipt'[r] = receipt[r]
    BY <1>2, <1>7 DEF ReceiptWrite
  <2>3. c.receipt \notin ReceiptsOf(o)'
    BY <1>2, <1>7, <2>1 DEF ReceiptWrite, ReceiptsOf
  <2>4. ReceiptsOf(o)' \subseteq ReceiptsOf(o)
    BY <2>2, <2>3 DEF ReceiptsOf
  <2>5. \A r \in ReceiptsOf(o)' : receipt'[r].quantity = receipt[r].quantity
    BY <2>2, <2>3 DEF ReceiptsOf
  <2>6. Received(o)' <= Received(o)
    BY <2>4, <2>5, ReceivedShrinks
  <2> QED
    BY <1>7, <2>6 DEF ReceiptWrite
<1> QED
  BY <1>5, <1>6, <1>7, CommitsOfOrders DEF OrderWrite, BillWrite

(* A new receipt adds its quantity to what its order has received.         *)
LEMMA ReceiptAdds ==
    ASSUME TypeOK, NEW o, NEW x \in Receipts, NEW q \in 0..MaxAmount, receipt[x].status = "NONE",
           receipt' = [receipt EXCEPT ![x] = [status |-> "RECEIVED", order |-> o, quantity |-> q]]
    PROVE  Received(o)' = Received(o) + q
<1> DEFINE now == [r \in Receipts |-> receipt'[r].quantity]
           S == ReceiptsOf(o)
<1>1. receipt \in [Receipts -> ReceiptRows]
  BY DEF TypeOK, OrderTypeOK
<1>2. x \notin S /\ IsFiniteSet(S)
  BY ReceivedIsNatural DEF ReceiptsOf
<1>3. ReceiptsOf(o)' = S \cup {x}
  BY <1>1 DEF ReceiptsOf
<1>4. now[x] = q /\ \A r \in S : Quantities[r] = now[r]
  BY <1>1, <1>2 DEF Quantities, ReceiptsOf
<1>5. Received(o) = SumOf(S, Quantities) /\ Received(o)' = SumOf(S \cup {x}, now)
  BY <1>3 DEF Received, Quantities
<1> HIDE DEF now, S
<1>6. SumOf(S \cup {x}, now) = SumOf(S, Quantities) + now[x]
  <2>1. now[x] \in 0..MaxAmount /\ MaxAmount \in Nat
    BY <1>4, LedgerAssumption
  <2> QED
    BY <1>2, <1>4, <2>1, SumGrows
<1> QED
  BY <1>4, <1>5, <1>6

LEMMA FollowingStates ==
    ASSUME NEW status, NEW to \in Follows(status)
    PROVE  /\ to \in {"NONE", "DRAFT", "APPROVED"} => status = "DRAFT"
           /\ status # "NONE"
BY DEF Follows

(* What the writing session changes keeps the orders right.                *)
LEMMA CommitKeepsOrders ==
    ASSUME TypeOK, NotOverReceived, NoEarlyReceipts, NEW s \in Sessions, Commit(s), OrderChecked(s)
    PROVE  (NotOverReceived /\ NoEarlyReceipts)'
<1> DEFINE c == call[s]
<1>1. SUFFICES ASSUME NEW o \in Orders
               PROVE  /\ Received(o)' <= order'[o].quantity
                      /\ order'[o].status \in {"NONE", "DRAFT", "APPROVED"} => ReceiptsOf(o)' = {}
  BY DEF NotOverReceived, NoEarlyReceipts
<1>2. order \in [Orders -> OrderRows] /\ receipt \in [Receipts -> ReceiptRows]
      /\ order' \in [Orders -> OrderRows]
  BY CommitType DEF TypeOK, OrderTypeOK
<1>3. Received(o) <= order[o].quantity
      /\ (order[o].status \in {"NONE", "DRAFT", "APPROVED"} => ReceiptsOf(o) = {})
  BY DEF NotOverReceived, NoEarlyReceipts
<1>4. Received(o) \in Nat /\ order[o].quantity \in Nat /\ order'[o].quantity \in Nat
  BY <1>2, LedgerAssumption, ReceivedIsNatural DEF OrderRows
<1>5. ~KeyTaken(c) /\ c # None /\ at[s] = Len(Plan(c)) /\ passed[s] /\ c \in Calls
  BY CommitType DEF Commit, Writing
<1>6. c.op \in OrderOps => c \in OrderCalls
  BY <1>5, CallsAreOfAKind
<1>7. CASE UNCHANGED <<order, receipt>>
  BY <1>3, <1>7 DEF Received, ReceiptsOf
<1>8. CASE HeaderWrite(c) /\ c.op \in HeaderOps
  <2>1. ReceiptsOf(o)' = ReceiptsOf(o) /\ Received(o)' = Received(o)
    BY <1>8 DEF HeaderWrite, Received, ReceiptsOf
  <2>2. CASE c.order # o
    <3>1. order'[o] = order[o]
      BY <1>2, <1>8, <2>2 DEF HeaderWrite
    <3> QED
      BY <1>3, <2>1, <3>1
  <2>3. CASE c.order = o /\ c.op # "Transition"
    <3>1. order[o].status \in {"NONE", "DRAFT"}
      <4>1. CASE c.op = "CreateOrder"
        BY <1>5, <2>3, <4>1 DEF KeyTaken, OrderKeyTaken
      <4>2. CASE c.op \in {"SaveOrder", "DeleteOrder"}
        <5>1. Len(Plan(c)) = 1
          BY <4>2, OrderIsLockedFirst DEF OwnOrder
        <5>2. Seen(s)
          BY <1>5, <5>1 DEF Seen
        <5> QED
          BY <2>3, <4>2, <5>2 DEF OrderChecked
      <4> QED
        BY <1>8, <2>3, <4>1, <4>2 DEF HeaderOps
    <3>2. ReceiptsOf(o) = {}
      BY <1>3, <3>1
    <3>3. Received(o)' = 0
      BY <2>1, <3>2, ReceivedOfNone
    <3> QED
      BY <1>4, <2>1, <3>2, <3>3
  <2>4. CASE c.order = o /\ c.op = "Transition"
    <3>1. Len(Plan(c)) = 1
      BY <2>4, OrderIsLockedFirst DEF OwnOrder
    <3>2. Seen(s)
      BY <1>5, <3>1 DEF Seen
    <3>3. c.to \in Follows(order[o].status)
      BY <2>4, <3>2 DEF OrderChecked
    <3>4. order'[o].status = c.to /\ order'[o].quantity = order[o].quantity
      <4>1. order' = [order EXCEPT ![o] = [order[o] EXCEPT !.status = c.to]]
        BY <1>8, <2>4 DEF HeaderWrite
      <4>2. order[o] \in OrderRows
        BY <1>2
      <4> QED
        BY <1>2, <4>1, <4>2 DEF OrderRows
    <3>5. c.to \in {"NONE", "DRAFT", "APPROVED"} => ReceiptsOf(o) = {}
      BY <1>3, <3>3, FollowingStates
    <3> QED
      BY <1>3, <2>1, <3>4, <3>5
  <2> QED
    BY <2>2, <2>3, <2>4
<1>9. CASE ReceiptWrite(c) /\ c.op = "VoidReceipt"
  <2>1. \A r \in Receipts : r # c.receipt => receipt'[r] = receipt[r]
    BY <1>2, <1>9 DEF ReceiptWrite
  <2>2. c.receipt \notin ReceiptsOf(o)'
    BY <1>2, <1>9 DEF ReceiptWrite, ReceiptsOf
  <2>3. ReceiptsOf(o)' \subseteq ReceiptsOf(o)
    BY <2>1, <2>2 DEF ReceiptsOf
  <2>4. \A r \in ReceiptsOf(o)' : receipt'[r].quantity = receipt[r].quantity
    BY <2>1, <2>2 DEF ReceiptsOf
  <2>5. Received(o)' <= Received(o)
    BY <2>3, <2>4, ReceivedShrinks
  <2>6. Received(o)' \in Nat
    <3>1. ReceiptsOf(o)' \in SUBSET ReceiptsOf(o) /\ IsFiniteSet(ReceiptsOf(o))
      BY <2>3, ReceivedIsNatural
    <3>2. IsFiniteSet(ReceiptsOf(o)')
      BY <3>1, FS_Subset
    <3> DEFINE S == ReceiptsOf(o)'
               now == [r \in Receipts |-> receipt'[r].quantity]
    <3>3. Received(o)' = SumOf(S, now) /\ IsFiniteSet(S)
      BY <3>2 DEF Received
    <3> HIDE DEF S, now
    <3>4. SumOf(S, now) \in Nat
      BY <3>3, LedgerAssumption, SumIsNatural
    <3> QED
      BY <3>3, <3>4
  <2>7. order' = order
    BY <1>9 DEF ReceiptWrite
  <2> QED
    BY <1>3, <1>4, <2>3, <2>5, <2>6, <2>7
<1>10. CASE ReceiptWrite(c) /\ c.op = "Receive"
  <2>1. c \in OrderCalls /\ Len(Plan(c)) = 3
    BY <1>6, <1>10, OrderIsLockedFirst DEF OrderOps, OwnOrder
  <2>2. Seen(s) /\ at[s] = 3
    BY <1>5, <2>1 DEF Seen
  <2>3. order[c.order].status = "ISSUED" /\ Received(c.order) + c.quantity <= order[c.order].quantity
    BY <1>5, <1>10, <2>2 DEF OrderChecked
  <2>4. receipt[c.receipt].status = "NONE"
    BY <1>5, <1>10 DEF KeyTaken, OrderKeyTaken
  <2>5. order' = order
    BY <1>10 DEF ReceiptWrite
  <2>6. CASE o = c.order
    <3>1. PICK x \in Receipts, q \in 0..MaxAmount : x = c.receipt /\ q = c.quantity
      BY <1>10, <2>1, ReceiveFields, LedgerAssumption DEF Amounts
    <3>2. receipt' = [receipt EXCEPT ![x] = [status |-> "RECEIVED", order |-> o, quantity |-> q]]
      BY <1>10, <2>6, <3>1 DEF ReceiptWrite
    <3>3. Received(o)' = Received(o) + q
      BY <2>4, <3>1, <3>2, ReceiptAdds
    <3> QED
      BY <2>3, <2>5, <2>6, <3>1, <3>3
  <2>7. CASE o # c.order
    <3>1. \A r \in Receipts : r # c.receipt => receipt'[r] = receipt[r]
      BY <1>2, <1>10 DEF ReceiptWrite
    <3>2. c.receipt \notin ReceiptsOf(o)' /\ c.receipt \notin ReceiptsOf(o)
      BY <1>2, <1>10, <2>4, <2>7 DEF ReceiptWrite, ReceiptsOf
    <3>3. ReceiptsOf(o)' = ReceiptsOf(o)
      BY <3>1, <3>2 DEF ReceiptsOf
    <3>4. \A r \in ReceiptsOf(o)' : receipt'[r].quantity = receipt[r].quantity
      BY <3>1, <3>2 DEF ReceiptsOf
    <3>5. Received(o)' <= Received(o)
      BY <3>3, <3>4, ReceivedShrinks
    <3>6. Received(o)' \in Nat
      <4> DEFINE S == ReceiptsOf(o)
                 now == [r \in Receipts |-> receipt'[r].quantity]
      <4>1. Received(o)' = SumOf(S, now) /\ IsFiniteSet(S)
        BY <3>3, ReceivedIsNatural DEF Received
      <4> HIDE DEF S, now
      <4>2. SumOf(S, now) \in Nat
        BY <4>1, LedgerAssumption, SumIsNatural
      <4> QED
        BY <4>1, <4>2
    <3> QED
      BY <1>3, <1>4, <2>5, <3>3, <3>5, <3>6
  <2> QED
    BY <2>6, <2>7
<1> QED
  BY <1>7, <1>8, <1>9, <1>10, CommitsOfOrders DEF OrderWrite, BillWrite

(* The session whose call was checked goes on under the same lock.         *)
LEMMA OwnOrderStep ==
    ASSUME TypeOK, Locked, NEW s \in Sessions, SessionStep(s), ~Commit(s), OrderChecked(s)
    PROVE  OrderChecked(s)'
<1> DEFINE c == call[s]
<1>1. UNCHANGED <<order, receipt>>
  BY OnlyCommitsWrite DEF tables, orders
<1>2. at[s] \in Nat /\ IdleHoldsNothing
  BY DEF TypeOK, Locked
<1>3. CASE Starts(s)
  BY <1>2, <1>3 DEF Starts, IdleHoldsNothing, OrderChecked, Seen
<1>4. CASE Ends(s)
  BY <1>4 DEF Ends, OrderChecked, Seen
<1>5. CASE Locks(s) /\ Lock(s)
  <2>1. call'[s] = c /\ at'[s] = at[s] + 1 /\ ~passed'[s]
    BY <1>5 DEF Locks
  <2>2. passed[s] /\ c # None
    BY <1>5 DEF Lock, Wants, Asks, Locking
  <2>3. Seen(s)' => Seen(s)
    BY <1>2, <2>1, <2>2 DEF Seen
  <2> QED
    BY <1>1, <2>1, <2>3 DEF OrderChecked
<1>6. CASE Skips(s) /\ Skip(s)
  <2>1. c.op \in OwnOrder => at[s] = 1 /\ c.op = "Receive"
    BY <1>6, SkipsNoLock
  <2>2. passed[s] /\ c # None
    BY <1>6 DEF Skip, Locking
  <2>3. call'[s] = c /\ at'[s] = at[s] + 1
    BY <1>6 DEF Skips
  <2>4. CASE c.op \in OwnOrder
    <3>1. Seen(s) /\ at'[s] # 3 /\ c.op = "Receive"
      BY <2>1, <2>2, <2>3, <2>4 DEF Seen
    <3> QED
      BY <1>1, <2>3, <3>1 DEF OrderChecked
  <2>5. CASE c.op \notin OwnOrder
    BY <2>3, <2>5 DEF OrderChecked, OwnOrder
  <2> QED
    BY <2>4, <2>5
<1>7. CASE Advances(s) /\ Pass(s)
  <2>1. call'[s] = c /\ at'[s] = at[s]
    BY <1>7 DEF Advances
  <2>2. ~Refused(c, at[s]) /\ c # None /\ ~passed[s]
    BY <1>7 DEF Pass, Checking
  <2>3. ~OrderRefused(c, at[s])
    BY <2>2 DEF Refused
  <2>4. SUFFICES ASSUME Seen(s)', at[s] > 0
                 PROVE  /\ c.op = "Receive" => order[c.order].status = "ISSUED"
                        /\ c.op \in {"SaveOrder", "DeleteOrder"} => order[c.order].status = "DRAFT"
                        /\ c.op = "Transition" => c.to \in Follows(order[c.order].status)
                        /\ c.op = "Receive" /\ at[s] = 3 =>
                              Received(c.order) + c.quantity <= order[c.order].quantity
    <3>1. Seen(s)' => at[s] > 0
      BY <1>2, <2>1 DEF Seen
    <3>2. Received(call[s].order)' = Received(c.order)
      BY <1>1, <2>1 DEF Received, ReceiptsOf
    <3> QED
      BY <1>1, <2>1, <3>1, <3>2 DEF OrderChecked
  <2>5. CASE at[s] = 1
    <3>1. /\ c.op = "Receive" => order[c.order].status = "ISSUED"
          /\ c.op \in {"SaveOrder", "DeleteOrder"} => order[c.order].status = "DRAFT"
          /\ c.op = "Transition" => c.to \in Follows(order[c.order].status)
      BY <2>3, <2>5 DEF OrderRefused, ReceiveRefused, TransitionRefused
    <3> QED
      BY <2>5, <3>1
  <2>6. CASE at[s] > 1
    <3>1. Seen(s)
      BY <2>2, <2>6 DEF Seen
    <3>2. ASSUME c.op = "Receive", at[s] = 3
          PROVE  Received(c.order) + c.quantity <= order[c.order].quantity
      <4>1. ~(Received(c.order) + c.quantity > order[c.order].quantity)
        BY <2>3, <3>2 DEF OrderRefused, ReceiveRefused
      <4>2. c \in OrderCalls
        BY <2>2, <3>2, CallsAreOfAKind DEF TypeOK, OrderOps
      <4>3. c.quantity \in Nat /\ c.order \in Orders
        BY <3>2, <4>2, LedgerAssumption, ReceiveFields DEF Amounts
      <4>4. order[c.order].quantity \in Nat
        BY <4>3, LedgerAssumption DEF TypeOK, OrderTypeOK, OrderRows
      <4>5. Received(c.order) \in Nat
        BY ReceivedIsNatural
      <4> QED
        BY <4>1, <4>3, <4>4, <4>5
    <3> QED
      BY <3>1, <3>2 DEF OrderChecked
  <2> QED
    BY <1>2, <2>4, <2>5, <2>6
<1> QED
  BY <1>2, <1>3, <1>4, <1>5, <1>6, <1>7, OneSessionMoves

(* No other session makes wrong what a session has checked of its order.   *)
LEMMA OtherOrderStep ==
    ASSUME TypeOK, Locked, NEW s \in Sessions, SessionStep(s), NEW t \in Sessions, t # s,
           OrderChecked(t)
    PROVE  OrderChecked(t)'
<1>1. Rests(t)
  BY OneSessionMoves DEF Locked
<1>2. CASE UNCHANGED <<order, receipt>>
  BY <1>1, <1>2 DEF Rests, OrderChecked, Seen, Received, ReceiptsOf
<1>3. CASE Commit(s) /\ call[t].op \in OwnOrder /\ Seen(t)
  <2> DEFINE c == call[t]
  <2>1. PICK o : o = c.order
    OBVIOUS
  <2>2. order[o].status # "NONE"
    <3>1. c.op = "Transition" => order[o].status # "NONE"
      BY <1>3, <2>1, FollowingStates DEF OrderChecked
    <3> QED
      BY <1>3, <2>1, <3>1 DEF OrderChecked, OwnOrder
  <2>3. at[t] > 0 /\ c # None
    BY <1>3 DEF Seen, TypeOK
  <2>4. order'[o] = order[o] /\ Received(o)' <= Received(o)
    BY <1>3, <2>1, <2>2, <2>3, LockedOrderStays
  <2>5. call'[t] = c /\ at'[t] = at[t] /\ passed'[t] = passed[t]
    BY <1>1 DEF Rests
  <2>6. ASSUME c.op = "Receive", at[t] = 3, passed[t]
        PROVE  Received(o)' + c.quantity <= order'[o].quantity
    <3>1. Received(o) + c.quantity <= order[o].quantity
      BY <1>3, <2>1, <2>6 DEF OrderChecked
    <3>2. c \in OrderCalls
      BY <2>3, <2>6, CallsAreOfAKind DEF TypeOK, OrderOps
    <3>3. c.quantity \in Nat /\ o \in Orders
      BY <2>1, <2>6, <3>2, LedgerAssumption, ReceiveFields DEF Amounts
    <3>4. order[o].quantity \in Nat
      BY <3>3, LedgerAssumption DEF TypeOK, OrderTypeOK, OrderRows
    <3>5. Received(o) \in Nat /\ Received(o)' \in Nat
      <4>1. Received(o) \in Nat
        BY ReceivedIsNatural
      <4> DEFINE S == {r \in Receipts : receipt'[r].status = "RECEIVED" /\ receipt'[r].order = o}
                 now == [r \in Receipts |-> receipt'[r].quantity]
      <4>2. S \in SUBSET Receipts
        OBVIOUS
      <4>3. IsFiniteSet(S)
        BY <4>2, OrderAssumption, FS_Subset
      <4>4. Received(o)' = SumOf(S, now)
        BY DEF Received, ReceiptsOf
      <4> HIDE DEF S, now
      <4>5. SumOf(S, now) \in Nat
        BY <4>3, LedgerAssumption, SumIsNatural
      <4> QED
        BY <4>1, <4>4, <4>5
    <3> QED
      BY <2>4, <3>1, <3>3, <3>4, <3>5
  <2>7. call'[t].order = o
    BY <2>1, <2>5
  <2>8. Received(call[t].order)' = Received(o)'
    BY <2>7 DEF Received, ReceiptsOf
  <2> QED
    BY <1>3, <2>1, <2>4, <2>5, <2>6, <2>8 DEF OrderChecked
<1>4. CASE call[t].op \notin OwnOrder
  BY <1>1, <1>4 DEF Rests, OrderChecked, OwnOrder
<1>5. CASE ~Seen(t)
  BY <1>1, <1>5 DEF Rests, OrderChecked, Seen
<1>6. CASE ~Commit(s)
  BY <1>2, <1>6, OnlyCommitsWrite DEF tables, orders
<1> QED
  BY <1>3, <1>4, <1>5, <1>6

LEMMA OrdersStep ==
    ASSUME TypeOK, Locked, OrdersKept, [Next]_vars
    PROVE  OrdersKept'
<1>1. ASSUME NEW s \in Sessions, SessionStep(s)
      PROVE  OrdersKept'
  <2>1. (NotOverReceived /\ NoEarlyReceipts)'
    <3>1. CASE Commit(s)
      BY <3>1, CommitKeepsOrders DEF OrdersKept
    <3>2. CASE ~Commit(s)
      <4>1. UNCHANGED <<order, receipt>>
        BY <1>1, <3>2, OnlyCommitsWrite DEF tables, orders
      <4> QED
        BY <4>1 DEF OrdersKept, NotOverReceived, NoEarlyReceipts, Received, ReceiptsOf
    <3> QED
      BY <3>1, <3>2
  <2>2. OrderChecked(s)'
    <3>1. CASE Commit(s)
      <4>1. call'[s] = None
        BY <3>1 DEF Commit, Finish, TypeOK
      <4> QED
        BY <4>1 DEF OrderChecked, Seen
    <3>2. CASE ~Commit(s)
      BY <1>1, <3>2, OwnOrderStep DEF OrdersKept
    <3> QED
      BY <3>1, <3>2
  <2>3. \A t \in Sessions \ {s} : OrderChecked(t)'
    BY <1>1, OtherOrderStep DEF OrdersKept
  <2> QED
    BY <2>1, <2>2, <2>3 DEF OrdersKept
<1>2. CASE UNCHANGED vars
  BY <1>2 DEF OrdersKept, NotOverReceived, NoEarlyReceipts, OrderChecked, Seen, Received, ReceiptsOf,
              vars, tables, orders, sessions
<1> QED
  BY <1>1, <1>2 DEF Next, SessionStep, Done

LEMMA OrdersInit ==
    ASSUME Init
    PROVE  OrdersKept
<1>1. \A o \in Orders : ReceiptsOf(o) = {}
  BY DEF Init, OrderInit, ReceiptsOf, NoReceipt
<1>2. \A o \in Orders : Received(o) = 0 /\ order[o].quantity \in Nat
  BY <1>1, ReceivedOfNone, TypeInit, LedgerAssumption DEF TypeOK, OrderTypeOK, OrderRows
<1>3. \A s \in Sessions : OrderChecked(s)
  BY DEF Init, OrderChecked, Seen
<1> QED
  BY <1>1, <1>2, <1>3 DEF OrdersKept, NotOverReceived, NoEarlyReceipts

(* However receipts of an order overlap, are repeated, voided and run into *)
(* changes of the order, what stands of them is never more than was        *)
(* ordered: for any sessions, orders and quantities.                       *)
THEOREM ReceiptsStayWithinOrders == Spec => []NotOverReceived
<1>1. Init => TypeOK /\ Locked /\ OrdersKept
  BY TypeInit, LockedInit, OrdersInit
<1>2. TypeOK /\ Locked /\ OrdersKept /\ [Next]_vars => TypeOK' /\ Locked' /\ OrdersKept'
  BY TypeStep, LockedStep, OrdersStep
<1>3. OrdersKept => NotOverReceived
  BY DEF OrdersKept
<1> QED
  BY <1>1, <1>2, <1>3, PTL DEF Spec

(***************************************************************************)
(* Bank transactions and their evidence.                                   *)
(***************************************************************************)
Standing(u) == Confirmed(OfTx(u))
MatchAmounts == [m \in Matches |-> match[m].amount]

LEMMA UnsettleFields ==
    ASSUME NEW c \in LedgerCalls, c.op = "Unsettle"
    PROVE  c.match \in Settlements
BY DEF LedgerCalls

LEMMA AllocatedIsNatural ==
    ASSUME NEW u
    PROVE  IsFiniteSet(Standing(u)) /\ Allocated(u) \in Nat
<1>1. Standing(u) \in SUBSET Matches
  BY DEF Standing, Confirmed, OfTx
<1>2. IsFiniteSet(Standing(u))
  BY <1>1, LedgerAssumption, FS_Subset
<1> QED
  BY <1>2, LedgerAssumption, SumIsNatural DEF Allocated, Sum, Standing

LEMMA AllocatedIsNaturalNext ==
    ASSUME NEW u
    PROVE  Allocated(u)' \in Nat
<1> DEFINE S == {m \in {n \in Matches : u \in match'[n].txs} : match'[m].status = "CONFIRMED"}
           now == [m \in Matches |-> match'[m].amount]
<1>1. S \in SUBSET Matches
  OBVIOUS
<1>2. IsFiniteSet(S)
  BY <1>1, LedgerAssumption, FS_Subset
<1>3. Allocated(u)' = SumOf(S, now)
  BY DEF Allocated, Sum, Confirmed, OfTx
<1> HIDE DEF S, now
<1>4. SumOf(S, now) \in Nat
  BY <1>2, LedgerAssumption, SumIsNatural
<1> QED
  BY <1>3, <1>4

(* Without new evidence no more of a transaction is allocated.             *)
LEMMA AllocatedShrinks ==
    ASSUME NEW u, Standing(u)' \subseteq Standing(u),
           \A m \in Standing(u)' : match'[m].amount = match[m].amount
    PROVE  Allocated(u)' <= Allocated(u)
<1> DEFINE now == [m \in Matches |-> match'[m].amount]
           S == Standing(u)'
<1>1. IsFiniteSet(Standing(u)) /\ S \in SUBSET Standing(u)
  BY AllocatedIsNatural
<1>2. \A m \in S : now[m] = MatchAmounts[m]
  BY DEF MatchAmounts, Standing, Confirmed, OfTx
<1>3. Allocated(u)' = SumOf(S, now) /\ Allocated(u) = SumOf(Standing(u), MatchAmounts)
  BY DEF Allocated, Sum, MatchAmounts, Standing
<1> HIDE DEF now, S
<1>4. SumOf(S, now) <= SumOf(Standing(u), MatchAmounts)
  BY <1>1, <1>2, LedgerAssumption, SumShrinks
<1> QED
  BY <1>3, <1>4

LEMMA AllocatedOfNone ==
    ASSUME NEW u, ~HasEvidence(u)
    PROVE  Standing(u) = {} /\ Allocated(u) = 0
BY SumOfNone DEF HasEvidence, Standing, Allocated, Sum

(* One confirmation more adds its amount.                                  *)
LEMMA EvidenceAdds ==
    ASSUME NEW u, NEW x \in Matches, x \notin Standing(u), Standing(u)' = Standing(u) \cup {x},
           \A m \in Standing(u) : match'[m].amount = match[m].amount,
           match'[x].amount \in 0..MaxAmount
    PROVE  Allocated(u)' = Allocated(u) + match'[x].amount
<1> DEFINE now == [m \in Matches |-> match'[m].amount]
           S == Standing(u)
<1>1. IsFiniteSet(S) /\ x \notin S
  BY AllocatedIsNatural
<1>2. now[x] = match'[x].amount /\ \A m \in S : MatchAmounts[m] = now[m]
  BY DEF MatchAmounts, Standing, Confirmed, OfTx
<1>3. Allocated(u) = SumOf(S, MatchAmounts) /\ Allocated(u)' = SumOf(S \cup {x}, now)
  BY DEF Allocated, Sum, MatchAmounts, Standing
<1> HIDE DEF now, S
<1>4. SumOf(S \cup {x}, now) = SumOf(S, MatchAmounts) + now[x]
  <2>1. now[x] \in 0..MaxAmount /\ MaxAmount \in Nat
    BY <1>2, LedgerAssumption
  <2>2. \A y \in S : MatchAmounts[y] = now[y]
    BY <1>2
  <2> QED
    BY <1>1, <2>1, <2>2, SumGrows
<1> QED
  BY <1>2, <1>3, <1>4

(* A transaction that gets no new evidence and keeps its terms.            *)
Stays(u) ==
    /\ Standing(u)' \subseteq Standing(u)
    /\ \A m \in Standing(u)' : match'[m].amount = match[m].amount
    /\ u \in Transactions => tx'[u].amount = tx[u].amount /\ tx'[u].direction = tx[u].direction

LEMMA SettleLeaves ==
    ASSUME TypeOK, NEW c \in LedgerCalls, c.op = "Settle", SettleWrite(c), match[c.match] = NoMatch,
           NEW u, u # c.tx
    PROVE  Stays(u)
<1>1. match \in [Matches -> Evidence] /\ tx \in [Transactions -> Bank]
  BY DEF TypeOK, LedgerTypeOK
<1>2. \A m \in Matches : m # c.match => match'[m] = match[m]
  BY <1>1 DEF SettleWrite
<1>3. c.match \notin Standing(u)'
  BY <1>1 DEF SettleWrite, Terms, Standing, Confirmed, OfTx
<1>4. Standing(u)' \subseteq Standing(u)
  BY <1>2, <1>3 DEF Standing, Confirmed, OfTx
<1>5. \A m \in Standing(u)' : match'[m].amount = match[m].amount
  BY <1>2, <1>3 DEF Standing, Confirmed, OfTx
<1>6. u \in Transactions => tx'[u].amount = tx[u].amount /\ tx'[u].direction = tx[u].direction
  BY <1>1, ReviewedType DEF SettleWrite
<1> QED
  BY <1>4, <1>5, <1>6 DEF Stays

LEMMA UnsettleLeaves ==
    ASSUME TypeOK, NEW c, UnsettleWrite(c), NEW u
    PROVE  Stays(u)
<1>1. match \in [Matches -> Evidence] /\ tx \in [Transactions -> Bank]
  BY DEF TypeOK, LedgerTypeOK
<1>2. match' = [match EXCEPT ![c.match].status = "REVERSED"]
  BY DEF UnsettleWrite
<1>3. \A m \in Matches : /\ m # c.match => match'[m] = match[m]
                         /\ match'[m].txs = match[m].txs /\ match'[m].amount = match[m].amount
                         /\ m = c.match => match'[m].status = "REVERSED"
  BY <1>1, <1>2 DEF Evidence
<1>4. Standing(u)' \subseteq Standing(u)
  BY <1>3 DEF Standing, Confirmed, OfTx
<1>5. \A m \in Standing(u)' : match'[m].amount = match[m].amount
  BY <1>3 DEF Standing, Confirmed, OfTx
<1>6. u \in Transactions => tx'[u].amount = tx[u].amount /\ tx'[u].direction = tx[u].direction
  BY <1>1, ReviewedType DEF UnsettleWrite
<1> QED
  BY <1>4, <1>5, <1>6 DEF Stays

LEMMA TxWriteLeaves ==
    ASSUME TypeOK, NEW c, c.op \in TxOps, TxWrite(c), NEW u, u # c.tx \/ c.op # "CorrectTx"
    PROVE  Stays(u)
<1>1. tx \in [Transactions -> Bank]
  BY DEF TypeOK, LedgerTypeOK
<1>2. Standing(u)' = Standing(u) /\ match' = match
  BY DEF TxWrite, Standing, Confirmed, OfTx
<1>3. ASSUME u \in Transactions
      PROVE  tx'[u].amount = tx[u].amount /\ tx'[u].direction = tx[u].direction
  <2>1. CASE u # c.tx
    BY <1>1, <2>1 DEF TxWrite
  <2>2. CASE u = c.tx /\ c.op = "ReverseTx"
    <3>1. tx' = [tx EXCEPT ![u] = [tx[u] EXCEPT !.status = "REVERSED", !.review = "UNMATCHED"]]
      BY <2>2 DEF TxWrite
    <3> QED
      BY <1>1, <1>3, <3>1 DEF Bank
  <2>3. CASE u = c.tx /\ c.op = "IgnoreTx"
    <3>1. tx' = [tx EXCEPT ![u] = [tx[u] EXCEPT !.review = "IGNORED"]]
      BY <2>3 DEF TxWrite
    <3> QED
      BY <1>1, <1>3, <3>1 DEF Bank
  <2>4. CASE u = c.tx /\ c.op = "RestoreTx"
    <3>1. tx' = [tx EXCEPT ![u] = [tx[u] EXCEPT !.review = "UNMATCHED"]]
      BY <2>4 DEF TxWrite
    <3> QED
      BY <1>1, <1>3, <3>1 DEF Bank
  <2> QED
    BY <2>1, <2>2, <2>3, <2>4 DEF TxOps
<1> QED
  BY <1>2, <1>3 DEF Stays

LEMMA TransferLeaves ==
    ASSUME TypeOK, NEW c \in LedgerCalls, c.op \in TransferOps, TransferWrite(c), NEW u,
           c.op = "Transfer" => u \notin {Pair[c.group][1], Pair[c.group][2]}
    PROVE  Stays(u)
<1> DEFINE g == c.group
           both == {Pair[g][1], Pair[g][2]}
<1>1. match \in [Matches -> Evidence] /\ tx \in [Transactions -> Bank] /\ g \in Matches
  BY TransferFields DEF TypeOK, LedgerTypeOK, Matches
<1>2. \A m \in Matches : m # g => match'[m] = match[m]
  BY <1>1 DEF TransferWrite
<1>3. g \notin Standing(u)'
  <2>1. CASE c.op = "Transfer"
    <3>1. match'[g].txs = both
      BY <1>1, <2>1 DEF TransferWrite
    <3> QED
      BY <2>1, <3>1 DEF Standing, Confirmed, OfTx
  <2>2. CASE c.op = "ReverseTransfer"
    <3>1. match' = [match EXCEPT ![g] = [match[g] EXCEPT !.status = "REVERSED"]]
      BY <2>2 DEF TransferWrite
    <3>2. match'[g].status = "REVERSED"
      BY <1>1, <3>1 DEF Evidence
    <3> QED
      BY <3>2 DEF Standing, Confirmed
  <2> QED
    BY <2>1, <2>2 DEF TransferOps
<1>4. Standing(u)' \subseteq Standing(u)
  BY <1>2, <1>3 DEF Standing, Confirmed, OfTx
<1>5. \A m \in Standing(u)' : match'[m].amount = match[m].amount
  BY <1>2, <1>3 DEF Standing, Confirmed, OfTx
<1>6. ASSUME u \in Transactions
      PROVE  tx'[u].amount = tx[u].amount /\ tx'[u].direction = tx[u].direction
  <2> DEFINE group == IF c.op = "Transfer" THEN c.group ELSE None
             review == IF c.op = "Transfer" THEN "MATCHED" ELSE "UNMATCHED"
  <2>1. tx'[u] = tx[u] \/ tx'[u] = [tx[u] EXCEPT !.group = group, !.review = review]
    BY <1>6 DEF TransferWrite
  <2>2. tx[u] \in Bank
    BY <1>1, <1>6
  <2> HIDE DEF group, review
  <2> QED
    BY <2>1, <2>2 DEF Bank
<1> QED
  BY <1>4, <1>5, <1>6 DEF Stays

LEMMA StaysWhenUntouched ==
    ASSUME UNCHANGED <<tx, match>>, NEW u
    PROVE  Stays(u)
BY DEF Stays, Standing, Confirmed, OfTx

(* What a commit does to transactions and evidence.                        *)
LEMMA CommitsOfLedger ==
    ASSUME TypeOK, NEW s \in Sessions, Commit(s)
    PROVE  LET c == call[s]
           IN  /\ call[s] # None /\ at[s] = Len(Plan(c)) /\ passed[s]
               /\ \/ UNCHANGED <<tx, match>>
                  \/ /\ c \in LedgerCalls
                     /\ \/ c.op = "Settle" /\ SettleWrite(c) /\ match[c.match] = NoMatch
                        \/ c.op = "Unsettle" /\ UnsettleWrite(c)
                        \/ c.op \in TxOps /\ TxWrite(c)
                        \/ c.op \in TransferOps /\ TransferWrite(c)
<1> DEFINE c == call[s]
<1>1. call[s] # None /\ at[s] = Len(Plan(c)) /\ passed[s] /\ ~KeyTaken(c) /\ Write(c)
  BY DEF Commit, Writing
<1>2. c \in Calls
  BY CommitType
<1>3. CASE LedgerWrite(c)
  <2>1. c \in LedgerCalls
    BY <1>2, <1>3, WritesAreOfAKind
  <2>2. c.op = "Settle" => match[c.match] = NoMatch
    BY <1>1 DEF KeyTaken, LedgerKeyTaken
  <2> QED
    BY <1>1, <1>3, <2>1, <2>2 DEF LedgerWrite, VerifyWrite, InvoiceWrite, ExpenseWrite
<1>4. CASE UNCHANGED ledger
  BY <1>1, <1>4 DEF ledger
<1> QED
  BY <1>1, <1>3, <1>4 DEF Write

(* The locks under which a call writes to transactions.                    *)
LEMMA WritersHoldTheirRows ==
    ASSUME TypeOK, Locked, NEW s \in Sessions, Commit(s)
    PROVE  /\ call[s].op \in OwnTx => ForUpdate("transactions", call[s].tx) \in held[s]
           /\ call[s].op \in TransferOps =>
                 \A u \in {Pair[call[s].group][1], Pair[call[s].group][2]} :
                     ForUpdate("transactions", u) \in held[s]
<1> DEFINE c == call[s]
<1>1. c # None /\ at[s] = Len(Plan(c)) /\ at[s] \in Nat
  BY DEF Commit, Writing, TypeOK
<1>2. ASSUME c.op \in OwnTx
      PROVE  ForUpdate("transactions", c.tx) \in held[s]
  <2>1. Len(Plan(c)) # 0
    <3>1. CASE c.op = "Settle"
      <4>1. Plan(c) = SettlePlan(c)
        BY <1>2, <3>1, TxIsLockedFirst
      <4> QED
        BY <4>1 DEF SettlePlan
    <3>2. CASE c.op # "Settle"
      <4>1. Len(Plan(c)) = 1
        BY <1>2, <3>2, TxIsLockedFirst
      <4> QED
        BY <4>1
    <3> QED
      BY <3>1, <3>2
  <2>2. at[s] # 0
    BY <1>1, <2>1, Zenon
  <2>3. at[s] > 0
    BY <1>1, <2>2
  <2> QED
    BY <1>1, <1>2, <2>3 DEF Locked, TxLocked
<1>3. ASSUME c.op \in TransferOps
      PROVE  \A u \in {Pair[c.group][1], Pair[c.group][2]} : ForUpdate("transactions", u) \in held[s]
  <2>1. Len(Plan(c)) = 2
    BY <1>3, PairIsLocked
  <2>2. at[s] > 0 /\ at[s] > 1
    BY <1>1, <2>1
  <2>3. TransferPlan(c)[1] \in held[s] /\ TransferPlan(c)[2] \in held[s]
    BY <1>1, <1>3, <2>2 DEF Locked, PairLocked
  <2> QED
    BY <2>3 DEF TransferPlan
<1> QED
  BY <1>2, <1>3

(* While a session has a transaction locked, no other one changes it or    *)
(* adds evidence to it.                                                    *)
LEMMA LockedTxStays ==
    ASSUME TypeOK, Locked, NEW s \in Sessions, NEW t \in Sessions, s # t, Commit(s),
           NEW u, ForUpdate("transactions", u) \in held[t]
    PROVE  Stays(u)
<1> DEFINE c == call[s]
<1>1. \A v : ForUpdate("transactions", v) \in held[s] => v # u
  <2>1. SUFFICES ASSUME NEW v, ForUpdate("transactions", v) \in held[s] PROVE v # u
    OBVIOUS
  <2>2. ~Conflict(ForUpdate("transactions", v), ForUpdate("transactions", u))
    BY <2>1 DEF Locked, LocksExclude
  <2> QED
    BY <2>2 DEF Conflict, ForUpdate
<1>2. c.op \in OwnTx => u # c.tx
  BY <1>1, WritersHoldTheirRows
<1>3. c.op \in TransferOps => u \notin {Pair[c.group][1], Pair[c.group][2]}
  BY <1>1, WritersHoldTheirRows
<1>4. PICK d : d = c
  OBVIOUS
<1>5. CASE UNCHANGED <<tx, match>>
  BY <1>5, StaysWhenUntouched
<1>6. CASE d \in LedgerCalls /\ d.op = "Settle" /\ SettleWrite(d) /\ match[d.match] = NoMatch
  BY <1>2, <1>4, <1>6, SettleLeaves DEF OwnTx
<1>7. CASE d.op = "Unsettle" /\ UnsettleWrite(d)
  BY <1>7, UnsettleLeaves
<1>8. CASE d.op \in TxOps /\ TxWrite(d)
  BY <1>2, <1>4, <1>8, TxWriteLeaves DEF OwnTx
<1>9. CASE d \in LedgerCalls /\ d.op \in TransferOps /\ TransferWrite(d)
  BY <1>3, <1>4, <1>9, TransferLeaves
<1> QED
  BY <1>4, <1>5, <1>6, <1>7, <1>8, <1>9, CommitsOfLedger

LEMMA StaysWithinAmount ==
    ASSUME TypeOK, NEW u \in Transactions, Stays(u), Allocated(u) <= tx[u].amount
    PROVE  Allocated(u)' <= tx'[u].amount
<1>1. Allocated(u)' <= Allocated(u)
  BY AllocatedShrinks DEF Stays
<1>2. Allocated(u) \in Nat /\ Allocated(u)' \in Nat
  BY AllocatedIsNatural, AllocatedIsNaturalNext
<1>3. tx[u] \in Bank
  BY DEF TypeOK, LedgerTypeOK
<1>4. tx[u].amount \in Nat
  BY <1>3, LedgerAssumption DEF Bank, Amounts
<1> QED
  BY <1>1, <1>2, <1>4 DEF Stays

(* What the writing session changes leaves every transaction within its    *)
(* amount.                                                                 *)
LEMMA CommitKeepsLedger ==
    ASSUME TypeOK, Locked, NotOverdrawn, TransfersArePairs, NEW s \in Sessions, Commit(s), TxChecked(s)
    PROVE  (NotOverdrawn /\ TransfersArePairs)'
<1>1. PICK c : c = call[s]
  OBVIOUS
<1>2. match \in [Matches -> Evidence] /\ tx \in [Transactions -> Bank] /\ Matches = Settlements \cup Groups
  BY DEF TypeOK, LedgerTypeOK, Matches
<1>3. \A u \in Transactions : Allocated(u) <= tx[u].amount
  BY DEF NotOverdrawn
<1>4. \A u \in Transactions : Stays(u) => Allocated(u)' <= tx'[u].amount
  BY <1>3, StaysWithinAmount
<1>5. c # None /\ at[s] = Len(Plan(c)) /\ passed[s] /\ \A g \in Groups : g \notin Settlements
  BY <1>1, CommitsOfLedger, LedgerAssumption
<1>6. CASE UNCHANGED <<tx, match>>
  <2>1. TransfersArePairs'
    BY <1>6 DEF TransfersArePairs
  <2> QED
    BY <1>4, <1>6, <2>1, StaysWhenUntouched DEF NotOverdrawn
<1>7. CASE c \in LedgerCalls /\ c.op = "Settle" /\ SettleWrite(c) /\ match[c.match] = NoMatch
  <2> DEFINE x == c.match
  <2>1. x \in Settlements /\ x \in Matches /\ c.tx \in Transactions /\ c.amount \in 0..MaxAmount
    BY <1>2, <1>7, SettleFields, LedgerAssumption DEF Amounts
  <2>2. match' = [match EXCEPT ![x] = Terms(c)]
    BY <1>7 DEF SettleWrite
  <2>3. \A m \in Matches : m # x => match'[m] = match[m]
    BY <1>2, <2>2
  <2>4. match'[x] = Terms(c)
    BY <1>2, <2>1, <2>2
  <2>5. TransfersArePairs'
    BY <1>2, <1>5, <2>1, <2>3 DEF TransfersArePairs
  <2>6. \A u \in Transactions : u # c.tx => Stays(u)
    BY <1>7, SettleLeaves
  <2>7. \A u : u = c.tx => Allocated(u)' <= tx'[u].amount
    <3>1. SUFFICES ASSUME NEW u \in Transactions, u = c.tx PROVE Allocated(u)' <= tx'[u].amount
      BY <2>1
    <3>2. x \notin Standing(u) /\ Standing(u)' = Standing(u) \cup {x}
      BY <1>2, <1>7, <2>1, <2>3, <2>4, <3>1 DEF Standing, Confirmed, OfTx, Terms, NoMatch
    <3>3. match'[x].amount = c.amount
      BY <2>4 DEF Terms
    <3>4. \A m \in Standing(u) : match'[m].amount = match[m].amount
      BY <2>3, <3>2 DEF Standing, Confirmed, OfTx
    <3>5. Allocated(u)' = Allocated(u) + c.amount
      BY <2>1, <3>2, <3>3, <3>4, EvidenceAdds
    <3>6. Allocated(u) + c.amount <= tx[u].amount
      <4>1. Plan(c) = SettlePlan(c)
        BY <1>7, TxIsLockedFirst DEF OwnTx
      <4> QED
        BY <1>1, <1>5, <1>7, <3>1, <4>1 DEF TxChecked
    <3>7. tx'[u].amount = tx[u].amount
      BY <1>2, <1>7, ReviewedType DEF SettleWrite
    <3> QED
      BY <3>5, <3>6, <3>7
  <2> QED
    BY <1>4, <2>5, <2>6, <2>7 DEF NotOverdrawn
<1>8. CASE c \in LedgerCalls /\ c.op = "Unsettle" /\ UnsettleWrite(c)
  <2>1. \A m \in Groups : match'[m] = match[m]
    BY <1>2, <1>5, <1>8, UnsettleFields DEF UnsettleWrite
  <2>2. TransfersArePairs'
    BY <2>1 DEF TransfersArePairs
  <2>3. \A u \in Transactions : Stays(u)
    BY <1>8, UnsettleLeaves
  <2> QED
    BY <1>4, <2>2, <2>3 DEF NotOverdrawn
<1>9. CASE c \in LedgerCalls /\ c.op \in TxOps /\ TxWrite(c)
  <2>1. TransfersArePairs'
    BY <1>9 DEF TxWrite, TransfersArePairs
  <2>2. \A u \in Transactions : u # c.tx \/ c.op # "CorrectTx" => Stays(u)
    BY <1>9, TxWriteLeaves
  <2>3. ASSUME NEW u \in Transactions, u = c.tx, c.op = "CorrectTx"
        PROVE  Allocated(u)' <= tx'[u].amount
    <3>1. at[s] = 1
      BY <1>5, <1>9, <2>3, TxIsLockedFirst DEF OwnTx
    <3>2. ~HasEvidence(u)
      BY <1>1, <1>5, <2>3, <3>1 DEF TxChecked
    <3>3. HasEvidence(u)' = HasEvidence(u) /\ Allocated(u)' = Allocated(u)
      BY <1>9 DEF TxWrite, HasEvidence, Allocated, Sum, Confirmed, OfTx
    <3>4. Allocated(u)' = 0
      BY <3>2, <3>3, AllocatedOfNone
    <3>5. tx' \in [Transactions -> Bank]
      BY CommitType DEF LedgerTypeOK
    <3>6. tx'[u].amount \in Amounts
      BY <3>5 DEF Bank
    <3> QED
      BY <3>4, <3>6, LedgerAssumption DEF Amounts
  <2> QED
    BY <1>4, <2>1, <2>2, <2>3 DEF NotOverdrawn
<1>10. CASE c \in LedgerCalls /\ c.op \in TransferOps /\ TransferWrite(c)
  <2> DEFINE g == c.group
             l == Pair[g][1]
             r == Pair[g][2]
  <2>1. g \in Groups /\ g \in Matches /\ l \in Transactions /\ r \in Transactions
    BY <1>2, <1>10, TransferFields
  <2>2. Len(Plan(c)) = 2
    BY <1>10, PairIsLocked
  <2>3. at[s] = 2
    BY <1>5, <2>2
  <2>4. \A m \in Matches : m # g => match'[m] = match[m]
    BY <1>2, <1>10 DEF TransferWrite
  <2>5. CASE c.op = "ReverseTransfer"
    <3>1. match[g].status = "CONFIRMED"
      BY <1>1, <1>5, <2>3, <2>5 DEF TxChecked
    <3>2. match' = [match EXCEPT ![g] = [match[g] EXCEPT !.status = "REVERSED"]]
      BY <1>10, <2>5 DEF TransferWrite
    <3>3. match'[g].txs = match[g].txs
      BY <1>2, <2>1, <3>2 DEF Evidence
    <3>4. TransfersArePairs'
      BY <1>2, <2>1, <2>4, <3>1, <3>3 DEF TransfersArePairs
    <3>5. \A u \in Transactions : Stays(u)
      BY <1>10, <2>5, TransferLeaves
    <3> QED
      BY <1>4, <3>4, <3>5 DEF NotOverdrawn
  <2>6. CASE c.op = "Transfer"
    <3>1. Opposite(l, r) /\ ~HasEvidence(l) /\ ~HasEvidence(r)
      BY <1>1, <1>5, <2>3, <2>6 DEF TxChecked
    <3>2. match'[g] = [txs |-> {l, r}, kind |-> "TRANSFER", target |-> None,
                       amount |-> tx[l].amount, status |-> "CONFIRMED"]
      BY <1>2, <1>10, <2>1, <2>6 DEF TransferWrite
    <3>3. TransfersArePairs'
      BY <1>2, <2>1, <2>4, <3>2 DEF TransfersArePairs
    <3>4. \A u \in Transactions : u \notin {l, r} => Stays(u)
      BY <1>10, <2>6, TransferLeaves
    <3>5. ASSUME NEW u \in {l, r}
          PROVE  Allocated(u)' <= tx'[u].amount
      <4>1. Standing(u) = {} /\ Allocated(u) = 0
        BY <3>1, AllocatedOfNone
      <4>2. Standing(u)' = Standing(u) \cup {g}
        <5>1. ASSUME NEW m \in Matches PROVE m \in Standing(u)' <=> m = g
          <6>1. CASE m = g
            BY <3>2, <5>1, <6>1 DEF Standing, Confirmed, OfTx
          <6>2. CASE m # g
            <7>1. match'[m] = match[m] /\ m \notin Standing(u)
              BY <2>4, <4>1, <6>2
            <7> QED
              BY <6>2, <7>1 DEF Standing, Confirmed, OfTx
          <6> QED
            BY <6>1, <6>2
        <5>2. Standing(u)' \subseteq Matches
          BY DEF Standing, Confirmed, OfTx
        <5> QED
          BY <2>1, <4>1, <5>1, <5>2
      <4>3. match'[g].amount = tx[l].amount
        BY <3>2
      <4>4. tx[l] \in Bank /\ tx[u] \in Bank
        BY <1>2, <2>1
      <4>5. tx[l].amount \in 0..MaxAmount
        BY <4>4, LedgerAssumption DEF Bank, Amounts
      <4>6. g \notin Standing(u) /\ \A m \in Standing(u) : match'[m].amount = match[m].amount
        BY <4>1
      <4>7. Allocated(u)' = 0 + tx[l].amount
        BY <2>1, <4>1, <4>2, <4>3, <4>5, <4>6, EvidenceAdds
      <4>8. tx[u].amount = tx[l].amount
        BY <3>1 DEF Opposite
      <4>9. tx'[u].amount = tx[u].amount
        <5>1. tx'[u] = [tx[u] EXCEPT !.group = c.group, !.review = "MATCHED"]
          BY <1>10, <2>1, <2>6 DEF TransferWrite
        <5> QED
          BY <4>4, <5>1 DEF Bank
      <4> QED
        BY <4>5, <4>7, <4>8, <4>9
    <3> QED
      BY <1>4, <3>3, <3>4, <3>5 DEF NotOverdrawn
  <2> QED
    BY <1>10, <2>5, <2>6 DEF TransferOps
<1> QED
  BY <1>1, <1>6, <1>7, <1>8, <1>9, <1>10, CommitsOfLedger

LEMMA SettlePlanIsLong ==
    ASSUME NEW c
    PROVE  Len(SettlePlan(c)) # 0
BY DEF SettlePlan

LEMMA OwnTxStep ==
    ASSUME TypeOK, Locked, NEW s \in Sessions, SessionStep(s), ~Commit(s), TxChecked(s)
    PROVE  TxChecked(s)'
<1> DEFINE c == call[s]
<1>1. UNCHANGED <<tx, match>>
  BY OnlyCommitsWrite DEF tables, ledger
<1>2. at[s] \in Nat /\ IdleHoldsNothing
  BY DEF TypeOK, Locked
<1>3. CASE Starts(s)
  BY <1>2, <1>3 DEF Starts, IdleHoldsNothing, TxChecked
<1>4. CASE Ends(s)
  BY <1>4 DEF Ends, TxChecked
<1>5. CASE Locks(s)
  BY <1>5 DEF Locks, TxChecked
<1>6. CASE Skips(s) /\ Skip(s)
  <2>1. c.op \notin OwnTx /\ c.op \notin TransferOps /\ call'[s] = c
    BY <1>6, SkipsNoLock DEF Skips
  <2> QED
    BY <2>1 DEF TxChecked, OwnTx, TxOps, TransferOps
<1>7. CASE Advances(s) /\ Pass(s)
  <2>1. call'[s] = c /\ at'[s] = at[s]
    BY <1>7 DEF Advances
  <2>2. ~LedgerRefused(c, at[s]) /\ ~LedgerAnswered(c, at[s])
    BY <1>7 DEF Pass, Refused, Answered
  <2>3. ASSUME c.op = "Settle", at[s] = Len(SettlePlan(c))
        PROVE  Allocated(c.tx) + c.amount <= tx[c.tx].amount
    <3>1. at[s] > 0
      <4>1. at[s] # 0
        BY <2>3, SettlePlanIsLong, Zenon
      <4> QED
        BY <1>2, <4>1
    <3>2. ~SettleRefused(c, at[s])
      BY <2>2, <2>3, <3>1 DEF LedgerRefused
    <3> QED
      BY <2>3, <3>2 DEF SettleRefused, Fits
  <2>4. ASSUME c.op = "CorrectTx", at[s] = 1
        PROVE  ~HasEvidence(c.tx)
    <3>1. ~TxRefused(c)
      BY <2>2, <2>4 DEF LedgerRefused, TxOps
    <3>2. OfTx(c.tx) = {}
      BY <2>4, <3>1 DEF TxRefused
    <3> QED
      BY <3>2 DEF HasEvidence, Confirmed
  <2>5. ASSUME c.op = "Transfer", at[s] = 2
        PROVE  /\ Opposite(Pair[c.group][1], Pair[c.group][2])
               /\ ~HasEvidence(Pair[c.group][1]) /\ ~HasEvidence(Pair[c.group][2])
               /\ match[c.group].status # "REVERSED"
    <3>1. ~TransferRefused(c) /\ ~Paired(c.group)
      BY <2>2, <2>5 DEF LedgerRefused, LedgerAnswered, TransferOps
    <3> QED
      BY <2>5, <3>1 DEF TransferRefused
  <2>6. ASSUME c.op = "ReverseTransfer", at[s] = 2
        PROVE  match[c.group].status = "CONFIRMED"
    <3>1. ~TransferRefused(c) /\ ~Unpaired(c.group)
      BY <2>2, <2>6 DEF LedgerRefused, LedgerAnswered, TransferOps
    <3>2. Confirmed(OfTx(Pair[c.group][1])) = {c.group}
      BY <2>6, <3>1 DEF TransferRefused
    <3> QED
      BY <3>2 DEF Confirmed
  <2>7. /\ SettlePlan(call[s])' = SettlePlan(c) /\ Allocated(call[s].tx)' = Allocated(c.tx)
        /\ HasEvidence(call[s].tx)' = HasEvidence(c.tx)
    BY <1>1, <2>1 DEF SettlePlan, TxPlan, Allocated, HasEvidence, Sum, Confirmed, OfTx
  <2>8. /\ Opposite(Pair[call[s].group][1], Pair[call[s].group][2])'
           = Opposite(Pair[c.group][1], Pair[c.group][2])
        /\ HasEvidence(Pair[call[s].group][1])' = HasEvidence(Pair[c.group][1])
        /\ HasEvidence(Pair[call[s].group][2])' = HasEvidence(Pair[c.group][2])
    BY <1>1, <2>1 DEF Opposite, HasEvidence, Confirmed, OfTx
  <2> QED
    BY <1>1, <2>1, <2>3, <2>4, <2>5, <2>6, <2>7, <2>8 DEF TxChecked
<1> QED
  BY <1>2, <1>3, <1>4, <1>5, <1>6, <1>7, OneSessionMoves

(* The record of a transfer is only written under both of its rows.        *)
LEMMA LockedGroupStays ==
    ASSUME TypeOK, Locked, NEW s \in Sessions, NEW t \in Sessions, s # t, Commit(s),
           NEW g \in Groups, ForUpdate("transactions", Pair[g][1]) \in held[t]
    PROVE  match'[g] = match[g]
<1>1. PICK c : c = call[s]
  OBVIOUS
<1>2. match \in [Matches -> Evidence] /\ g \in Matches /\ g \notin Settlements
  BY LedgerAssumption DEF TypeOK, LedgerTypeOK, Matches
<1>3. CASE UNCHANGED <<tx, match>>
  BY <1>3
<1>4. CASE c \in LedgerCalls /\ c.op = "Settle" /\ SettleWrite(c)
  BY <1>2, <1>4, SettleFields DEF SettleWrite
<1>5. CASE c \in LedgerCalls /\ c.op = "Unsettle" /\ UnsettleWrite(c)
  BY <1>2, <1>5, UnsettleFields DEF UnsettleWrite
<1>6. CASE TxWrite(c)
  BY <1>6 DEF TxWrite
<1>7. CASE c \in LedgerCalls /\ c.op \in TransferOps /\ TransferWrite(c)
  <2>1. ForUpdate("transactions", Pair[c.group][1]) \in held[s]
    BY <1>1, <1>7, WritersHoldTheirRows
  <2>2. ~Conflict(ForUpdate("transactions", Pair[c.group][1]), ForUpdate("transactions", Pair[g][1]))
    BY <2>1 DEF Locked, LocksExclude
  <2>3. c.group # g
    BY <2>2 DEF Conflict, ForUpdate
  <2> QED
    BY <1>2, <1>7, <2>3 DEF TransferWrite
<1> QED
  BY <1>1, <1>3, <1>4, <1>5, <1>6, <1>7, CommitsOfLedger

(* No other session makes wrong what a session has checked of its          *)
(* transactions.                                                           *)
LEMMA OtherTxCommit ==
    ASSUME TypeOK, Locked, NEW s \in Sessions, Commit(s), NEW t \in Sessions, t # s,
           TxChecked(t), Rests(t), call[t] # None, passed[t]
    PROVE  TxChecked(t)'
<1>1. PICK c : c = call[t]
  OBVIOUS
<1>2. call'[t] = c /\ at'[t] = at[t] /\ passed'[t] = passed[t] /\ at[t] \in Nat
  BY <1>1 DEF Rests, TypeOK
<1>3. c \in Calls
  BY <1>1 DEF TypeOK
<1>4. ASSUME c.op \in OwnTx, at[t] > 0
      PROVE  Stays(c.tx)
  <2>1. ForUpdate("transactions", c.tx) \in held[t]
    BY <1>1, <1>4 DEF Locked, OrderLocked, TxLocked
  <2> QED
    BY <2>1, LockedTxStays
<1>5. ASSUME c.op \in TransferOps, at[t] = 2
      PROVE  /\ Stays(Pair[c.group][1]) /\ Stays(Pair[c.group][2])
             /\ match'[c.group] = match[c.group]
             /\ Pair[c.group][1] \in Transactions /\ Pair[c.group][2] \in Transactions
  <2>1. at[t] > 0 /\ at[t] > 1
    BY <1>5
  <2>2. TransferPlan(c)[1] \in held[t] /\ TransferPlan(c)[2] \in held[t]
    BY <1>1, <1>5, <2>1 DEF Locked, PairLocked
  <2>3. \A u \in {Pair[c.group][1], Pair[c.group][2]} : ForUpdate("transactions", u) \in held[t]
    BY <2>2 DEF TransferPlan
  <2>4. c \in LedgerCalls
    BY <1>3, <1>5, CallsAreOfAKind DEF TransferOps, OrderOps, HeaderOps, StockOps
  <2> QED
    BY <1>5, <2>3, <2>4, TransferFields, LockedTxStays, LockedGroupStays
<1>6. ASSUME c.op = "Settle", at[t] = Len(SettlePlan(c))
      PROVE  Allocated(c.tx)' + c.amount <= tx'[c.tx].amount
  <2>1. at[t] > 0
    <3>1. at[t] # 0
      BY <1>6, SettlePlanIsLong, Zenon
    <3> QED
      BY <1>2, <3>1
  <2>2. Stays(c.tx)
    BY <1>4, <1>6, <2>1 DEF OwnTx
  <2>3. c \in LedgerCalls
    BY <1>3, <1>6, CallsAreOfAKind DEF OrderOps, HeaderOps, StockOps
  <2>4. c.tx \in Transactions /\ c.amount \in Nat
    BY <1>6, <2>3, SettleFields, LedgerAssumption DEF Amounts
  <2>5. Allocated(c.tx) + c.amount <= tx[c.tx].amount
    BY <1>1, <1>6 DEF TxChecked
  <2>6. Allocated(c.tx)' <= Allocated(c.tx) /\ tx'[c.tx].amount = tx[c.tx].amount
    BY <2>2, <2>4, AllocatedShrinks DEF Stays
  <2>7. Allocated(c.tx) \in Nat /\ Allocated(c.tx)' \in Nat
    BY AllocatedIsNatural, AllocatedIsNaturalNext
  <2>8. tx[c.tx] \in Bank
    BY <2>4 DEF TypeOK, LedgerTypeOK
  <2>9. tx[c.tx].amount \in Nat
    BY <2>8, LedgerAssumption DEF Bank, Amounts
  <2> QED
    BY <2>4, <2>5, <2>6, <2>7, <2>9
<1>7. \A u : Stays(u) /\ ~HasEvidence(u) => ~HasEvidence(u)'
  BY DEF Stays, HasEvidence, Standing
<1>8. ASSUME c.op = "CorrectTx", at[t] = 1
      PROVE  ~HasEvidence(c.tx)'
  <2>1. ~HasEvidence(c.tx)
    BY <1>1, <1>8 DEF TxChecked
  <2> QED
    BY <1>4, <1>7, <1>8, <2>1 DEF OwnTx, TxOps
<1>9. ASSUME c.op = "Transfer", at[t] = 2
      PROVE  /\ Opposite(Pair[c.group][1], Pair[c.group][2])'
             /\ ~HasEvidence(Pair[c.group][1])' /\ ~HasEvidence(Pair[c.group][2])'
             /\ match'[c.group].status # "REVERSED"
  <2>1. /\ Opposite(Pair[c.group][1], Pair[c.group][2])
        /\ ~HasEvidence(Pair[c.group][1]) /\ ~HasEvidence(Pair[c.group][2])
        /\ match[c.group].status # "REVERSED"
    BY <1>1, <1>9 DEF TxChecked
  <2>2. /\ Stays(Pair[c.group][1]) /\ Stays(Pair[c.group][2])
        /\ match'[c.group] = match[c.group]
        /\ Pair[c.group][1] \in Transactions /\ Pair[c.group][2] \in Transactions
    BY <1>5, <1>9 DEF TransferOps
  <2>3. Opposite(Pair[c.group][1], Pair[c.group][2])'
    BY <2>1, <2>2 DEF Opposite, Stays
  <2> QED
    BY <1>7, <2>1, <2>2, <2>3
<1>10. ASSUME c.op = "ReverseTransfer", at[t] = 2
       PROVE  match'[c.group].status = "CONFIRMED"
  BY <1>1, <1>5, <1>10 DEF TxChecked, TransferOps
<1>11. /\ SettlePlan(call[t])' = SettlePlan(c) /\ Allocated(call[t].tx)' = Allocated(c.tx)'
       /\ HasEvidence(call[t].tx)' = HasEvidence(c.tx)'
  BY <1>2 DEF SettlePlan, TxPlan, Allocated, HasEvidence, Sum, Confirmed, OfTx
<1>12. /\ Opposite(Pair[call[t].group][1], Pair[call[t].group][2])'
          = Opposite(Pair[c.group][1], Pair[c.group][2])'
       /\ HasEvidence(Pair[call[t].group][1])' = HasEvidence(Pair[c.group][1])'
       /\ HasEvidence(Pair[call[t].group][2])' = HasEvidence(Pair[c.group][2])'
  BY <1>2 DEF Opposite, HasEvidence, Confirmed, OfTx
<1> QED
  BY <1>2, <1>6, <1>8, <1>9, <1>10, <1>11, <1>12 DEF TxChecked

LEMMA LedgerStep ==
    ASSUME TypeOK, Locked, LedgerKept, [Next]_vars
    PROVE  LedgerKept'
<1>1. ASSUME NEW s \in Sessions, SessionStep(s)
      PROVE  LedgerKept'
  <2>1. (NotOverdrawn /\ TransfersArePairs)'
    <3>1. CASE Commit(s)
      BY <3>1, CommitKeepsLedger DEF LedgerKept
    <3>2. CASE ~Commit(s)
      <4>1. UNCHANGED <<tx, match>>
        BY <1>1, <3>2, OnlyCommitsWrite DEF tables, ledger
      <4> QED
        BY <4>1 DEF LedgerKept, NotOverdrawn, TransfersArePairs, Allocated, Sum, Confirmed, OfTx
    <3> QED
      BY <3>1, <3>2
  <2>2. TxChecked(s)'
    <3>1. CASE Commit(s)
      <4>1. call'[s] = None
        BY <3>1 DEF Commit, Finish, TypeOK
      <4> QED
        BY <4>1 DEF TxChecked
    <3>2. CASE ~Commit(s)
      BY <1>1, <3>2, OwnTxStep DEF LedgerKept
    <3> QED
      BY <3>1, <3>2
  <2>3. ASSUME NEW t \in Sessions, t # s PROVE TxChecked(t)'
    <3>1. Rests(t) /\ TxChecked(t)
      BY <1>1, <2>3, OneSessionMoves DEF Locked, LedgerKept
    <3>2. CASE Commit(s) /\ call[t] # None /\ passed[t]
      BY <2>3, <3>1, <3>2, OtherTxCommit
    <3>3. CASE ~(call[t] # None /\ passed[t])
      BY <3>1, <3>3 DEF Rests, TxChecked
    <3>4. CASE ~Commit(s)
      <4>1. UNCHANGED <<tx, match>>
        BY <1>1, <3>4, OnlyCommitsWrite DEF tables, ledger
      <4> QED
        BY <3>1, <4>1 DEF Rests, TxChecked, SettlePlan, TxPlan, Opposite, HasEvidence, Allocated, Sum,
                          Confirmed, OfTx
    <3> QED
      BY <3>2, <3>3, <3>4
  <2> QED
    BY <2>1, <2>2, <2>3 DEF LedgerKept
<1>2. CASE UNCHANGED vars
  <2>1. UNCHANGED <<tx, match, call, passed>>
    BY <1>2 DEF vars, tables, ledger, sessions
  <2>2. NotOverdrawn' /\ TransfersArePairs'
    BY <2>1 DEF LedgerKept, NotOverdrawn, TransfersArePairs, Allocated, Sum, Confirmed, OfTx
  <2>3. ASSUME NEW s \in Sessions PROVE TxChecked(s)'
    <3>1. TxChecked(s)
      BY DEF LedgerKept
    <3>2. call'[s] = call[s] /\ passed'[s] = passed[s] /\ at'[s] = at[s] /\ tx' = tx /\ match' = match
      BY <1>2 DEF vars, tables, ledger, sessions
    <3> QED
      BY <3>1, <3>2 DEF TxChecked, SettlePlan, TxPlan, Opposite, HasEvidence, Allocated, Sum,
                        Confirmed, OfTx
  <2> QED
    BY <2>2, <2>3 DEF LedgerKept
<1> QED
  BY <1>1, <1>2 DEF Next, SessionStep, Done

LEMMA LedgerStarts ==
    ASSUME Init
    PROVE  LedgerKept
<1>1. \A u : ~HasEvidence(u)
  BY DEF Init, LedgerInit, NoMatch, HasEvidence, Confirmed, OfTx
<1>2. tx \in [Transactions -> Bank]
  BY TypeInit DEF TypeOK, LedgerTypeOK
<1>3. \A u \in Transactions : Allocated(u) = 0 /\ tx[u].amount \in Amounts
  BY <1>1, <1>2, AllocatedOfNone DEF Bank
<1>4. NotOverdrawn
  BY <1>3, LedgerAssumption DEF NotOverdrawn, Amounts
<1>5. TransfersArePairs
  BY DEF Init, LedgerInit, NoMatch, TransfersArePairs, Matches
<1>6. \A s \in Sessions : TxChecked(s)
  BY DEF Init, TxChecked
<1> QED
  BY <1>4, <1>5, <1>6 DEF LedgerKept

(* However settlements, transfers, corrections and reversals of a bank     *)
(* transaction run into each other, what is confirmed of it is never more  *)
(* than its amount: for any sessions, transactions and amounts.            *)
THEOREM AllocationsStayWithinAmounts == Spec => []NotOverdrawn
<1>1. Init => TypeOK /\ Locked /\ LedgerKept
  BY TypeInit, LockedInit, LedgerStarts
<1>2. TypeOK /\ Locked /\ LedgerKept /\ [Next]_vars => TypeOK' /\ Locked' /\ LedgerKept'
  BY TypeStep, LockedStep, LedgerStep
<1>3. LedgerKept => NotOverdrawn
  BY DEF LedgerKept
<1> QED
  BY <1>1, <1>2, <1>3, PTL DEF Spec

LEMMA CommitOnlyReverses ==
    ASSUME TypeOK, Locked, LedgerKept, NEW s \in Sessions, Commit(s), NEW m \in Matches,
           match[m].status # "NONE", match'[m] # match[m]
    PROVE  /\ match[m].status = "CONFIRMED"
           /\ match'[m] = [match[m] EXCEPT !.status = "REVERSED"]
<1>1. PICK c : c = call[s]
  OBVIOUS
<1>2. match \in [Matches -> Evidence] /\ at[s] = Len(Plan(c)) /\ passed[s] /\ call[s] # None
  BY <1>1, CommitsOfLedger DEF TypeOK, LedgerTypeOK
<1>3. CASE UNCHANGED <<tx, match>>
  BY <1>3
<1>4. CASE c.op = "Settle" /\ SettleWrite(c) /\ match[c.match] = NoMatch
  BY <1>2, <1>4 DEF SettleWrite, NoMatch
<1>5. CASE UnsettleWrite(c)
  <2>1. match' = [match EXCEPT ![c.match] = [match[c.match] EXCEPT !.status = "REVERSED"]]
    BY <1>5 DEF UnsettleWrite
  <2>2. c.match = m
    BY <1>2, <2>1
  <2>3. match'[m] = [match[m] EXCEPT !.status = "REVERSED"]
    BY <1>2, <2>1, <2>2
  <2>4. match[m].status # "REVERSED"
    BY <1>2, <2>3 DEF Evidence
  <2> QED
    BY <1>2, <2>3, <2>4 DEF Evidence
<1>6. CASE TxWrite(c)
  BY <1>6 DEF TxWrite
<1>7. CASE c \in LedgerCalls /\ c.op \in TransferOps /\ TransferWrite(c)
  <2>1. c.group = m /\ m \in Groups
    BY <1>2, <1>7, TransferFields DEF TransferWrite
  <2>2. Len(Plan(c)) = 2
    BY <1>7, PairIsLocked
  <2>3. at[s] = 2
    BY <1>2, <2>2
  <2>4. TxChecked(s)
    BY DEF LedgerKept
  <2>5. CASE c.op = "Transfer"
    <3>1. ~HasEvidence(Pair[m][1]) /\ match[m].status # "REVERSED"
      BY <1>1, <1>2, <2>1, <2>3, <2>4, <2>5 DEF TxChecked
    <3>2. match[m].status = "CONFIRMED"
      BY <1>2, <3>1 DEF Evidence
    <3>3. match[m].txs = {Pair[m][1], Pair[m][2]}
      BY <2>1, <3>2 DEF LedgerKept, TransfersArePairs
    <3> QED
      BY <3>1, <3>2, <3>3 DEF HasEvidence, Confirmed, OfTx
  <2>6. CASE c.op = "ReverseTransfer"
    <3>1. match[m].status = "CONFIRMED"
      BY <1>1, <1>2, <2>1, <2>3, <2>4, <2>6 DEF TxChecked
    <3>2. match' = [match EXCEPT ![m] = [match[m] EXCEPT !.status = "REVERSED"]]
      BY <1>7, <2>1, <2>6 DEF TransferWrite
    <3> QED
      BY <1>2, <3>1, <3>2
  <2> QED
    BY <1>7, <2>5, <2>6 DEF TransferOps
<1> QED
  BY <1>1, <1>3, <1>4, <1>5, <1>6, <1>7, CommitsOfLedger

(* Recorded evidence is never changed or dropped, only reversed, and once: *)
(* whichever calls settle, transfer and reverse under the same ids.        *)
THEOREM EvidenceIsKept == Spec => EvidenceOnlyReverses
<1> DEFINE OnlyReverses ==
      \A m \in Matches :
          match[m].status # "NONE" /\ match'[m] # match[m] =>
              /\ match[m].status = "CONFIRMED"
              /\ match'[m] = [match[m] EXCEPT !.status = "REVERSED"]
<1>1. Init => TypeOK /\ Locked /\ LedgerKept
  BY TypeInit, LockedInit, LedgerStarts
<1>2. TypeOK /\ Locked /\ LedgerKept /\ [Next]_vars => TypeOK' /\ Locked' /\ LedgerKept'
  BY TypeStep, LockedStep, LedgerStep
<1>3. TypeOK /\ Locked /\ LedgerKept /\ [Next]_vars => [OnlyReverses]_ledger
  <2> SUFFICES ASSUME TypeOK, Locked, LedgerKept, [Next]_vars
               PROVE  [OnlyReverses]_ledger
    OBVIOUS
  <2>1. ASSUME NEW s \in Sessions, SessionStep(s)
        PROVE  [OnlyReverses]_ledger
    <3>1. CASE Commit(s)
      BY <3>1, CommitOnlyReverses
    <3>2. CASE ~Commit(s)
      BY <2>1, <3>2, OnlyCommitsWrite DEF tables
    <3> QED
      BY <3>1, <3>2
  <2>2. CASE UNCHANGED vars
    BY <2>2 DEF vars, tables
  <2> QED
    BY <2>1, <2>2 DEF Next, SessionStep, Done
<1>4. EvidenceOnlyReverses <=> [][OnlyReverses]_ledger
  BY DEF EvidenceOnlyReverses
<1> HIDE DEF OnlyReverses
<1> QED
  BY <1>1, <1>2, <1>3, <1>4, PTL DEF Spec

(***************************************************************************)
(* Movements.                                                              *)
(***************************************************************************)
(* A movement takes back and posts what its request says.                  *)
LEMMA FullTermsKeepSource ==
    ASSUME NEW c \in StockCalls, c.op = "Move"
    PROVE  FullTerms(c).reverses = c.terms.reverses /\ FullTerms(c).receipt = c.terms.receipt
<1> DEFINE m == movement[c.terms.reverses]
           half == [c.terms EXCEPT !.item = m.item]
           more == [half EXCEPT !.quantity = m.quantity]
<1>1. c.terms \in Movements(Kinds)
  BY StockFields
<1>2. half.reverses = c.terms.reverses /\ half.receipt = c.terms.receipt /\ half = [x \in DOMAIN c.terms |-> half[x]]
      /\ DOMAIN half = DOMAIN c.terms
  BY <1>1 DEF Movements
<1>3. more.reverses = half.reverses /\ more.receipt = half.receipt /\ DOMAIN more = DOMAIN c.terms
  BY <1>1, <1>2 DEF Movements
<1>4. [more EXCEPT !.project = m.project].reverses = more.reverses
      /\ [more EXCEPT !.project = m.project].receipt = more.receipt
  BY <1>1, <1>3 DEF Movements
<1>5. FullTerms(c) = IF c.terms.kind = "REVERSAL" THEN [more EXCEPT !.project = m.project] ELSE c.terms
  BY DEF FullTerms
<1> HIDE DEF m, half, more
<1> QED
  BY <1>2, <1>3, <1>4, <1>5

LEMMA CountedOnceStep ==
    ASSUME TypeOK, CountedOnce, [Next]_vars
    PROVE  CountedOnce'
<1>1. movement \in [Keys -> Movements(Kinds \cup {"NONE"})]
  BY DEF TypeOK, StockTypeOK
<1>2. CASE UNCHANGED movement
  BY <1>2 DEF CountedOnce
<1>3. ASSUME NEW s \in Sessions, Commit(s)
      PROVE  CountedOnce'
  <2>1. PICK c : c = call[s]
    OBVIOUS
  <2>2. c \in Calls /\ Write(c) /\ ~StockKeyTaken(c)
    BY <1>3, <2>1, CommitType DEF Commit, KeyTaken
  <2>3. CASE StockWrite(c) /\ c.op = "Move"
    <3>1. c \in StockCalls
      BY <2>2, <2>3, WritesAreOfAKind
    <3>2. movement' = [movement EXCEPT ![c.key] = FullTerms(c)]
      BY <2>3 DEF StockWrite
    <3>3. \A k \in Keys : /\ c.terms.reverses # None => movement[k].reverses # c.terms.reverses
                          /\ c.terms.receipt # None => movement[k].receipt # c.terms.receipt
      BY <2>2, <2>3 DEF StockKeyTaken, Duplicates
    <3>4. FullTerms(c).reverses = c.terms.reverses /\ FullTerms(c).receipt = c.terms.receipt
      BY <2>3, <3>1, FullTermsKeepSource
    <3>5. \A k \in Keys : movement'[k] = IF k = c.key THEN FullTerms(c) ELSE movement[k]
      BY <1>1, <3>2
    <3> QED
      BY <3>3, <3>4, <3>5 DEF CountedOnce
  <2>4. CASE ~(StockWrite(c) /\ c.op = "Move")
    <3>1. UNCHANGED movement
      BY <2>2, <2>4 DEF Write, StockWrite, stock
    <3> QED
      BY <1>2, <3>1
  <2> QED
    BY <2>3, <2>4
<1>4. ASSUME NEW s \in Sessions, SessionStep(s), ~Commit(s)
      PROVE  UNCHANGED movement
  BY <1>4, OnlyCommitsWrite DEF tables, stock
<1>5. CASE UNCHANGED vars
  BY <1>2, <1>5 DEF vars, tables, stock
<1> QED
  BY <1>2, <1>3, <1>4, <1>5 DEF Next, SessionStep, Done

(* No movement is taken back twice and no receipt posted twice, under      *)
(* whatever keys and in whatever order the requests come.                  *)
THEOREM MovementsCountOnce == Spec => []CountedOnce
<1>1. Init => TypeOK /\ CountedOnce
  BY TypeInit DEF Init, StockInit, NoMovement, CountedOnce
<1>2. TypeOK /\ CountedOnce /\ [Next]_vars => TypeOK' /\ CountedOnce'
  BY TypeStep, CountedOnceStep
<1> QED
  BY <1>1, <1>2, PTL DEF Spec

(***************************************************************************)
(* The rows that a call keeps locked.                                      *)
(***************************************************************************)
Has(s, k, row) == at[s] >= k => row \in held[s]

TargetHeld(s) ==
    call[s] # None =>
        LET c == call[s]
        IN  /\ c.op = "Settle" => Has(s, 2, TargetRow(c.kind, c.target))
            /\ c.op = "Settle" /\ c.kind = "EXPENSE" /\ SupplierInvoice[c.target] # None =>
                  Has(s, 3, ForUpdate("invoices", SupplierInvoice[c.target]))
            /\ c.op \in InvoiceOps \cup {"Verify"} => Has(s, 1, ForUpdate("invoices", c.invoice))
            /\ c.op \in ExpenseOps \ {"CreateExpense"} => Has(s, 1, ForUpdate("expenses", c.expense))
            /\ c.op = "MatchOrder" => /\ Has(s, 1, ForShare("invoices", c.invoice))
                                      /\ Has(s, 2, ForShare("orders", c.order))

LEMMA FixedRows ==
    ASSUME NEW c
    PROVE  /\ c.op = "Settle" => /\ Plan(c) = SettlePlan(c)
                                 /\ Plan(c)[2] = TargetRow(c.kind, c.target)
           /\ c.op = "Settle" /\ c.kind = "EXPENSE" /\ SupplierInvoice[c.target] # None =>
                 Len(Plan(c)) = 3 /\ Plan(c)[3] = ForUpdate("invoices", SupplierInvoice[c.target])
           /\ c.op \in InvoiceOps => Plan(c) = InvoicePlan(c)
           /\ c.op = "Verify" => Plan(c) = VerifyPlan(c)
           /\ c.op \in ExpenseOps => Plan(c) = ExpensePlan(c)
           /\ c.op = "MatchOrder" => Plan(c) = MatchPlan(c)
           /\ c.op = "Unsettle" => Plan(c) = UnsettlePlan(c)
<1> USE DEF OrderOps, HeaderOps, StockOps
<1>1. c.op = "Settle" => Plan(c) = SettlePlan(c)
  BY DEF Plan, LedgerPlan, TxOps, TransferOps, InvoiceOps
<1>2. c.op \in InvoiceOps => Plan(c) = InvoicePlan(c)
  BY DEF Plan, LedgerPlan, TxOps, TransferOps, InvoiceOps
<1>3. c.op = "Verify" => Plan(c) = VerifyPlan(c)
  BY DEF Plan, LedgerPlan, TxOps, TransferOps, InvoiceOps
<1>4. c.op \in ExpenseOps => Plan(c) = ExpensePlan(c)
  BY DEF Plan, LedgerPlan, TxOps, TransferOps, InvoiceOps, ExpenseOps
<1>5. c.op = "MatchOrder" => Plan(c) = MatchPlan(c)
  BY DEF Plan, OrderPlan
<1>6. c.op = "Unsettle" => Plan(c) = UnsettlePlan(c)
  BY DEF Plan, LedgerPlan, TxOps, TransferOps, InvoiceOps
<1>7. SettlePlan(c)[2] = TargetRow(c.kind, c.target)
      /\ (c.kind = "EXPENSE" /\ SupplierInvoice[c.target] # None =>
             Len(SettlePlan(c)) = 3 /\ SettlePlan(c)[3] = ForUpdate("invoices", SupplierInvoice[c.target]))
  BY DEF SettlePlan
<1> QED
  BY <1>1, <1>2, <1>3, <1>4, <1>5, <1>6, <1>7

(* A row that the plan names and that was found stays locked to the end.   *)
LEMMA RowIsKept ==
    ASSUME TypeOK, IdleHoldsNothing, NEW s \in Sessions, SessionStep(s), call'[s] # None,
           NEW k \in Nat \ {0}, NEW row, row # Nothing,
           call[s] # None /\ at[s] = k - 1 => Plan(call[s])[k] = row,
           call[s] # None => Has(s, k, row)
    PROVE  Has(s, k, row)'
<1> USE DEF Has
<1>1. at[s] \in Nat
  BY DEF TypeOK
<1>2. CASE Starts(s)
  BY <1>2 DEF Starts, IdleHoldsNothing
<1>3. CASE Advances(s) /\ Pass(s)
  BY <1>3 DEF Advances, Pass, Checking
<1>4. CASE Locks(s) /\ Lock(s)
  <2>1. call[s] # None
    BY <1>4 DEF Lock, Wants, Asks, Locking
  <2> QED
    BY <1>1, <1>4, <2>1 DEF Locks
<1>5. CASE Skips(s) /\ Skip(s)
  <2>1. call[s] # None /\ Plan(call[s])[at[s] + 1] = Nothing
    BY <1>5 DEF Skip, Locking, NextRow
  <2>2. at[s] # k - 1
    BY <2>1
  <2> QED
    BY <1>1, <1>5, <2>1, <2>2 DEF Skips
<1>6. CASE Ends(s)
  BY <1>6 DEF Ends
<1> QED
  BY <1>2, <1>3, <1>4, <1>5, <1>6, OneSessionMoves

LEMMA CallIsKept ==
    ASSUME TypeOK, IdleHoldsNothing, NEW s \in Sessions, SessionStep(s), call'[s] # None
    PROVE  call[s] # None => call'[s] = call[s]
<1>1. CASE Starts(s)
  BY <1>1 DEF Starts
<1>2. CASE Advances(s) \/ Locks(s) \/ Skips(s)
  BY <1>2 DEF Advances, Locks, Skips
<1>3. CASE Ends(s)
  BY <1>3 DEF Ends
<1> QED
  BY <1>1, <1>2, <1>3, OneSessionMoves

LEMMA LocksAreSomething ==
    ASSUME NEW table, NEW key, table # "none"
    PROVE  ForUpdate(table, key) # Nothing /\ ForShare(table, key) # Nothing
BY DEF ForUpdate, ForShare, Nothing

LEMMA TargetHeldStep ==
    ASSUME TypeOK, IdleHoldsNothing, NEW s \in Sessions, SessionStep(s), TargetHeld(s)
    PROVE  TargetHeld(s)'
<1>1. SUFFICES ASSUME call'[s] # None PROVE TargetHeld(s)'
  BY DEF TargetHeld
<1>2. CASE call[s] = None
  <2>1. at'[s] = 0
    BY <1>1, <1>2, OneSessionMoves DEF Starts, Pass, Checking, Lock, Wants, Asks, Locking, Skip, Ends,
                                       IdleHoldsNothing
  <2> QED
    BY <2>1 DEF TargetHeld, Has
<1>3. CASE call[s] # None
  <2>1. PICK c : c = call[s]
    OBVIOUS
  <2>2. call'[s] = c
    BY <1>1, <1>3, <2>1, CallIsKept
  <2>3. \A k \in Nat \ {0} : \A row :
           /\ row # Nothing
           /\ at[s] = k - 1 => Plan(c)[k] = row
           /\ Has(s, k, row)
           => Has(s, k, row)'
    BY <1>1, <2>1, RowIsKept
  <2>4. \A x, kind : /\ ForUpdate("invoices", x) # Nothing /\ ForUpdate("expenses", x) # Nothing
                     /\ ForShare("invoices", x) # Nothing /\ ForShare("orders", x) # Nothing
                     /\ TargetRow(kind, x) # Nothing
    BY LocksAreSomething DEF TargetRow
  <2>5. c.op = "Settle" => Has(s, 2, TargetRow(c.kind, c.target))'
    BY <1>3, <2>1, <2>3, <2>4, FixedRows DEF TargetHeld
  <2>6. c.op = "Settle" /\ c.kind = "EXPENSE" /\ SupplierInvoice[c.target] # None =>
                  Has(s, 3, ForUpdate("invoices", SupplierInvoice[c.target]))'
    BY <1>3, <2>1, <2>3, <2>4, FixedRows DEF TargetHeld
  <2>7. c.op \in InvoiceOps \cup {"Verify"} => Has(s, 1, ForUpdate("invoices", c.invoice))'
    <3>1. c.op \in InvoiceOps \cup {"Verify"} => Plan(c)[1] = ForUpdate("invoices", c.invoice)
      BY FixedRows DEF InvoicePlan, VerifyPlan
    <3> QED
      BY <1>3, <2>1, <2>3, <2>4, <3>1 DEF TargetHeld
  <2>8. c.op \in ExpenseOps \ {"CreateExpense"} => Has(s, 1, ForUpdate("expenses", c.expense))'
    <3>1. c.op \in ExpenseOps \ {"CreateExpense"} => Plan(c)[1] = ForUpdate("expenses", c.expense)
      BY FixedRows DEF ExpensePlan
    <3> QED
      BY <1>3, <2>1, <2>3, <2>4, <3>1 DEF TargetHeld
  <2>9. c.op = "MatchOrder" => Has(s, 1, ForShare("invoices", c.invoice))' /\ Has(s, 2, ForShare("orders", c.order))'
    <3>1. c.op = "MatchOrder" => Plan(c)[1] = ForShare("invoices", c.invoice) /\ Plan(c)[2] = ForShare("orders", c.order)
      BY FixedRows DEF MatchPlan
    <3> QED
      BY <1>3, <2>1, <2>3, <2>4, <3>1 DEF TargetHeld
  <2> QED
    BY <2>2, <2>5, <2>6, <2>7, <2>8, <2>9 DEF TargetHeld, Has
<1> QED
  BY <1>2, <1>3

(***************************************************************************)
(* What may be settled: invoices, expenses and their evidence.             *)
(***************************************************************************)
(* What each call has checked of invoices, expenses and their evidence     *)
(* still holds.                                                            *)
Settleable(c) ==
    /\ Eligible(c)
    /\ Sum(Confirmed(OfObligation(c.kind, c.target))) + c.amount <= Basis(c.kind, c.target)

TargetChecked(s) ==
    call[s] # None /\ passed[s] =>
        LET c == call[s]
        IN  /\ c.op = "Settle" /\ at[s] = Len(SettlePlan(c)) => Settleable(c)
            /\ c.op \in {"VoidInvoice", "DeleteInvoice"} /\ at[s] = 1 =>
                  Confirmed(OfTarget("INVOICE", c.invoice)) = {}
            /\ c.op = "CreateExpense" => SupplierInvoice[c.expense] = None
            /\ c.op \in {"VoidExpense", "DeleteExpense"} /\ at[s] > 0 =>
                  Confirmed(OfTarget("EXPENSE", c.expense)) = {}
            /\ c.op \in {"ApproveExpense", "PayExpense"} /\ at[s] > 0 => Active(c.expense)
            /\ c.op = "MatchOrder" /\ at[s] = 2 =>
                  /\ invoice[c.invoice].life = "ACTIVE" /\ c.amount <= invoice[c.invoice].total
                  /\ order[c.order].status \in {"ISSUED", "CLOSED"}

(* An id that names no match yet has an empty row.                         *)
UnusedIsEmpty == \A m \in Matches : match[m].status = "NONE" => match[m] = NoMatch

(* Only settlements name a target, an invoice or an expense as their kind   *)
(* says.                                                                   *)
TargetsAreNamed ==
    \A m \in Matches :
        /\ match[m].kind = "INVOICE" => m \in Settlements /\ match[m].target \in Invoices
        /\ match[m].kind = "EXPENSE" => m \in Settlements /\ match[m].target \in Expenses

TargetsKept ==
    /\ VoidedTargetsAreFree /\ UnusedIsEmpty /\ TargetsAreNamed
    /\ \A s \in Sessions : TargetHeld(s) /\ TargetChecked(s)

(* Who writes to an invoice has it locked.                                 *)
LEMMA InvoiceWriters ==
    ASSUME TypeOK, NEW s \in Sessions, TargetHeld(s), Commit(s), NEW i \in Invoices, invoice'[i] # invoice[i]
    PROVE  /\ call[s].op \in InvoiceOps \cup {"Verify"} /\ call[s].invoice = i
           /\ ForUpdate("invoices", i) \in held[s]
<1>1. PICK c : c = call[s]
  OBVIOUS
<1>2. /\ c \in Calls /\ c # None /\ at[s] = Len(Plan(c)) /\ at[s] \in Nat
      /\ invoice \in [Invoices -> Payables]
  BY <1>1, CommitType DEF Commit, Writing, TypeOK, LedgerTypeOK
<1>3. LedgerWrite(c)
  BY <1>1 DEF Commit, Write, ledger
<1>4. \/ c.op = "Verify" /\ VerifyWrite(c)
      \/ c.op \in InvoiceOps /\ InvoiceWrite(c)
  BY <1>3 DEF LedgerWrite, SettleWrite, UnsettleWrite, TxWrite, TransferWrite, ExpenseWrite
<1>5. c.invoice = i
  BY <1>2, <1>4 DEF VerifyWrite, InvoiceWrite
<1>6. Len(Plan(c)) # 0
  BY <1>4, FixedRows DEF InvoicePlan, VerifyPlan
<1>7. at[s] >= 1
  BY <1>2, <1>6
<1> QED
  BY <1>1, <1>2, <1>4, <1>5, <1>7 DEF TargetHeld, Has

(* Who writes to a recorded expense has it locked.                         *)
LEMMA ExpenseWriters ==
    ASSUME TypeOK, NEW s \in Sessions, TargetHeld(s), Commit(s), NEW e \in Expenses, expense'[e] # expense[e]
    PROVE  \/ expense[e].status = "NONE"
           \/ /\ call[s].op \in ExpenseOps \ {"CreateExpense"} /\ call[s].expense = e
              /\ ForUpdate("expenses", e) \in held[s]
<1>1. PICK c : c = call[s]
  OBVIOUS
<1>2. /\ c \in Calls /\ c # None /\ at[s] = Len(Plan(c)) /\ at[s] \in Nat /\ ~KeyTaken(c)
      /\ expense \in [Expenses -> Costs]
  BY <1>1, CommitType DEF Commit, Writing, TypeOK, LedgerTypeOK
<1>3. LedgerWrite(c)
  BY <1>1 DEF Commit, Write, ledger
<1>4. \/ c.op = "Verify" /\ VerifyWrite(c)
      \/ c.op \in ExpenseOps /\ ExpenseWrite(c)
  BY <1>3 DEF LedgerWrite, SettleWrite, UnsettleWrite, TxWrite, TransferWrite, InvoiceWrite
<1>5. CASE c.op = "Verify" /\ VerifyWrite(c)
  BY <1>2, <1>5 DEF VerifyWrite
<1>6. CASE c.op \in ExpenseOps /\ ExpenseWrite(c)
  <2>1. c.expense = e
    BY <1>2, <1>6 DEF ExpenseWrite
  <2>2. CASE c.op = "CreateExpense"
    BY <1>2, <2>1, <2>2 DEF KeyTaken, LedgerKeyTaken
  <2>3. CASE c.op # "CreateExpense"
    <3>1. Len(Plan(c)) # 0
      BY <1>6, <2>3, FixedRows DEF ExpensePlan
    <3>2. at[s] >= 1
      BY <1>2, <3>1
    <3> QED
      BY <1>1, <1>2, <1>6, <2>1, <2>3, <3>2 DEF TargetHeld, Has
  <2> QED
    BY <2>2, <2>3
<1> QED
  BY <1>4, <1>5, <1>6

(* What a commit does to one row of evidence.                              *)
LEMMA MatchWrites ==
    ASSUME TypeOK, NEW s \in Sessions, Commit(s), NEW m \in Matches, match'[m] # match[m]
    PROVE  \/ /\ call[s] \in LedgerCalls /\ call[s].op = "Settle" /\ SettleWrite(call[s])
              /\ call[s].match = m /\ match[m] = NoMatch /\ match'[m] = Terms(call[s])
           \/ /\ match'[m] = [match[m] EXCEPT !.status = "REVERSED"]
              /\ call[s] \in LedgerCalls
              /\ \/ call[s].op = "Unsettle" /\ UnsettleWrite(call[s]) /\ call[s].match = m
                 \/ /\ call[s].op = "ReverseTransfer" /\ TransferWrite(call[s])
                    /\ call[s].group = m /\ m \in Groups
           \/ /\ call[s] \in LedgerCalls /\ call[s].op = "Transfer" /\ TransferWrite(call[s])
              /\ call[s].group = m /\ m \in Groups
              /\ match'[m].kind = "TRANSFER" /\ match'[m].status = "CONFIRMED"
<1>1. PICK c : c = call[s]
  OBVIOUS
<1>2. match \in [Matches -> Evidence]
  BY DEF TypeOK, LedgerTypeOK
<1>3. CASE UNCHANGED <<tx, match>>
  BY <1>3
<1>4. CASE c \in LedgerCalls /\ c.op = "Settle" /\ SettleWrite(c) /\ match[c.match] = NoMatch
  BY <1>1, <1>2, <1>4 DEF SettleWrite
<1>5. CASE c \in LedgerCalls /\ c.op = "Unsettle" /\ UnsettleWrite(c)
  <2>1. match' = [match EXCEPT ![c.match] = [match[c.match] EXCEPT !.status = "REVERSED"]]
    BY <1>5 DEF UnsettleWrite
  <2>2. c.match = m
    BY <1>2, <2>1
  <2>3. match'[m] = [match[m] EXCEPT !.status = "REVERSED"]
    BY <1>2, <2>1, <2>2
  <2> QED
    BY <1>1, <1>5, <2>2, <2>3
<1>6. CASE TxWrite(c)
  BY <1>6 DEF TxWrite
<1>7. CASE c \in LedgerCalls /\ c.op \in TransferOps /\ TransferWrite(c)
  <2>1. c.group = m /\ m \in Groups
    BY <1>2, <1>7, TransferFields DEF TransferWrite
  <2>2. CASE c.op = "Transfer"
    <3>1. match'[m].kind = "TRANSFER" /\ match'[m].status = "CONFIRMED"
      BY <1>2, <1>7, <2>1, <2>2 DEF TransferWrite
    <3> QED
      BY <1>1, <1>7, <2>1, <2>2, <3>1
  <2>3. CASE c.op = "ReverseTransfer"
    <3>1. match' = [match EXCEPT ![m] = [match[m] EXCEPT !.status = "REVERSED"]]
      BY <1>7, <2>1, <2>3 DEF TransferWrite
    <3> QED
      BY <1>1, <1>2, <1>7, <2>1, <2>3, <3>1
  <2> QED
    BY <1>7, <2>2, <2>3 DEF TransferOps
<1> QED
  BY <1>1, <1>3, <1>4, <1>5, <1>6, <1>7, CommitsOfLedger

LEMMA ReversedFields ==
    ASSUME NEW row \in Evidence
    PROVE  LET new == [row EXCEPT !.status = "REVERSED"]
           IN  /\ new.status = "REVERSED" /\ new.kind = row.kind /\ new.target = row.target
               /\ new.amount = row.amount /\ new.txs = row.txs
BY DEF Evidence

(* Who adds evidence for a target has it locked.                           *)
LEMMA SettlersHoldTheirTarget ==
    ASSUME TypeOK, NEW s \in Sessions, TargetHeld(s), Commit(s), call[s].op = "Settle"
    PROVE  /\ TargetRow(call[s].kind, call[s].target) \in held[s]
           /\ at[s] = Len(SettlePlan(call[s])) /\ passed[s] /\ call[s] # None
<1>1. PICK c : c = call[s]
  OBVIOUS
<1>2. c # None /\ at[s] = Len(Plan(c)) /\ passed[s]
  BY <1>1, CommitsOfLedger
<1>3. at[s] = Len(SettlePlan(c))
  BY <1>1, <1>2, FixedRows
<1>4. Len(SettlePlan(c)) \in {2, 3}
  BY DEF SettlePlan
<1>5. at[s] \in {2, 3}
  BY <1>3, <1>4, Zenon
<1>6. Has(s, 2, TargetRow(c.kind, c.target))
  BY <1>1, <1>2 DEF TargetHeld
<1>7. TargetRow(c.kind, c.target) \in held[s]
  BY <1>5, <1>6 DEF Has
<1> QED
  BY <1>1, <1>2, <1>3, <1>7

LEMMA HeldApart ==
    ASSUME Locked, NEW s \in Sessions, NEW t \in Sessions, s # t,
           NEW g \in held[s], NEW h \in held[t], g.table = h.table, "UPDATE" \in {g.mode, h.mode}
    PROVE  g.key # h.key
BY DEF Locked, LocksExclude, Conflict

(* While a session has a target locked, no other one adds evidence for it. *)
LEMMA LockedTargetRests ==
    ASSUME TypeOK, Locked, NEW s \in Sessions, NEW t \in Sessions, s # t, TargetHeld(s), Commit(s),
           NEW kind \in {"INVOICE", "EXPENSE"}, NEW x, TargetRow(kind, x) \in held[t]
    PROVE  \A m \in OfTarget(kind, x)' :
              /\ m \in OfTarget(kind, x) /\ match'[m].amount = match[m].amount
              /\ match'[m].status = "CONFIRMED" => match[m].status = "CONFIRMED"
<1> SUFFICES ASSUME NEW m \in Matches, match'[m].kind = kind, match'[m].target = x
             PROVE  /\ match[m].kind = kind /\ match[m].target = x /\ match'[m].amount = match[m].amount
                    /\ match'[m].status = "CONFIRMED" => match[m].status = "CONFIRMED"
  BY DEF OfTarget
<1>1. CASE match'[m] = match[m]
  BY <1>1
<1>2. CASE /\ call[s] \in LedgerCalls /\ call[s].op = "Settle" /\ match'[m] = Terms(call[s])
  <2>1. call[s].kind = kind /\ call[s].target = x
    BY <1>2 DEF Terms
  <2>2. TargetRow(kind, x) \in held[s]
    BY <1>2, <2>1, SettlersHoldTheirTarget
  <2> QED
    BY <2>2, HeldApart DEF TargetRow, ForUpdate
<1>3. CASE match'[m] = [match[m] EXCEPT !.status = "REVERSED"]
  <2>1. match[m] \in Evidence
    BY DEF TypeOK, LedgerTypeOK
  <2> QED
    BY <1>3, <2>1, ReversedFields
<1>4. CASE match'[m].kind = "TRANSFER"
  BY <1>4
<1> QED
  BY <1>1, <1>2, <1>3, <1>4, MatchWrites

(* Sums do not grow when no evidence comes in.                             *)
LEMMA EvidenceSumShrinks ==
    ASSUME NEW S \in SUBSET Matches, NEW T \in SUBSET S, NEW now,
           \A m \in T : now[m] = match[m].amount
    PROVE  /\ SumOf(T, now) <= SumOf(S, MatchAmounts)
           /\ SumOf(T, now) \in Nat /\ SumOf(S, MatchAmounts) \in Nat
<1>1. IsFiniteSet(S) /\ IsFiniteSet(T)
  BY LedgerAssumption, FS_Subset
<1>2. \A m \in T : now[m] = MatchAmounts[m]
  BY DEF MatchAmounts
<1> QED
  BY <1>1, <1>2, LedgerAssumption, SumShrinks, SumIsNatural

LEMMA InvoiceFields ==
    ASSUME NEW c \in LedgerCalls, c.op \in InvoiceOps \cup {"Verify"}
    PROVE  c.invoice \in Invoices
BY DEF LedgerCalls, InvoiceOps

(* What another session has locked of invoices, expenses and orders rests. *)
LEMMA LockedInvoiceRests ==
    ASSUME TypeOK, Locked, NEW s \in Sessions, NEW t \in Sessions, s # t, TargetHeld(s), Commit(s),
           NEW i \in Invoices, NEW g \in held[t], g.table = "invoices", g.key = i
    PROVE  invoice'[i] = invoice[i]
<1> SUFFICES ASSUME invoice'[i] # invoice[i] PROVE FALSE
  OBVIOUS
<1>1. ForUpdate("invoices", i) \in held[s]
  BY InvoiceWriters
<1> QED
  BY <1>1, HeldApart DEF ForUpdate

LEMMA LockedExpenseRests ==
    ASSUME TypeOK, Locked, NEW s \in Sessions, NEW t \in Sessions, s # t, TargetHeld(s), Commit(s),
           NEW e \in Expenses, expense[e].status # "NONE", ForUpdate("expenses", e) \in held[t]
    PROVE  expense'[e] = expense[e]
<1> SUFFICES ASSUME expense'[e] # expense[e] PROVE FALSE
  OBVIOUS
<1>1. ForUpdate("expenses", e) \in held[s]
  BY ExpenseWriters
<1> QED
  BY <1>1, HeldApart DEF ForUpdate

(* What a commit makes of one expense.                                     *)
LEMMA ExpenseWrites ==
    ASSUME TypeOK, NEW s \in Sessions, TargetHeld(s), TargetChecked(s), Commit(s), NEW e \in Expenses,
           expense'[e] # expense[e]
    PROVE  LET c == call[s]
           IN  \/ /\ c \in LedgerCalls /\ c.op = "Verify" /\ SupplierInvoice[e] = c.invoice
                  /\ ForUpdate("invoices", c.invoice) \in held[s]
                  /\ expense[e].status = "NONE" /\ expense'[e].status = "DRAFT"
               \/ /\ c \in LedgerCalls /\ c.op = "CreateExpense" /\ c.expense = e
                  /\ expense[e].status = "NONE" /\ SupplierInvoice[e] = None
               \/ /\ c \in LedgerCalls /\ c.op \in {"ApproveExpense", "PayExpense"} /\ c.expense = e
                  /\ Active(e) /\ expense'[e].status \in {"APPROVED", "PAID"}
               \/ /\ c \in LedgerCalls /\ c.op \in {"VoidExpense", "DeleteExpense"} /\ c.expense = e
                  /\ Confirmed(OfTarget("EXPENSE", e)) = {}
                  /\ ~Active(e)'
<1>1. PICK c : c = call[s]
  OBVIOUS
<1>2. /\ c \in Calls /\ c # None /\ at[s] = Len(Plan(c)) /\ at[s] \in Nat /\ ~KeyTaken(c) /\ passed[s]
      /\ expense \in [Expenses -> Costs] /\ expense' \in [Expenses -> Costs]
  BY <1>1, CommitType DEF Commit, Writing, TypeOK, LedgerTypeOK
<1>3. LedgerWrite(c)
  BY <1>1 DEF Commit, Write, ledger
<1>4. c \in LedgerCalls
  BY <1>2, <1>3, WritesAreOfAKind
<1>5. \/ c.op = "Verify" /\ VerifyWrite(c)
      \/ c.op \in ExpenseOps /\ ExpenseWrite(c)
  BY <1>3 DEF LedgerWrite, SettleWrite, UnsettleWrite, TxWrite, TransferWrite, InvoiceWrite
<1>6. CASE c.op = "Verify" /\ VerifyWrite(c)
  <2>1. Len(Plan(c)) # 0
    <3>1. Plan(c) = VerifyPlan(c)
      BY <1>6, FixedRows
    <3>2. Len(VerifyPlan(c)) # 0
      BY DEF VerifyPlan, InvoicePlan
    <3> QED
      BY <3>1, <3>2, Zenon
  <2>2. at[s] >= 1
    BY <1>2, <2>1
  <2>3. ForUpdate("invoices", c.invoice) \in held[s]
    BY <1>1, <1>2, <1>6, <2>2 DEF TargetHeld, Has
  <2>4. SupplierInvoice[e] = c.invoice /\ expense[e].status = "NONE" /\ expense'[e].status = "DRAFT"
    BY <1>6 DEF VerifyWrite
  <2> QED
    BY <1>1, <1>4, <1>6, <2>3, <2>4
<1>7. CASE c.op \in ExpenseOps /\ ExpenseWrite(c)
  <2>1. c.expense = e
    BY <1>2, <1>7 DEF ExpenseWrite
  <2>2. CASE c.op = "CreateExpense"
    <3>1. SupplierInvoice[e] = None
      BY <1>1, <1>2, <2>1, <2>2 DEF TargetChecked
    <3>2. expense[e].status = "NONE"
      BY <1>2, <2>1, <2>2 DEF KeyTaken, LedgerKeyTaken
    <3> QED
      BY <1>1, <1>4, <2>1, <2>2, <3>1, <3>2
  <2>3. CASE c.op # "CreateExpense"
    <3>1. Len(Plan(c)) # 0
      BY <1>7, <2>3, FixedRows DEF ExpensePlan
    <3>2. at[s] > 0
      BY <1>2, <3>1
    <3>3. CASE c.op \in {"ApproveExpense", "PayExpense"}
      <4>1. Active(e)
        BY <1>1, <1>2, <2>1, <3>2, <3>3 DEF TargetChecked
      <4>2. expense'[e].status \in {"APPROVED", "PAID"}
        BY <1>2, <1>7, <2>1, <3>3 DEF ExpenseWrite, Costs
      <4> QED
        BY <1>1, <1>4, <2>1, <3>3, <4>1, <4>2
    <3>4. CASE c.op \in {"VoidExpense", "DeleteExpense"}
      <4>1. Confirmed(OfTarget("EXPENSE", e)) = {}
        BY <1>1, <1>2, <2>1, <3>2, <3>4 DEF TargetChecked
      <4>2. expense'[e].status \in {"VOID", "NONE"}
        BY <1>2, <1>7, <2>1, <3>4 DEF ExpenseWrite, Costs
      <4>3. ~Active(e)'
        BY <4>2 DEF Active
      <4> QED
        BY <1>1, <1>4, <2>1, <3>4, <4>1, <4>3
    <3> QED
      BY <1>7, <2>3, <3>3, <3>4 DEF ExpenseOps
  <2> QED
    BY <2>2, <2>3
<1> QED
  BY <1>5, <1>6, <1>7

(* An expense of a locked invoice does not become active again.            *)
LEMMA InactiveRests ==
    ASSUME TypeOK, Locked, NEW s \in Sessions, NEW t \in Sessions, s # t, TargetHeld(s), TargetChecked(s),
           Commit(s), NEW e \in Expenses, NEW g \in held[t], g.table = "invoices",
           g.key = SupplierInvoice[e], SupplierInvoice[e] # None, ~Active(e)
    PROVE  ~Active(e)'
<1>1. CASE expense'[e] = expense[e]
  BY <1>1 DEF Active
<1>2. CASE expense'[e] # expense[e]
  <2>1. ~(ForUpdate("invoices", SupplierInvoice[e]) \in held[s])
    BY HeldApart DEF ForUpdate
  <2> QED
    BY <1>2, <2>1, ExpenseWrites
<1> QED
  BY <1>1, <1>2

LEMMA LockedOrderRests ==
    ASSUME TypeOK, Locked, NEW s \in Sessions, NEW t \in Sessions, s # t, Commit(s),
           NEW o \in Orders, NEW g \in held[t], g.table = "orders", g.key = o, order[o].status # "NONE"
    PROVE  order'[o] = order[o]
<1>1. PICK c : c = call[s]
  OBVIOUS
<1>2. order \in [Orders -> OrderRows] /\ at[s] = Len(Plan(c)) /\ at[s] \in Nat /\ c # None /\ ~KeyTaken(c)
  BY <1>1 DEF TypeOK, OrderTypeOK, Commit, Writing
<1>3. CASE UNCHANGED order
  BY <1>3
<1>4. CASE HeaderWrite(c) /\ c.op \in HeaderOps /\ c.op # "CreateOrder"
  <2>1. c.op \in OwnOrder /\ c.op # "Receive"
    BY <1>4 DEF HeaderOps, OwnOrder
  <2>2. Len(Plan(c)) = 1
    BY <2>1, OrderIsLockedFirst
  <2>3. ForUpdate("orders", c.order) \in held[s]
    BY <1>1, <1>2, <2>1, <2>2 DEF Locked, OrderLocked
  <2>4. c.order # o
    BY <2>3, HeldApart DEF ForUpdate
  <2> QED
    BY <1>2, <1>4, <2>4 DEF HeaderWrite
<1>5. CASE HeaderWrite(c) /\ c.op = "CreateOrder"
  <2>1. c.order # o
    BY <1>2, <1>5 DEF KeyTaken, OrderKeyTaken
  <2> QED
    BY <1>2, <1>5, <2>1 DEF HeaderWrite
<1>6. UNCHANGED order \/ (HeaderWrite(c) /\ c.op \in HeaderOps)
  BY <1>1 DEF Commit, Write, OrderWrite, ReceiptWrite, BillWrite, orders
<1> QED
  BY <1>3, <1>4, <1>5, <1>6

(* No other session makes wrong what a session has checked of its target.  *)
LEMMA SettleableRests ==
    ASSUME TypeOK, Locked, NEW s \in Sessions, NEW t \in Sessions, s # t, TargetHeld(s), TargetChecked(s),
           Commit(s), TargetHeld(t), NEW c \in LedgerCalls, c = call[t], c # None, c.op = "Settle",
           at[t] = Len(SettlePlan(c)), Settleable(c)
    PROVE  Settleable(c)'
<1> DEFINE x == c.target
           i == SupplierInvoice[x]
           linked == c.kind = "EXPENSE" /\ i # None
           S == Confirmed(OfObligation(c.kind, x))
           T == Confirmed(OfObligation(c.kind, x))'
           now == [m \in Matches |-> match'[m].amount]
<1>1. /\ \/ c.kind = "INVOICE" /\ x \in Invoices
         \/ c.kind = "EXPENSE" /\ x \in Expenses
      /\ c.amount \in Nat
  BY SettleFields, LedgerAssumption DEF Amounts
<1>2. TargetRow(c.kind, x) \in held[t]
  <2>1. Has(t, 2, TargetRow(c.kind, x))
    BY DEF TargetHeld
  <2>2. Len(SettlePlan(c)) \in {2, 3}
    BY DEF SettlePlan
  <2>3. at[t] \in {2, 3}
    BY <2>2, Zenon
  <2>4. at[t] >= 2
    <3>1. \A n \in {2, 3} : n >= 2
      OBVIOUS
    <3> QED
      BY <2>3, <3>1, Zenon
  <2> QED
    BY <2>1, <2>4 DEF Has
<1>3. linked => ForUpdate("invoices", i) \in held[t] /\ i \in Invoices
  <2>1. linked => Has(t, 3, ForUpdate("invoices", i))
    BY DEF TargetHeld
  <2>2. linked => Len(SettlePlan(c)) = 3
    BY DEF SettlePlan
  <2>3. linked => at[t] = 3 /\ i \in Invoices
    BY <1>1, <2>2, LedgerAssumption
  <2>4. linked => at[t] >= 3
    <3>1. 3 >= 3
      OBVIOUS
    <3> QED
      BY <2>3, <3>1, Zenon
  <2> HIDE DEF i, linked
  <2> QED
    BY <2>1, <2>3, <2>4 DEF Has
<1>4. linked => TargetRow("INVOICE", i) \in held[t]
  BY <1>3 DEF TargetRow
<1>5. \A m \in OfTarget(c.kind, x)' :
          /\ m \in OfTarget(c.kind, x) /\ match'[m].amount = match[m].amount
          /\ match'[m].status = "CONFIRMED" => match[m].status = "CONFIRMED"
  BY <1>1, <1>2, LockedTargetRests
<1>6. linked => \A m \in OfTarget("INVOICE", i)' :
          /\ m \in OfTarget("INVOICE", i) /\ match'[m].amount = match[m].amount
          /\ match'[m].status = "CONFIRMED" => match[m].status = "CONFIRMED"
  BY <1>4, LockedTargetRests
<1>7. T \subseteq S /\ S \subseteq Matches /\ \A m \in T : match'[m].amount = match[m].amount
  <2>1. OfObligation(c.kind, x)' = OfTarget(c.kind, x)' \cup IF linked THEN OfTarget("INVOICE", i)' ELSE {}
    BY DEF OfObligation
  <2>2. OfObligation(c.kind, x) = OfTarget(c.kind, x) \cup IF linked THEN OfTarget("INVOICE", i) ELSE {}
    BY DEF OfObligation
  <2>3. \A m \in T : m \in OfObligation(c.kind, x)' /\ match'[m].status = "CONFIRMED"
    BY DEF Confirmed
  <2>4. \A m \in OfObligation(c.kind, x)' : /\ m \in OfObligation(c.kind, x) /\ match'[m].amount = match[m].amount
                                            /\ match'[m].status = "CONFIRMED" => match[m].status = "CONFIRMED"
    BY <1>5, <1>6, <2>1, <2>2
  <2>5. OfObligation(c.kind, x) \subseteq Matches
    BY <2>2 DEF OfTarget
  <2> QED
    BY <2>3, <2>4, <2>5 DEF Confirmed
<1>8. Sum(Confirmed(OfObligation(c.kind, x)))' = SumOf(T, now) /\ Sum(S) = SumOf(S, MatchAmounts)
  BY DEF Sum, MatchAmounts
<1>9. /\ SumOf(T, now) <= SumOf(S, MatchAmounts)
      /\ SumOf(T, now) \in Nat /\ SumOf(S, MatchAmounts) \in Nat
  <2>1. \A m \in T : now[m] = match[m].amount
    BY <1>7
  <2> HIDE DEF now, S, T
  <2> QED
    BY <1>7, <2>1, EvidenceSumShrinks
<1>10. Eligible(c)' /\ Basis(c.kind, x)' = Basis(c.kind, x) /\ Basis(c.kind, x) \in Nat
  <2>1. Eligible(c) /\ LedgerTypeOK
    BY DEF Settleable, TypeOK
  <2>2. CASE c.kind = "INVOICE" /\ x \in Invoices
    <3>1. invoice'[x] = invoice[x]
      <4>1. TargetRow(c.kind, x) = ForUpdate("invoices", x)
        BY <2>2 DEF TargetRow
      <4> QED
        BY <1>2, <2>2, <4>1, LockedInvoiceRests DEF ForUpdate
    <3>2. Payable(x)' /\ \A e \in LinkedExpense(x) : ~Active(e)
      BY <2>1, <2>2, <3>1 DEF Eligible, Payable
    <3>3. ASSUME NEW e \in LinkedExpense(x)' PROVE ~Active(e)'
      <4>1. e \in Expenses /\ SupplierInvoice[e] = x /\ x # None
        BY <2>2, LedgerAssumption DEF LinkedExpense
      <4>2. ~Active(e)
        BY <3>2, <4>1 DEF LinkedExpense, Active
      <4>3. ForUpdate("invoices", x) \in held[t]
        BY <1>2, <2>2 DEF TargetRow
      <4> QED
        BY <4>1, <4>2, <4>3, InactiveRests DEF ForUpdate
    <3>4. invoice[x].total \in Nat
      BY <2>1, <2>2, LedgerAssumption DEF LedgerTypeOK, Payables, Amounts
    <3> QED
      BY <2>2, <3>1, <3>2, <3>3, <3>4 DEF Eligible, Basis
  <2>3. CASE c.kind = "EXPENSE" /\ x \in Expenses
    <3>1. expense[x].status # "NONE"
      BY <2>1, <2>3 DEF Eligible, Active
    <3>2. expense'[x] = expense[x]
      <4>1. ForUpdate("expenses", x) \in held[t]
        BY <1>2, <2>3 DEF TargetRow
      <4> QED
        BY <2>3, <3>1, <4>1, LockedExpenseRests
    <3>3. linked => invoice'[i] = invoice[i]
      BY <1>3, LockedInvoiceRests DEF ForUpdate
    <3>4. expense[x].amount \in Nat
      BY <2>1, <2>3, LedgerAssumption DEF LedgerTypeOK, Costs, Amounts
    <3>5. Eligible(c)'
      BY <2>1, <2>3, <3>2, <3>3 DEF Eligible, Payable, Active
    <3> QED
      BY <2>3, <3>2, <3>4, <3>5 DEF Basis
  <2> QED
    BY <1>1, <2>2, <2>3
<1>11. Sum(S) + c.amount <= Basis(c.kind, x)
  BY DEF Settleable
<1>12. Sum(Confirmed(OfObligation(c.kind, x)))' + c.amount <= Basis(c.kind, x)'
  <2> HIDE DEF now, S, T, x, i, linked
  <2> QED
    BY <1>1, <1>8, <1>9, <1>10, <1>11
<1> QED
  BY <1>10, <1>12 DEF Settleable

LEMMA NoEvidenceRests ==
    ASSUME TypeOK, Locked, NEW s \in Sessions, NEW t \in Sessions, s # t, TargetHeld(s), Commit(s),
           NEW kind \in {"INVOICE", "EXPENSE"}, NEW x, TargetRow(kind, x) \in held[t],
           Confirmed(OfTarget(kind, x)) = {}
    PROVE  Confirmed(OfTarget(kind, x))' = {}
<1>1. \A m \in OfTarget(kind, x)' :
         m \in OfTarget(kind, x) /\ (match'[m].status = "CONFIRMED" => match[m].status = "CONFIRMED")
  BY LockedTargetRests
<1> QED
  BY <1>1 DEF Confirmed

LEMMA OtherTargetCommit ==
    ASSUME TypeOK, Locked, NEW s \in Sessions, NEW t \in Sessions, s # t, TargetHeld(s), TargetChecked(s),
           Commit(s), TargetHeld(t), TargetChecked(t), Rests(t), call[t] # None, passed[t]
    PROVE  TargetChecked(t)'
<1>1. PICK c : c = call[t]
  OBVIOUS
<1>2. call'[t] = c /\ at'[t] = at[t] /\ at[t] \in Nat /\ c \in Calls
  BY <1>1 DEF Rests, TypeOK
<1>3. ASSUME c.op = "Settle", at[t] = Len(SettlePlan(c))
      PROVE  Settleable(c)'
  <2>1. c \in LedgerCalls
    BY <1>2, <1>3, CallsAreOfAKind DEF OrderOps, HeaderOps, StockOps
  <2>2. Settleable(c)
    BY <1>1, <1>3 DEF TargetChecked
  <2> QED
    BY <1>1, <1>3, <2>1, <2>2, SettleableRests
<1>4. ASSUME c.op \in {"VoidInvoice", "DeleteInvoice"}, at[t] = 1
      PROVE  Confirmed(OfTarget("INVOICE", c.invoice))' = {}
  <2>1. TargetRow("INVOICE", c.invoice) \in held[t]
    BY <1>1, <1>4 DEF TargetHeld, Has, InvoiceOps, TargetRow
  <2>2. Confirmed(OfTarget("INVOICE", c.invoice)) = {}
    BY <1>1, <1>4 DEF TargetChecked
  <2> QED
    BY <2>1, <2>2, NoEvidenceRests
<1>5. ASSUME c.op \in ExpenseOps \ {"CreateExpense"}, at[t] > 0
      PROVE  ForUpdate("expenses", c.expense) \in held[t] /\ c.expense \in Expenses
  <2>1. c \in LedgerCalls
    BY <1>2, <1>5, CallsAreOfAKind DEF ExpenseOps, OrderOps, HeaderOps, StockOps
  <2>2. Has(t, 1, ForUpdate("expenses", c.expense)) /\ at[t] >= 1
    BY <1>1, <1>2, <1>5 DEF TargetHeld
  <2> QED
    BY <1>5, <2>1, <2>2, ExpenseFields DEF Has
<1>6. ASSUME c.op \in {"VoidExpense", "DeleteExpense"}, at[t] > 0
      PROVE  Confirmed(OfTarget("EXPENSE", c.expense))' = {}
  <2>1. TargetRow("EXPENSE", c.expense) \in held[t]
    BY <1>5, <1>6 DEF ExpenseOps, TargetRow
  <2>2. Confirmed(OfTarget("EXPENSE", c.expense)) = {}
    BY <1>1, <1>6 DEF TargetChecked
  <2> QED
    BY <2>1, <2>2, NoEvidenceRests
<1>7. ASSUME c.op \in {"ApproveExpense", "PayExpense"}, at[t] > 0
      PROVE  Active(c.expense)'
  <2>1. Active(c.expense)
    BY <1>1, <1>7 DEF TargetChecked
  <2>2. expense'[c.expense] = expense[c.expense]
    BY <1>5, <1>7, <2>1, LockedExpenseRests DEF ExpenseOps, Active
  <2> QED
    BY <2>1, <2>2 DEF Active
<1>8. ASSUME c.op = "MatchOrder", at[t] = 2
      PROVE  invoice'[c.invoice] = invoice[c.invoice] /\ order'[c.order] = order[c.order]
  <2>1. c \in OrderCalls
    BY <1>2, <1>8, CallsAreOfAKind DEF OrderOps
  <2>2. ForShare("invoices", c.invoice) \in held[t] /\ ForShare("orders", c.order) \in held[t]
    BY <1>1, <1>8 DEF TargetHeld, Has
  <2>3. order[c.order].status # "NONE"
    BY <1>1, <1>8 DEF TargetChecked
  <2>4. c.invoice \in Invoices /\ c.order \in Orders
    BY <1>8, <2>1, MatchFields
  <2>5. invoice'[c.invoice] = invoice[c.invoice]
    BY <2>2, <2>4, LockedInvoiceRests DEF ForShare
  <2>6. order'[c.order] = order[c.order]
    BY <2>2, <2>3, <2>4, LockedOrderRests DEF ForShare
  <2> QED
    BY <2>5, <2>6
<1>9. ASSUME c.op = "MatchOrder", at[t] = 2
      PROVE  /\ invoice'[c.invoice].life = "ACTIVE" /\ c.amount <= invoice'[c.invoice].total
             /\ order'[c.order].status \in {"ISSUED", "CLOSED"}
  BY <1>1, <1>8, <1>9 DEF TargetChecked
<1>10. c.op = "CreateExpense" => SupplierInvoice[c.expense] = None
  BY <1>1 DEF TargetChecked
<1>11. /\ Settleable(call[t])' = Settleable(c)' /\ Active(call[t].expense)' = Active(c.expense)'
       /\ Confirmed(OfTarget("INVOICE", call[t].invoice))' = Confirmed(OfTarget("INVOICE", c.invoice))'
       /\ Confirmed(OfTarget("EXPENSE", call[t].expense))' = Confirmed(OfTarget("EXPENSE", c.expense))'
       /\ SettlePlan(call[t])' = SettlePlan(c)
  BY <1>2 DEF Settleable, Eligible, Payable, LinkedExpense, Active, Sum, Confirmed, OfObligation, OfTarget,
              Basis, SettlePlan, TxPlan
<1> QED
  BY <1>2, <1>3, <1>4, <1>6, <1>7, <1>9, <1>10, <1>11 DEF TargetChecked

(* What a session checks of its target it reads under the target's lock.   *)
LEMMA OwnTargetStep ==
    ASSUME TypeOK, IdleHoldsNothing, NEW s \in Sessions, SessionStep(s), ~Commit(s), TargetChecked(s)
    PROVE  TargetChecked(s)'
<1>1. PICK c : c = call[s]
  OBVIOUS
<1>2. UNCHANGED <<tx, match, invoice, expense, order>>
  BY OnlyCommitsWrite DEF tables, ledger, orders
<1>3. at[s] \in Nat
  BY DEF TypeOK
<1>4. CASE Starts(s)
  BY <1>4 DEF Starts, IdleHoldsNothing, TargetChecked
<1>5. CASE Ends(s)
  BY <1>5 DEF Ends, TargetChecked
<1>6. CASE Locks(s)
  BY <1>6 DEF Locks, TargetChecked
<1>7. CASE Skips(s) /\ Skip(s)
  <2>1. /\ call'[s] = c /\ c # None
        /\ at[s] < Len(Plan(c)) /\ Plan(c)[at[s] + 1] = Nothing
    BY <1>1, <1>7 DEF Skips, Skip, Locking, NextRow
  <2>2. c.op \notin {"Settle", "MatchOrder"} \cup InvoiceOps \cup ExpenseOps
    <3>2. \A table, key : table # "none" => ForUpdate(table, key) # Nothing /\ ForShare(table, key) # Nothing
      BY LocksAreSomething
    <3>3. \A kind, x : TargetRow(kind, x) # Nothing
      BY <3>2 DEF TargetRow
    <3>4. c.op # "MatchOrder"
      <4>1. \A k \in 1..2 : MatchPlan(c)[k] # Nothing
        BY <3>2 DEF MatchPlan
      <4>2. Len(MatchPlan(c)) = 2
        BY DEF MatchPlan
      <4> QED
        BY <1>3, <2>1, <4>1, <4>2, FixedRows
    <3>5. c.op # "Settle"
      <4>1. \A k \in 1..Len(SettlePlan(c)) : SettlePlan(c)[k] # Nothing
        BY <3>2, <3>3 DEF SettlePlan, TxPlan
      <4>2. Len(SettlePlan(c)) \in Nat
        BY DEF SettlePlan
      <4> QED
        BY <1>3, <2>1, <4>1, <4>2, FixedRows
    <3>6. c.op \notin InvoiceOps
      <4>1. Len(InvoicePlan(c)) = 1 /\ InvoicePlan(c)[1] # Nothing
        BY <3>2 DEF InvoicePlan
      <4> QED
        BY <1>3, <2>1, <4>1, FixedRows
    <3>7. c.op \notin ExpenseOps
      <4>1. \A k \in 1..Len(ExpensePlan(c)) : ExpensePlan(c)[k] # Nothing
        BY <3>2 DEF ExpensePlan
      <4>2. Len(ExpensePlan(c)) \in Nat
        BY DEF ExpensePlan
      <4> QED
        BY <1>3, <2>1, <4>1, <4>2, FixedRows
    <3> QED
      BY <3>4, <3>5, <3>6, <3>7
  <2> QED
    BY <2>1, <2>2 DEF TargetChecked, InvoiceOps, ExpenseOps
<1>8. CASE Advances(s) /\ Pass(s)
  <2>1. call'[s] = c /\ at'[s] = at[s] /\ c # None
    BY <1>1, <1>8 DEF Advances, Pass, Checking
  <2>2. ~LedgerRefused(c, at[s]) /\ ~LedgerAnswered(c, at[s]) /\ ~OrderRefused(c, at[s])
    BY <1>1, <1>8 DEF Pass, Refused, Answered
  <2>3. ASSUME c.op = "Settle", at[s] = Len(SettlePlan(c))
        PROVE  Settleable(c)
    <3>1. at[s] # 0
      BY <2>3, SettlePlanIsLong, Zenon
    <3>2. at[s] > 0
      BY <1>3, <3>1
    <3>3. ~SettleRefused(c, at[s])
      BY <2>2, <2>3, <3>2 DEF LedgerRefused
    <3> QED
      BY <2>3, <3>3 DEF SettleRefused, Fits, Settleable
  <2>4. ASSUME c.op \in {"VoidInvoice", "DeleteInvoice"}, at[s] = 1
        PROVE  Confirmed(OfTarget("INVOICE", c.invoice)) = {}
    <3>1. ~InvoiceRefused(c)
      BY <2>2, <2>4 DEF LedgerRefused, InvoiceOps
    <3> QED
      BY <2>4, <3>1 DEF InvoiceRefused, Confirmed
  <2>5. c.op = "CreateExpense" => SupplierInvoice[c.expense] = None
    BY <2>2 DEF LedgerRefused, ExpenseRefused, ExpenseOps
  <2>6. ASSUME c.op \in {"VoidExpense", "DeleteExpense"}, at[s] > 0
        PROVE  Confirmed(OfTarget("EXPENSE", c.expense)) = {}
    <3>1. ~ExpenseRefused(c, at[s])
      BY <2>2, <2>6 DEF LedgerRefused, ExpenseOps
    <3> QED
      BY <2>6, <3>1 DEF ExpenseRefused, Confirmed
  <2>7. ASSUME c.op \in {"ApproveExpense", "PayExpense"}, at[s] > 0
        PROVE  Active(c.expense)
    <3>1. ~ExpenseRefused(c, at[s])
      BY <2>2, <2>7 DEF LedgerRefused, ExpenseOps
    <3> QED
      BY <2>7, <3>1 DEF ExpenseRefused, Active
  <2>8. ASSUME c.op = "MatchOrder", at[s] = 2
        PROVE  /\ invoice[c.invoice].life = "ACTIVE" /\ c.amount <= invoice[c.invoice].total
               /\ order[c.order].status \in {"ISSUED", "CLOSED"}
    <3>1. ~MatchRefused(c, 2)
      BY <2>2, <2>8 DEF OrderRefused
    <3>2. c \in OrderCalls /\ c.invoice \in Invoices /\ c.amount \in Nat
      <4>1. c \in Calls
        BY <1>1, <2>1 DEF TypeOK
      <4>2. c \in OrderCalls
        BY <2>8, <4>1, CallsAreOfAKind DEF OrderOps
      <4> QED
        BY <2>8, <4>2, MatchFields, LedgerAssumption DEF Amounts
    <3>3. invoice[c.invoice].total \in Nat
      BY <3>2, LedgerAssumption DEF TypeOK, LedgerTypeOK, Payables, Amounts
    <3> QED
      BY <3>1, <3>2, <3>3 DEF MatchRefused
  <2>9. /\ Settleable(call[s])' = Settleable(c) /\ Active(call[s].expense)' = Active(c.expense)
        /\ Confirmed(OfTarget("INVOICE", call[s].invoice))' = Confirmed(OfTarget("INVOICE", c.invoice))
        /\ Confirmed(OfTarget("EXPENSE", call[s].expense))' = Confirmed(OfTarget("EXPENSE", c.expense))
        /\ SettlePlan(call[s])' = SettlePlan(c)
    BY <1>2, <2>1 DEF Settleable, Eligible, Payable, LinkedExpense, Active, Sum, Confirmed, OfObligation,
                      OfTarget, Basis, SettlePlan, TxPlan
  <2> QED
    BY <1>2, <2>1, <2>3, <2>4, <2>5, <2>6, <2>7, <2>8, <2>9 DEF TargetChecked
<1> QED
  BY <1>4, <1>5, <1>6, <1>7, <1>8, OneSessionMoves

LEMMA EvidenceStaysNamed ==
    ASSUME TypeOK, UnusedIsEmpty, TargetsAreNamed, NEW s \in Sessions, Commit(s)
    PROVE  (UnusedIsEmpty /\ TargetsAreNamed)'
<1> SUFFICES ASSUME NEW m \in Matches
             PROVE  /\ match'[m].status = "NONE" => match'[m] = NoMatch
                    /\ match'[m].kind = "INVOICE" => m \in Settlements /\ match'[m].target \in Invoices
                    /\ match'[m].kind = "EXPENSE" => m \in Settlements /\ match'[m].target \in Expenses
  BY DEF UnusedIsEmpty, TargetsAreNamed
<1>1. CASE match'[m] = match[m]
  <2>1. /\ match[m].status = "NONE" => match[m] = NoMatch
        /\ match[m].kind = "INVOICE" => m \in Settlements /\ match[m].target \in Invoices
        /\ match[m].kind = "EXPENSE" => m \in Settlements /\ match[m].target \in Expenses
    BY DEF UnusedIsEmpty, TargetsAreNamed
  <2> QED
    BY <1>1, <2>1
<1>2. CASE /\ call[s] \in LedgerCalls /\ call[s].op = "Settle" /\ call[s].match = m
           /\ match'[m] = Terms(call[s])
  <2>1. PICK c : c = call[s]
    OBVIOUS
  <2>2. m \in Settlements /\ (c.kind = "INVOICE" => c.target \in Invoices)
    BY <1>2, <2>1, SettleFields
  <2>3. c.kind = "EXPENSE" => c.target \in Expenses
    BY <1>2, <2>1, SettleFields
  <2> QED
    BY <1>2, <2>1, <2>2, <2>3 DEF Terms
<1>3. CASE match'[m] = [match[m] EXCEPT !.status = "REVERSED"]
  <2>1. match[m] \in Evidence
    BY DEF TypeOK, LedgerTypeOK
  <2>2. /\ match[m].kind = "INVOICE" => m \in Settlements /\ match[m].target \in Invoices
        /\ match[m].kind = "EXPENSE" => m \in Settlements /\ match[m].target \in Expenses
    BY DEF TargetsAreNamed
  <2> QED
    BY <1>3, <2>1, <2>2, ReversedFields
<1>4. CASE match'[m].kind = "TRANSFER" /\ match'[m].status = "CONFIRMED"
  BY <1>4
<1> QED
  BY <1>1, <1>2, <1>3, <1>4, MatchWrites

(* A settlement is written for a target that may still be settled.         *)
LEMMA SettlesWhatMayBe ==
    ASSUME TypeOK, NEW s \in Sessions, TargetHeld(s), TargetChecked(s), Commit(s), call[s].op = "Settle"
    PROVE  Settleable(call[s])
<1>1. at[s] = Len(SettlePlan(call[s])) /\ passed[s] /\ call[s] # None
  BY SettlersHoldTheirTarget
<1> QED
  BY <1>1 DEF TargetChecked

LEMMA EligibleIsLive ==
    ASSUME NEW c, Eligible(c), NEW x, x = c.target
    PROVE  /\ c.kind = "INVOICE" => invoice[x].life = "ACTIVE"
           /\ c.kind = "EXPENSE" => Active(x)
BY DEF Eligible, Payable, Active

(* Whoever takes an invoice out of use finds no confirmed evidence for it. *)
LEMMA ClosersFindNoEvidence ==
    ASSUME TypeOK, NEW s \in Sessions, TargetHeld(s), TargetChecked(s), Commit(s), NEW i \in Invoices,
           invoice[i].life = "ACTIVE", invoice'[i].life # "ACTIVE"
    PROVE  Confirmed(OfTarget("INVOICE", i)) = {}
<1>1. PICK c : c = call[s]
  OBVIOUS
<1>2. /\ c \in Calls /\ c # None /\ at[s] = Len(Plan(c)) /\ passed[s]
      /\ invoice \in [Invoices -> Payables] /\ invoice' \in [Invoices -> Payables]
  BY <1>1, CommitType DEF Commit, Writing, TypeOK, LedgerTypeOK
<1>3. invoice'[i] # invoice[i]
  OBVIOUS
<1>4. c.op \in InvoiceOps \cup {"Verify"} /\ c.invoice = i
  BY <1>1, <1>3, InvoiceWriters
<1>5. LedgerWrite(c)
  BY <1>1, <1>3 DEF Commit, Write, ledger
<1>6. c.op # "Verify"
  <2>1. ~VerifyWrite(c)
    BY <1>2, <1>3 DEF VerifyWrite, Payables
  <2> QED
    BY <1>5, <2>1 DEF LedgerWrite, TxOps, TransferOps, InvoiceOps, ExpenseOps
<1>7. InvoiceWrite(c)
  BY <1>4, <1>5, <1>6 DEF LedgerWrite, TxOps, TransferOps, InvoiceOps, ExpenseOps
<1>8. c.op \in {"VoidInvoice", "DeleteInvoice"}
  <2>1. CASE c.op = "Reopen"
    <3>1. invoice'[i] = [invoice[i] EXCEPT !.review = "NEEDS_REVIEW"]
      BY <1>2, <1>4, <1>7, <2>1 DEF InvoiceWrite
    <3> QED
      BY <1>2, <3>1 DEF Payables
  <2>2. CASE c.op = "EditInvoice"
    <3>1. invoice'[i] = [invoice[i] EXCEPT !.total = c.total]
      BY <1>2, <1>4, <1>7, <2>2 DEF InvoiceWrite
    <3> QED
      BY <1>2, <3>1 DEF Payables
  <2> QED
    BY <1>4, <1>6, <2>1, <2>2 DEF InvoiceOps
<1>9. at[s] = 1
  <2>1. Plan(c) = InvoicePlan(c)
    BY <1>8, FixedRows DEF InvoiceOps
  <2>2. Len(InvoicePlan(c)) = 1
    BY DEF InvoicePlan
  <2> QED
    BY <1>2, <2>1, <2>2
<1> QED
  BY <1>1, <1>2, <1>4, <1>8, <1>9 DEF TargetChecked

LEMMA CommitKeepsTargets ==
    ASSUME TypeOK, VoidedTargetsAreFree, TargetsAreNamed, NEW s \in Sessions, TargetHeld(s), TargetChecked(s),
           Commit(s)
    PROVE  VoidedTargetsAreFree'
<1> SUFFICES ASSUME NEW m \in Settlements, match'[m].status = "CONFIRMED"
             PROVE  /\ match'[m].kind = "INVOICE" => invoice'[match'[m].target].life = "ACTIVE"
                    /\ match'[m].kind = "EXPENSE" =>
                          expense'[match'[m].target].status \notin {"NONE", "VOID"}
  BY DEF VoidedTargetsAreFree, Active
<1>1. m \in Matches /\ m \notin Groups /\ match[m] \in Evidence
  BY LedgerAssumption DEF Matches, TypeOK, LedgerTypeOK
<1>2. CASE match'[m] = match[m]
  <2> PICK x : x = match[m].target
    OBVIOUS
  <2>1. ASSUME match[m].kind = "INVOICE" PROVE invoice'[x].life = "ACTIVE"
    <3>1. x \in Invoices /\ invoice[x].life = "ACTIVE"
      BY <1>1, <1>2, <2>1 DEF VoidedTargetsAreFree, TargetsAreNamed
    <3>2. m \in Confirmed(OfTarget("INVOICE", x))
      BY <1>1, <1>2, <2>1 DEF Confirmed, OfTarget
    <3> QED
      BY <3>1, <3>2, ClosersFindNoEvidence
  <2>2. ASSUME match[m].kind = "EXPENSE" PROVE expense'[x].status \notin {"NONE", "VOID"}
    <3>1. x \in Expenses /\ Active(x)
      BY <1>1, <1>2, <2>2 DEF VoidedTargetsAreFree, TargetsAreNamed
    <3>2. m \in Confirmed(OfTarget("EXPENSE", x))
      BY <1>1, <1>2, <2>2 DEF Confirmed, OfTarget
    <3>3. CASE expense'[x] = expense[x]
      BY <3>1, <3>3 DEF Active
    <3>4. CASE expense'[x] # expense[x]
      <4>1. expense'[x].status \in {"APPROVED", "PAID"}
        BY <3>1, <3>2, <3>4, ExpenseWrites DEF Active
      <4> QED
        BY <4>1
    <3> QED
      BY <3>3, <3>4
  <2> QED
    BY <1>2, <2>1, <2>2
<1>3. CASE call[s].op = "Settle" /\ SettleWrite(call[s]) /\ match'[m] = Terms(call[s])
  <2>1. PICK c : c = call[s]
    OBVIOUS
  <2>2. Eligible(c)
    BY <1>3, <2>1, SettlesWhatMayBe DEF Settleable
  <2>3. invoice' = invoice /\ expense' = expense
    BY <1>3 DEF SettleWrite
  <2>4. match'[m].kind = c.kind /\ match'[m].target = c.target
    BY <1>3, <2>1 DEF Terms
  <2>5. /\ c.kind = "INVOICE" => invoice[c.target].life = "ACTIVE"
        /\ c.kind = "EXPENSE" => Active(c.target)
    BY <2>2, EligibleIsLive
  <2> QED
    BY <2>3, <2>4, <2>5 DEF Active
<1>4. CASE match'[m] = [match[m] EXCEPT !.status = "REVERSED"]
  BY <1>1, <1>4, ReversedFields
<1> QED
  BY <1>1, <1>2, <1>3, <1>4, MatchWrites

LEMMA TargetRests ==
    ASSUME UNCHANGED <<tx, match, invoice, expense, order>>, NEW t \in Sessions, call'[t] = call[t],
           at'[t] = at[t], passed'[t] = passed[t], TargetChecked(t)
    PROVE  TargetChecked(t)'
<1>1. PICK c : c = call[t]
  OBVIOUS
<1>2. /\ Settleable(call[t])' = Settleable(c) /\ Active(call[t].expense)' = Active(c.expense)
      /\ Confirmed(OfTarget("INVOICE", call[t].invoice))' = Confirmed(OfTarget("INVOICE", c.invoice))
      /\ Confirmed(OfTarget("EXPENSE", call[t].expense))' = Confirmed(OfTarget("EXPENSE", c.expense))
      /\ SettlePlan(call[t])' = SettlePlan(c)
  BY <1>1 DEF Settleable, Eligible, Payable, LinkedExpense, Active, Sum, Confirmed, OfObligation,
              OfTarget, Basis, SettlePlan, TxPlan
<1> QED
  BY <1>1, <1>2 DEF TargetChecked

LEMMA TargetsStep ==
    ASSUME TypeOK, Locked, TargetsKept, [Next]_vars
    PROVE  TargetsKept'
<1>1. ASSUME NEW s \in Sessions, SessionStep(s)
      PROVE  TargetsKept'
  <2>1. IdleHoldsNothing /\ \A t \in Sessions : TargetHeld(t) /\ TargetChecked(t)
    BY DEF Locked, TargetsKept
  <2>2. (VoidedTargetsAreFree /\ UnusedIsEmpty /\ TargetsAreNamed)'
    <3>1. CASE Commit(s)
      BY <2>1, <3>1, CommitKeepsTargets, EvidenceStaysNamed DEF TargetsKept
    <3>2. CASE ~Commit(s)
      <4>1. UNCHANGED <<match, invoice, expense>>
        BY <1>1, <3>2, OnlyCommitsWrite DEF tables, ledger
      <4> QED
        BY <4>1 DEF TargetsKept, VoidedTargetsAreFree, Active, UnusedIsEmpty, TargetsAreNamed
    <3> QED
      BY <3>1, <3>2
  <2>3. TargetHeld(s)'
    BY <1>1, <2>1, TargetHeldStep
  <2>4. TargetChecked(s)'
    <3>1. CASE Commit(s)
      <4>1. call'[s] = None
        BY <3>1 DEF Commit, Finish, TypeOK
      <4> QED
        BY <4>1 DEF TargetChecked
    <3>2. CASE ~Commit(s)
      BY <1>1, <2>1, <3>2, OwnTargetStep
    <3> QED
      BY <3>1, <3>2
  <2>5. ASSUME NEW t \in Sessions, t # s PROVE (TargetHeld(t) /\ TargetChecked(t))'
    <3>1. Rests(t)
      BY <1>1, <2>1, <2>5, OneSessionMoves
    <3>2. TargetHeld(t)'
      BY <2>1, <3>1 DEF Rests, TargetHeld, Has
    <3>3. CASE Commit(s) /\ call[t] # None /\ passed[t]
      BY <2>1, <2>5, <3>1, <3>2, <3>3, OtherTargetCommit
    <3>4. CASE ~(call[t] # None /\ passed[t])
      BY <3>1, <3>2, <3>4 DEF Rests, TargetChecked
    <3>5. CASE ~Commit(s)
      <4>1. UNCHANGED <<tx, match, invoice, expense, order>>
        BY <1>1, <3>5, OnlyCommitsWrite DEF tables, ledger, orders
      <4>2. TargetChecked(t)'
        BY <2>1, <3>1, <4>1, TargetRests DEF Rests
      <4> QED
        BY <3>2, <4>2
    <3> QED
      BY <3>3, <3>4, <3>5
  <2> QED
    BY <2>2, <2>3, <2>4, <2>5 DEF TargetsKept
<1>2. CASE UNCHANGED vars
  <2>1. UNCHANGED <<tx, match, invoice, expense, order>> /\ call' = call /\ at' = at /\ passed' = passed /\ held' = held
    BY <1>2 DEF vars, tables, ledger, orders, sessions
  <2>2. (VoidedTargetsAreFree /\ UnusedIsEmpty /\ TargetsAreNamed)'
    BY <2>1 DEF TargetsKept, VoidedTargetsAreFree, Active, UnusedIsEmpty, TargetsAreNamed
  <2>3. ASSUME NEW t \in Sessions PROVE (TargetHeld(t) /\ TargetChecked(t))'
    <3>1. TargetHeld(t) /\ TargetChecked(t)
      BY DEF TargetsKept
    <3>2. TargetHeld(t)'
      BY <2>1, <3>1 DEF TargetHeld, Has
    <3>3. TargetChecked(t)'
      BY <2>1, <3>1, TargetRests
    <3> QED
      BY <3>2, <3>3
  <2> QED
    BY <2>2, <2>3 DEF TargetsKept
<1> QED
  BY <1>1, <1>2 DEF Next, SessionStep, Done

LEMMA TargetsInit ==
    ASSUME Init
    PROVE  TargetsKept
<1>1. match = [m \in Matches |-> NoMatch] /\ \A s \in Sessions : call[s] = None
  BY DEF Init, LedgerInit
<1> QED
  BY <1>1 DEF TargetsKept, VoidedTargetsAreFree, UnusedIsEmpty, TargetsAreNamed, TargetHeld, TargetChecked,
              NoMatch, Matches

(* Whichever of a settlement and a void of its target began first, no      *)
(* confirmed evidence is left for an invoice or an expense that is out of  *)
(* use: both take the lock of the target.                                  *)
THEOREM VoidedTargetsStayFree == Spec => []VoidedTargetsAreFree
<1>1. Init => TypeOK /\ Locked /\ TargetsKept
  BY TypeInit, LockedInit, TargetsInit
<1>2. TypeOK /\ Locked /\ TargetsKept /\ [Next]_vars => TypeOK' /\ Locked' /\ TargetsKept'
  BY TypeStep, LockedStep, TargetsStep
<1>3. TargetsKept => VoidedTargetsAreFree
  BY DEF TargetsKept
<1> QED
  BY <1>1, <1>2, <1>3, PTL DEF Spec

(* What has been confirmed, one way or the other, of one obligation.       *)
PaidBy(kind, x) ==
    OfTarget(kind, x)
    \cup IF kind = "EXPENSE" /\ SupplierInvoice[x] # None
         THEN OfTarget("INVOICE", SupplierInvoice[x])
         ELSE UNION {OfTarget("EXPENSE", e) : e \in {d \in Expenses : SupplierInvoice[d] = x}}

(* No expense made from an invoice that may be settled itself is paid.     *)
LEMMA OneSideIsPaid ==
    ASSUME TypeOK, VoidedTargetsAreFree, TargetsAreNamed, NEW c, Eligible(c), c.kind = "INVOICE",
           c.target \in Invoices, NEW e \in Expenses, SupplierInvoice[e] = c.target
    PROVE  Confirmed(OfTarget("EXPENSE", e)) = {}
<1> SUFFICES ASSUME NEW m \in Matches, match[m].kind = "EXPENSE", match[m].target = e,
                    match[m].status = "CONFIRMED"
             PROVE  FALSE
  BY DEF Confirmed, OfTarget
<1>1. Active(e)
  BY DEF VoidedTargetsAreFree, TargetsAreNamed
<1>2. e \in LinkedExpense(c.target)
  BY <1>1 DEF LinkedExpense, Active
<1> QED
  BY <1>1, <1>2 DEF Eligible

LEMMA SettlementAdds ==
    ASSUME TypeOK, VoidedTargetsAreFree, TargetsAreNamed, UnusedIsEmpty, NEW c \in LedgerCalls,
           c.op = "Settle", SettleWrite(c), match[c.match] = NoMatch, Settleable(c)
    PROVE  Paid(c.kind, c.target)' <= Basis(c.kind, c.target)
<1> DEFINE x == c.target
           S == Confirmed(OfObligation(c.kind, x))
           T == Confirmed(PaidBy(c.kind, x))'
           now == [m \in Matches |-> match'[m].amount]
<1>1. /\ \/ c.kind = "INVOICE" /\ x \in Invoices
         \/ c.kind = "EXPENSE" /\ x \in Expenses
      /\ c.amount \in 0..MaxAmount /\ c.match \in Matches
      /\ match \in [Matches -> Evidence]
  BY SettleFields, LedgerAssumption DEF Amounts, Matches, TypeOK, LedgerTypeOK
<1>2. \A m \in Matches : match'[m] = IF m = c.match THEN Terms(c) ELSE match[m]
  BY <1>1 DEF SettleWrite
<1>3. /\ match'[c.match].kind = c.kind /\ match'[c.match].target = x /\ match'[c.match].amount = c.amount
      /\ match'[c.match].status = "CONFIRMED"
  BY <1>1, <1>2 DEF Terms
<1>4. match[c.match].status = "NONE" /\ match[c.match].kind = "NONE"
  BY DEF NoMatch
<1>5. \A kind, y : OfTarget(kind, y)' = {m \in Matches : match'[m].kind = kind /\ match'[m].target = y}
  BY DEF OfTarget
<1>6. T = S \cup {c.match}
  <2>1. CASE c.kind = "EXPENSE" /\ SupplierInvoice[x] # None
    <3>1. PaidBy(c.kind, x)' = OfTarget("EXPENSE", x)' \cup OfTarget("INVOICE", SupplierInvoice[x])'
      BY <2>1 DEF PaidBy
    <3>2. OfObligation(c.kind, x) = OfTarget("EXPENSE", x) \cup OfTarget("INVOICE", SupplierInvoice[x])
      BY <2>1 DEF OfObligation
    <3> QED
      BY <1>1, <1>2, <1>3, <1>4, <1>5, <2>1, <3>1, <3>2 DEF Confirmed, OfTarget
  <2>2. CASE c.kind = "EXPENSE" /\ SupplierInvoice[x] = None
    <3>1. PaidBy(c.kind, x)' = OfTarget("EXPENSE", x)'
      <4>1. {d \in Expenses : SupplierInvoice[d] = x} = {}
        BY <1>1, <2>2, LedgerAssumption
      <4> QED
        BY <2>2, <4>1 DEF PaidBy
    <3>2. OfObligation(c.kind, x) = OfTarget("EXPENSE", x)
      BY <2>2 DEF OfObligation
    <3> QED
      BY <1>1, <1>2, <1>3, <1>4, <1>5, <2>2, <3>1, <3>2 DEF Confirmed, OfTarget
  <2>3. CASE c.kind = "INVOICE" /\ x \in Invoices
    <3>1. PaidBy(c.kind, x)' = OfTarget("INVOICE", x)'
                               \cup UNION {OfTarget("EXPENSE", e)' : e \in {d \in Expenses : SupplierInvoice[d] = x}}
      BY <2>3 DEF PaidBy
    <3>2. OfObligation(c.kind, x) = OfTarget("INVOICE", x)
      BY <2>3 DEF OfObligation
    <3>3. ASSUME NEW e \in Expenses, SupplierInvoice[e] = x, NEW m \in OfTarget("EXPENSE", e)'
          PROVE  match'[m].status # "CONFIRMED"
      <4>1. Confirmed(OfTarget("EXPENSE", e)) = {}
        BY <2>3, <3>3, OneSideIsPaid DEF Settleable
      <4>2. m \in Matches /\ match'[m].kind = "EXPENSE" /\ match'[m].target = e
        BY <1>5, <3>3
      <4>3. m # c.match
        BY <1>3, <2>3, <4>2
      <4> QED
        BY <1>2, <4>1, <4>2, <4>3 DEF Confirmed, OfTarget
    <3>4. T = {m \in OfTarget("INVOICE", x)' : match'[m].status = "CONFIRMED"}
      BY <3>1, <3>3 DEF Confirmed
    <3> QED
      BY <1>1, <1>2, <1>3, <1>4, <1>5, <2>3, <3>2, <3>4 DEF Confirmed, OfTarget
  <2> QED
    BY <1>1, <2>1, <2>2, <2>3
<1>7. c.match \notin S /\ S \in SUBSET Matches /\ IsFiniteSet(S)
  <2>1. S \in SUBSET Matches
    BY DEF Confirmed, OfObligation, OfTarget
  <2>2. c.match \notin S
    BY <1>4 DEF Confirmed
  <2> QED
    BY <2>1, <2>2, LedgerAssumption, FS_Subset
<1>8. Paid(c.kind, x)' = SumOf(T, now) /\ Sum(S) = SumOf(S, MatchAmounts)
  BY DEF Paid, PaidBy, Sum, MatchAmounts
<1>9. SumOf(S \cup {c.match}, now) = SumOf(S, MatchAmounts) + c.amount
  <2>1. now[c.match] = c.amount
    BY <1>1, <1>3
  <2>2. \A m \in S : MatchAmounts[m] = now[m]
    BY <1>2, <1>7 DEF MatchAmounts
  <2> HIDE DEF now, S
  <2>3. MaxAmount \in Nat /\ now[c.match] \in 0..MaxAmount
    BY <1>1, <2>1, LedgerAssumption
  <2>4. SumOf(S \cup {c.match}, now) = SumOf(S, MatchAmounts) + now[c.match]
    BY <1>7, <2>2, <2>3, SumGrows
  <2> QED
    BY <2>1, <2>4
<1>10. Sum(S) + c.amount <= Basis(c.kind, x)
  BY DEF Settleable
<1> HIDE DEF now, S, T
<1> QED
  BY <1>6, <1>8, <1>9, <1>10

(* Whoever settles, only what may be settled is settled, and an invoice and*)
(* its linked expense together for no more than what is payable.           *)
THEOREM EvidenceIsSound == Spec => NewEvidenceIsSound
<1> DEFINE Sound ==
      \A m \in Settlements, o \in Obligations :
          match[m].status = "NONE" /\ match'[m].kind = o[1] /\ match'[m].target = o[2] =>
              /\ Eligible([kind |-> o[1], target |-> o[2]])
              /\ Paid(o[1], o[2])' <= Basis(o[1], o[2])
<1>1. Init => TypeOK /\ Locked /\ TargetsKept
  BY TypeInit, LockedInit, TargetsInit
<1>2. TypeOK /\ Locked /\ TargetsKept /\ [Next]_vars => TypeOK' /\ Locked' /\ TargetsKept'
  BY TypeStep, LockedStep, TargetsStep
<1>3. TypeOK /\ Locked /\ TargetsKept /\ [Next]_vars => [Sound]_ledger
  <2> SUFFICES ASSUME TypeOK, Locked, TargetsKept, [Next]_vars
               PROVE  [Sound]_ledger
    OBVIOUS
  <2>1. ASSUME NEW s \in Sessions, Commit(s)
        PROVE  Sound
    <3> SUFFICES ASSUME NEW m \in Settlements, NEW o \in Obligations, match[m].status = "NONE",
                        match'[m].kind = o[1], match'[m].target = o[2]
                 PROVE  /\ Eligible([kind |-> o[1], target |-> o[2]])
                        /\ Paid(o[1], o[2])' <= Basis(o[1], o[2])
      OBVIOUS
    <3>1. /\ m \in Matches /\ m \notin Groups /\ match[m] \in Evidence
          /\ o[1] \in {"INVOICE", "EXPENSE"}
      BY LedgerAssumption DEF Matches, TypeOK, LedgerTypeOK, Obligations
    <3>2. match[m] = NoMatch /\ match[m].kind = "NONE"
      BY <3>1 DEF TargetsKept, UnusedIsEmpty, NoMatch
    <3>3. PICK c : c = call[s]
      OBVIOUS
    <3>4. c \in LedgerCalls /\ c.op = "Settle" /\ SettleWrite(c) /\ c.match = m /\ match'[m] = Terms(c)
      <4>1. ~(match'[m] = [match[m] EXCEPT !.status = "REVERSED"])
        BY <3>1, <3>2, ReversedFields
      <4>2. match'[m] # match[m]
        BY <3>1, <3>2
      <4> QED
        BY <2>1, <3>1, <3>3, <4>1, <4>2, MatchWrites
    <3>5. c.kind = o[1] /\ c.target = o[2]
      BY <3>4 DEF Terms
    <3>6. Settleable(c)
      BY <2>1, <3>3, <3>4, SettlesWhatMayBe DEF TargetsKept
    <3>7. Paid(c.kind, c.target)' <= Basis(c.kind, c.target)
      BY <3>2, <3>4, <3>6, SettlementAdds DEF TargetsKept
    <3>8. Eligible([kind |-> c.kind, target |-> c.target])
      BY <3>6 DEF Settleable, Eligible
    <3> QED
      BY <3>5, <3>7, <3>8 DEF Paid
  <2>2. ASSUME NEW s \in Sessions, SessionStep(s), ~Commit(s)
        PROVE  UNCHANGED ledger
    BY <2>2, OnlyCommitsWrite DEF tables
  <2>3. CASE UNCHANGED vars
    BY <2>3 DEF vars, tables
  <2> QED
    BY <2>1, <2>2, <2>3 DEF Next, SessionStep, Done
<1>4. NewEvidenceIsSound <=> [][Sound]_ledger
  BY DEF NewEvidenceIsSound
<1> HIDE DEF Sound
<1> QED
  BY <1>1, <1>2, <1>3, <1>4, PTL DEF Spec

(* What a commit adds to the matches of invoices with orders.              *)
LEMMA BillsGrow ==
    ASSUME TypeOK, NEW s \in Sessions, TargetHeld(s), TargetChecked(s), Commit(s), Len(bills') > Len(bills)
    PROVE  LET b == bills'[Len(bills')]
           IN  /\ invoice[b.invoice].life = "ACTIVE" /\ b.amount <= invoice[b.invoice].total
               /\ order[b.order].status \in {"ISSUED", "CLOSED"}
               /\ \A n \in Billed(b.invoice) : bills[n].status = "UNMATCHED"
<1>1. PICK c : c = call[s]
  OBVIOUS
<1>2. /\ c \in Calls /\ c # None /\ at[s] = Len(Plan(c)) /\ passed[s] /\ ~KeyTaken(c)
      /\ bills \in Seq(Bills) /\ Len(bills) \in Nat
  BY <1>1, CommitType DEF Commit, Writing, TypeOK, OrderTypeOK
<1>3. bills' # bills
  BY <1>2
<1>4. BillWrite(c) /\ c.op \in {"MatchOrder", "UnmatchOrder"}
  BY <1>1, <1>3 DEF Commit, Write, OrderWrite, ReceiptWrite, HeaderWrite, orders
<1>5. c.op = "MatchOrder"
  <2>1. SUFFICES ASSUME c.op = "UnmatchOrder" PROVE FALSE
    BY <1>4
  <2>2. bills' = [bills EXCEPT ![c.bill].status = "UNMATCHED"]
    BY <1>4, <2>1 DEF BillWrite
  <2>3. Len(bills') = Len(bills)
    BY <1>2, <2>2
  <2> QED
    BY <1>2, <2>3
<1>6. at[s] = 2
  <2>1. Plan(c) = MatchPlan(c)
    BY <1>5, FixedRows
  <2>2. Len(MatchPlan(c)) = 2
    BY DEF MatchPlan
  <2> QED
    BY <1>2, <2>1, <2>2
<1>7. PICK b : b = [status |-> "CONFIRMED", invoice |-> c.invoice, order |-> c.order, amount |-> c.amount]
  OBVIOUS
<1>8. bills' = Append(bills, b)
  BY <1>4, <1>5, <1>7 DEF BillWrite
<1>9. bills'[Len(bills')] = b
  BY <1>2, <1>8
<1>10. /\ invoice[c.invoice].life = "ACTIVE" /\ c.amount <= invoice[c.invoice].total
       /\ order[c.order].status \in {"ISSUED", "CLOSED"}
  BY <1>1, <1>2, <1>5, <1>6 DEF TargetChecked
<1>11. \A n \in Billed(c.invoice) : bills[n].status = "UNMATCHED"
  <2>1. \A n \in Billed(c.invoice) : bills[n].status # "CONFIRMED" /\ n \in DOMAIN bills
    BY <1>2, <1>5 DEF KeyTaken, OrderKeyTaken, ConfirmedBill, Billed
  <2>2. \A n \in DOMAIN bills : bills[n] \in Bills
    BY <1>2
  <2> QED
    BY <2>1, <2>2 DEF Bills
<1> QED
  BY <1>7, <1>9, <1>10, <1>11

(* However matches, corrections of the invoice and changes of the order    *)
(* run into each other, a new match is of an active invoice, for no more   *)
(* than it bills, with a released order, and the only one that stands.     *)
THEOREM MatchesAreSound == Spec => NewMatchIsSound
<1> DEFINE Sound ==
      Len(bills') > Len(bills) =>
          LET b == bills'[Len(bills')]
          IN  /\ invoice[b.invoice].life = "ACTIVE" /\ b.amount <= invoice[b.invoice].total
              /\ order[b.order].status \in {"ISSUED", "CLOSED"}
              /\ \A n \in Billed(b.invoice) : bills[n].status = "UNMATCHED"
<1>1. Init => TypeOK /\ Locked /\ TargetsKept
  BY TypeInit, LockedInit, TargetsInit
<1>2. TypeOK /\ Locked /\ TargetsKept /\ [Next]_vars => TypeOK' /\ Locked' /\ TargetsKept'
  BY TypeStep, LockedStep, TargetsStep
<1>3. TypeOK /\ TargetsKept /\ [Next]_vars => [Sound]_bills
  <2> SUFFICES ASSUME TypeOK, TargetsKept, [Next]_vars
               PROVE  [Sound]_bills
    OBVIOUS
  <2>1. ASSUME NEW s \in Sessions, Commit(s)
        PROVE  Sound
    BY <2>1, BillsGrow DEF TargetsKept
  <2>2. ASSUME NEW s \in Sessions, SessionStep(s), ~Commit(s)
        PROVE  UNCHANGED bills
    BY <2>2, OnlyCommitsWrite DEF tables, orders
  <2>3. CASE UNCHANGED vars
    BY <2>3 DEF vars, tables, orders
  <2> QED
    BY <2>1, <2>2, <2>3 DEF Next, SessionStep, Done
<1>4. NewMatchIsSound <=> [][Sound]_bills
  BY DEF NewMatchIsSound
<1> HIDE DEF Sound
<1> QED
  BY <1>1, <1>2, <1>3, <1>4, PTL DEF Spec

(***************************************************************************)
(* The reconciliation status.                                              *)
(***************************************************************************)
(* What ReviewTellsEvidence says of one transaction.                       *)
Tells(u) ==
    /\ tx[u].status = "REVERSED" \/ tx[u].review = "IGNORED" => Allocated(u) = 0
    /\ tx[u].review # "IGNORED" => tx[u].review = Derived(tx[u].amount, Allocated(u))
    /\ tx[u].group # None => u \in match[tx[u].group].txs /\ Confirmed({tx[u].group}) # {}

(* A settlement is of one transaction.                                     *)
SettlementsAreSingle ==
    \A m \in Settlements : match[m].status # "NONE" => \E t \in Transactions : match[m].txs = {t}

(* What each call has checked of the state of its transactions.            *)
TxSeen(s) ==
    call[s] # None /\ passed[s] =>
        LET c == call[s]
        IN  /\ c.op = "Settle" /\ at[s] > 0 => tx[c.tx].status = "POSTED"
            /\ c.op \in TxOps /\ at[s] = 1 => ~HasEvidence(c.tx)
            /\ c.op = "Transfer" /\ at[s] = 2 =>
                  tx[Pair[c.group][1]].status = "POSTED" /\ tx[Pair[c.group][2]].status = "POSTED"
            /\ c.op = "ReverseTransfer" /\ at[s] = 2 =>
                  Standing(Pair[c.group][1]) \subseteq {c.group} /\ Standing(Pair[c.group][2]) \subseteq {c.group}

UnsettleFound(s) ==
    call[s] # None /\ call[s].op = "Unsettle" /\ at[s] > 0 => match[call[s].match].status # "NONE"

ReviewKept ==
    /\ ReviewTellsEvidence /\ SettlementsAreSingle
    /\ \A s \in Sessions : TxSeen(s) /\ UnsettleFound(s)

LEMMA SumAgrees ==
    ASSUME NEW S, NEW f, NEW g, \A x \in S : f[x] = g[x]
    PROVE  SumOf(S, f) = SumOf(S, g)
<1>1. Units(S, f) = Units(S, g)
  BY DEF Units
<1> QED
  BY <1>1 DEF SumOf

LEMMA AllocatedRests ==
    ASSUME NEW u, Standing(u)' = Standing(u),
           \A m \in Standing(u) : match'[m].amount = match[m].amount
    PROVE  Allocated(u)' = Allocated(u)
<1> DEFINE now == [m \in Matches |-> match'[m].amount]
           S == Standing(u)
<1>1. \A m \in S : now[m] = MatchAmounts[m]
  BY DEF MatchAmounts, Standing, Confirmed, OfTx
<1>2. Allocated(u)' = SumOf(S, now) /\ Allocated(u) = SumOf(S, MatchAmounts)
  BY DEF Allocated, Sum, MatchAmounts, Standing
<1> HIDE DEF now, S
<1> QED
  BY <1>1, <1>2, SumAgrees

LEMMA ReviewedRow ==
    ASSUME tx \in [Transactions -> Bank], NEW t \in Transactions, NEW sum
    PROVE  /\ \A u \in Transactions : u # t => Reviewed(t, sum)[u] = tx[u]
           /\ Reviewed(t, sum)[t].amount = tx[t].amount /\ Reviewed(t, sum)[t].status = tx[t].status
           /\ Reviewed(t, sum)[t].group = tx[t].group
           /\ Reviewed(t, sum)[t].review = Derived(tx[t].amount, sum)
<1> DEFINE review == Derived(tx[t].amount, sum)
<1>1. Reviewed(t, sum) = [tx EXCEPT ![t] = [tx[t] EXCEPT !.review = review]]
  BY DEF Reviewed
<1>2. tx[t] \in Bank
  OBVIOUS
<1> HIDE DEF review
<1>3. /\ [tx[t] EXCEPT !.review = review].amount = tx[t].amount
      /\ [tx[t] EXCEPT !.review = review].status = tx[t].status
      /\ [tx[t] EXCEPT !.review = review].group = tx[t].group
      /\ [tx[t] EXCEPT !.review = review].review = review
  BY <1>2 DEF Bank
<1>4. Reviewed(t, sum)[t] = [tx[t] EXCEPT !.review = review]
  BY <1>1
<1>5. \A u \in Transactions : u # t => Reviewed(t, sum)[u] = tx[u]
  BY <1>1
<1> QED
  BY <1>3, <1>4, <1>5 DEF review

LEMMA DerivedStates ==
    ASSUME NEW amount, NEW sum
    PROVE  Derived(amount, sum) # "IGNORED"
BY DEF Derived

(* A transaction whose row, evidence and transfer rest tells what it told. *)
LEMMA TellsOn ==
    ASSUME NEW u \in Transactions, Tells(u), tx'[u] = tx[u], Allocated(u)' = Allocated(u),
           tx[u].group # None => match'[tx[u].group] = match[tx[u].group]
    PROVE  Tells(u)'
<1>1. tx[u].group # None => Confirmed({tx[u].group})' = Confirmed({tx[u].group})
  BY DEF Confirmed
<1>2. (Allocated(u) = 0)' <=> Allocated(u) = 0
  OBVIOUS
<1> QED
  BY <1>1, <1>2 DEF Tells

LEMMA SettleTells ==
    ASSUME TypeOK, NEW c \in LedgerCalls, c.op = "Settle", SettleWrite(c), match[c.match] = NoMatch,
           tx[c.tx].status = "POSTED", NEW u \in Transactions, Tells(u)
    PROVE  Tells(u)'
<1> DEFINE x == c.match
<1> PICK g : g = tx[u].group
  OBVIOUS
<1>1. /\ match \in [Matches -> Evidence] /\ tx \in [Transactions -> Bank]
      /\ x \in Matches /\ x \in Settlements /\ c.tx \in Transactions /\ c.amount \in 0..MaxAmount
  BY SettleFields, LedgerAssumption DEF TypeOK, LedgerTypeOK, Matches, Amounts
<1>2. \A m \in Matches : match'[m] = IF m = x THEN Terms(c) ELSE match[m]
  BY <1>1 DEF SettleWrite
<1>3. /\ match'[x].txs = {c.tx} /\ match'[x].amount = c.amount /\ match'[x].status = "CONFIRMED"
      /\ match[x].status = "NONE"
  BY <1>1, <1>2 DEF Terms, NoMatch
<1>4. tx' = Reviewed(c.tx, Allocated(c.tx) + c.amount)
  BY DEF SettleWrite
<1>5. tx[u].group # None => tx[u].group \in Groups /\ tx[u].group \in Matches /\ tx[u].group # x
  BY <1>1, LedgerAssumption DEF Bank, Matches
<1>6. tx[u].group # None => match'[tx[u].group] = match[tx[u].group]
  BY <1>2, <1>5
<1>7. CASE u # c.tx
  <2>1. Standing(u)' = Standing(u)
    BY <1>2, <1>3, <1>7 DEF Standing, Confirmed, OfTx
  <2>2. \A m \in Standing(u) : match'[m].amount = match[m].amount
    BY <1>2, <1>3 DEF Standing, Confirmed, OfTx
  <2>3. tx'[u] = tx[u]
    BY <1>1, <1>4, <1>7, ReviewedRow
  <2> QED
    BY <1>6, <2>1, <2>2, <2>3, AllocatedRests, TellsOn
<1>8. CASE u = c.tx
  <2>1. x \notin Standing(u) /\ Standing(u)' = Standing(u) \cup {x}
    BY <1>1, <1>2, <1>3, <1>8 DEF Standing, Confirmed, OfTx
  <2>2. \A m \in Standing(u) : match'[m].amount = match[m].amount
    BY <1>2, <2>1 DEF Standing, Confirmed, OfTx
  <2>3. Allocated(u)' = Allocated(u) + c.amount
    BY <1>1, <1>3, <2>1, <2>2, EvidenceAdds
  <2>4. /\ tx'[u].amount = tx[u].amount /\ tx'[u].status = "POSTED" /\ tx'[u].group = tx[u].group
        /\ tx'[u].review = Derived(tx[u].amount, Allocated(u) + c.amount)
    BY <1>1, <1>4, <1>8, ReviewedRow
  <2>5. tx'[u].review # "IGNORED"
    BY <2>4, DerivedStates
  <2>6. tx'[u].review = Derived(tx'[u].amount, Allocated(u)')
    BY <2>3, <2>4
  <2>7. tx[u].group # None => Confirmed({g})' = Confirmed({g})
    BY <1>6 DEF Confirmed
  <2>8. tx'[u].group # None => u \in match'[tx'[u].group].txs /\ Confirmed({g})' # {}
    BY <1>6, <2>4, <2>7 DEF Tells
  <2>9. Derived(tx[u].amount, Allocated(u))' = Derived(tx'[u].amount, Allocated(u)')
    BY DEF Derived
  <2>10. Confirmed({g})' = {m \in {tx'[u].group} : match'[m].status = "CONFIRMED"}
    BY <2>4 DEF Confirmed
  <2> QED
    BY <2>4, <2>5, <2>6, <2>8, <2>9, <2>10 DEF Tells
<1> QED
  BY <1>7, <1>8

LEMMA UnsettleTells ==
    ASSUME TypeOK, NEW c \in LedgerCalls, c.op = "Unsettle", UnsettleWrite(c), SettlementsAreSingle,
           match[c.match].status # "NONE", NEW u \in Transactions, Tells(u)
    PROVE  Tells(u)'
<1> DEFINE x == c.match
<1> PICK g : g = tx[u].group
  OBVIOUS
<1>1. /\ match \in [Matches -> Evidence] /\ tx \in [Transactions -> Bank]
      /\ x \in Matches /\ x \in Settlements
  BY UnsettleFields DEF TypeOK, LedgerTypeOK, Matches
<1>2. PICK t \in Transactions : match[x].txs = {t}
  BY <1>1 DEF SettlementsAreSingle
<1>3. match' = [match EXCEPT ![x] = [match[x] EXCEPT !.status = "REVERSED"]]
  BY DEF UnsettleWrite
<1>4. match[x] \in Evidence
  BY <1>1
<1>5. /\ match'[x].txs = {t} /\ match'[x].amount = match[x].amount /\ match'[x].status = "REVERSED"
      /\ \A m \in Matches : m # x => match'[m] = match[m]
  BY <1>1, <1>2, <1>3, <1>4, ReversedFields
<1>6. (CHOOSE v \in Transactions : v \in match[x].txs) = t
  BY <1>2
<1>7. tx' = Reviewed(t, Sum(Confirmed(OfTx(t)) \ {x}))
  BY <1>6 DEF UnsettleWrite
<1>8. tx[u].group # None => tx[u].group \in Groups /\ tx[u].group \in Matches /\ tx[u].group # x
  BY <1>1, LedgerAssumption DEF Bank, Matches
<1>9. tx[u].group # None => match'[tx[u].group] = match[tx[u].group]
  BY <1>5, <1>8
<1>10. CASE u # t
  <2>1. Standing(u)' = Standing(u)
    BY <1>2, <1>5, <1>10 DEF Standing, Confirmed, OfTx
  <2>2. \A m \in Standing(u) : match'[m].amount = match[m].amount
    BY <1>5 DEF Standing, Confirmed, OfTx
  <2>3. tx'[u] = tx[u]
    BY <1>1, <1>7, <1>10, ReviewedRow
  <2> QED
    BY <1>9, <2>1, <2>2, <2>3, AllocatedRests, TellsOn
<1>11. CASE u = t
  <2> DEFINE S == Standing(u) \ {x}
             now == [m \in Matches |-> match'[m].amount]
  <2>1. Standing(u)' = S
    BY <1>5, <1>11 DEF Standing, Confirmed, OfTx
  <2>2. \A m \in S : now[m] = MatchAmounts[m]
    BY <1>5 DEF MatchAmounts, Standing, Confirmed, OfTx
  <2>3. Allocated(u)' = SumOf(S, now) /\ Sum(Confirmed(OfTx(t)) \ {x}) = SumOf(S, MatchAmounts)
    BY <1>11, <2>1 DEF Allocated, Sum, MatchAmounts, Standing
  <2>4. Allocated(u)' = Sum(Confirmed(OfTx(t)) \ {x})
    <3> HIDE DEF S, now
    <3> QED
      BY <2>2, <2>3, SumAgrees
  <2>5. /\ tx'[u].amount = tx[u].amount /\ tx'[u].status = tx[u].status /\ tx'[u].group = tx[u].group
        /\ tx'[u].review = Derived(tx[u].amount, Allocated(u)')
    BY <1>1, <1>7, <1>11, <2>4, ReviewedRow
  <2>6. tx'[u].review # "IGNORED"
    BY <2>5, DerivedStates
  <2>7. tx[u].status = "REVERSED" => Allocated(u)' = 0
    <3>1. Allocated(u)' <= Allocated(u)
      BY <1>5, <2>1, AllocatedShrinks DEF Standing, Confirmed, OfTx
    <3>2. Allocated(u)' \in Nat
      BY AllocatedIsNaturalNext
    <3>3. tx[u].status = "REVERSED" => Allocated(u) = 0
      BY DEF Tells
    <3> QED
      BY <3>1, <3>2, <3>3
  <2>8. tx[u].group # None => Confirmed({g})' = Confirmed({g})
    BY <1>9 DEF Confirmed
  <2>9. tx'[u].group # None => u \in match'[tx'[u].group].txs /\ Confirmed({g})' # {}
    BY <1>9, <2>5, <2>8 DEF Tells
  <2>10. Derived(tx[u].amount, Allocated(u))' = Derived(tx'[u].amount, Allocated(u)')
    BY DEF Derived
  <2>11. Confirmed({g})' = {m \in {tx'[u].group} : match'[m].status = "CONFIRMED"}
    BY <2>5 DEF Confirmed
  <2> HIDE DEF S, now
  <2> QED
    BY <2>5, <2>6, <2>7, <2>9, <2>10, <2>11 DEF Tells
<1> QED
  BY <1>10, <1>11

LEMMA TxWriteTells ==
    ASSUME TypeOK, NEW c \in LedgerCalls, c.op \in TxOps, TxWrite(c), ~HasEvidence(c.tx),
           NEW u \in Transactions, Tells(u)
    PROVE  Tells(u)'
<1>1. tx \in [Transactions -> Bank] /\ c.tx \in Transactions /\ match' = match
  BY TxFields DEF TypeOK, LedgerTypeOK, TxWrite
<1>2. Allocated(u)' = Allocated(u)
  BY <1>1 DEF Allocated, Sum, Confirmed, OfTx
<1>3. CASE u # c.tx
  <2>1. tx'[u] = tx[u]
    BY <1>1, <1>3 DEF TxWrite
  <2> QED
    BY <1>1, <1>2, <2>1, TellsOn
<1>4. CASE u = c.tx
  <2>1. Allocated(u) = 0 /\ Allocated(u)' = 0
    BY <1>2, <1>4, AllocatedOfNone
  <2>2. tx[u] \in Bank
    BY <1>1
  <2>3. /\ tx'[u].group = tx[u].group
        /\ tx'[u].review \in {"IGNORED", "UNMATCHED"}
    <3>1. tx[u].review \in {"IGNORED", "UNMATCHED"}
      BY <2>1 DEF Tells, Derived
    <3>2. CASE c.op = "CorrectTx"
      <4>1. tx' = [tx EXCEPT ![u] = [tx[u] EXCEPT !.amount = c.amount, !.direction = c.direction]]
        BY <1>4, <3>2 DEF TxWrite
      <4> QED
        BY <1>1, <2>2, <3>1, <4>1 DEF Bank
    <3>3. CASE c.op = "ReverseTx"
      <4>1. tx' = [tx EXCEPT ![u] = [tx[u] EXCEPT !.status = "REVERSED", !.review = "UNMATCHED"]]
        BY <1>4, <3>3 DEF TxWrite
      <4> QED
        BY <1>1, <2>2, <4>1 DEF Bank
    <3>4. CASE c.op = "IgnoreTx"
      <4>1. tx' = [tx EXCEPT ![u] = [tx[u] EXCEPT !.review = "IGNORED"]]
        BY <1>4, <3>4 DEF TxWrite
      <4> QED
        BY <1>1, <2>2, <4>1 DEF Bank
    <3>5. CASE c.op = "RestoreTx"
      <4>1. tx' = [tx EXCEPT ![u] = [tx[u] EXCEPT !.review = "UNMATCHED"]]
        BY <1>4, <3>5 DEF TxWrite
      <4> QED
        BY <1>1, <2>2, <4>1 DEF Bank
    <3> QED
      BY <3>2, <3>3, <3>4, <3>5 DEF TxOps
  <2>4. Confirmed({tx[u].group})' = Confirmed({tx[u].group})
    BY <1>1, <2>3 DEF Confirmed
  <2>5. Derived(tx[u].amount, Allocated(u))' = "UNMATCHED"
    BY <2>1 DEF Derived
  <2> QED
    BY <1>1, <2>1, <2>3, <2>4, <2>5 DEF Tells
<1> QED
  BY <1>3, <1>4

LEMMA TransferTells ==
    ASSUME TypeOK, TransfersArePairs, NEW c \in LedgerCalls, c.op = "Transfer", TransferWrite(c),
           NEW l, NEW r, l = Pair[c.group][1], r = Pair[c.group][2],
           Opposite(l, r), ~HasEvidence(l), ~HasEvidence(r), match[c.group].status # "REVERSED",
           tx[l].status = "POSTED", tx[r].status = "POSTED", NEW u \in Transactions, Tells(u)
    PROVE  Tells(u)'
<1> DEFINE g == c.group
<1>1. /\ match \in [Matches -> Evidence] /\ tx \in [Transactions -> Bank]
      /\ g \in Groups /\ g \in Matches /\ l \in Transactions /\ r \in Transactions
  BY TransferFields DEF TypeOK, LedgerTypeOK, Matches, TransferOps
<1>2. match[g].status = "NONE"
  <2>1. match[g].status \in {"NONE", "CONFIRMED", "REVERSED"}
    BY <1>1 DEF Evidence
  <2>2. match[g].status = "CONFIRMED" => g \in Confirmed(OfTx(l))
    BY <1>1 DEF TransfersArePairs, Confirmed, OfTx
  <2> QED
    BY <2>1, <2>2 DEF HasEvidence
<1>3. /\ match'[g].txs = {l, r} /\ match'[g].amount = tx[l].amount /\ match'[g].status = "CONFIRMED"
      /\ \A m \in Matches : m # g => match'[m] = match[m]
  BY <1>1 DEF TransferWrite
<1>4. \A v \in Transactions :
          tx'[v] = IF v \notin {l, r} THEN tx[v] ELSE [tx[v] EXCEPT !.group = g, !.review = "MATCHED"]
  BY DEF TransferWrite
<1>5. CASE u \notin {l, r}
  <2>1. Standing(u)' = Standing(u)
    BY <1>2, <1>3, <1>5 DEF Standing, Confirmed, OfTx
  <2>2. \A m \in Standing(u) : match'[m].amount = match[m].amount
    BY <1>2, <1>3 DEF Standing, Confirmed, OfTx
  <2>3. tx'[u] = tx[u]
    BY <1>4, <1>5
  <2>4. tx[u].group # None => match'[tx[u].group] = match[tx[u].group]
    <3>1. tx[u].group # None => tx[u].group \in Matches
      BY <1>1 DEF Bank, Matches
    <3>2. tx[u].group # None => tx[u].group # g
      BY <1>2 DEF Tells, Confirmed
    <3> QED
      BY <1>3, <3>1, <3>2
  <2> QED
    BY <2>1, <2>2, <2>3, <2>4, AllocatedRests, TellsOn
<1>6. CASE u \in {l, r}
  <2>1. Standing(u) = {} /\ Allocated(u) = 0
    BY <1>6, AllocatedOfNone
  <2>2. Standing(u)' = Standing(u) \cup {g}
    BY <1>1, <1>3, <1>6, <2>1 DEF Standing, Confirmed, OfTx
  <2>3. match'[g].amount = tx[u].amount /\ tx[u].amount \in Amounts
    BY <1>1, <1>3, <1>6 DEF Opposite, Bank
  <2>4. match'[g].amount \in 0..MaxAmount /\ tx[u].amount \in Nat /\ tx[u].amount > 0
    BY <2>3, LedgerAssumption DEF Amounts
  <2>5. Allocated(u)' = Allocated(u) + match'[g].amount
    BY <1>1, <2>1, <2>2, <2>4, EvidenceAdds
  <2>6. tx'[u] = [tx[u] EXCEPT !.group = g, !.review = "MATCHED"] /\ tx[u] \in Bank
    BY <1>1, <1>4, <1>6
  <2>7. /\ tx'[u].amount = tx[u].amount /\ tx'[u].status = "POSTED" /\ tx'[u].group = g
        /\ tx'[u].review = "MATCHED"
    BY <1>6, <2>6 DEF Bank
  <2>8. Derived(tx[u].amount, Allocated(u))' = "MATCHED"
    <3>1. Allocated(u)' = tx[u].amount
      BY <2>1, <2>3, <2>4, <2>5
    <3> QED
      BY <2>4, <2>7, <3>1 DEF Derived
  <2>9. Confirmed({tx[u].group})' # {}
    BY <1>3, <2>7 DEF Confirmed
  <2> QED
    BY <1>3, <1>6, <2>7, <2>8, <2>9 DEF Tells
<1> QED
  BY <1>5, <1>6

LEMMA ReverseTransferTells ==
    ASSUME TypeOK, TransfersArePairs, NEW c \in LedgerCalls, c.op = "ReverseTransfer", TransferWrite(c),
           NEW l, NEW r, l = Pair[c.group][1], r = Pair[c.group][2],
           Standing(l) \subseteq {c.group}, Standing(r) \subseteq {c.group}, match[c.group].status = "CONFIRMED",
           NEW u \in Transactions, Tells(u)
    PROVE  Tells(u)'
<1> DEFINE g == c.group
<1>1. /\ match \in [Matches -> Evidence] /\ tx \in [Transactions -> Bank]
      /\ g \in Groups /\ g \in Matches /\ l \in Transactions /\ r \in Transactions
  BY TransferFields DEF TypeOK, LedgerTypeOK, Matches, TransferOps
<1>2. match[g].txs = {l, r} /\ match[g] \in Evidence
  BY <1>1 DEF TransfersArePairs
<1>3. match' = [match EXCEPT ![g] = [match[g] EXCEPT !.status = "REVERSED"]]
  BY DEF TransferWrite
<1>4. /\ match'[g].status = "REVERSED" /\ match'[g].txs = {l, r}
      /\ \A m \in Matches : m # g => match'[m] = match[m]
  BY <1>1, <1>2, <1>3, ReversedFields
<1>5. \A v \in Transactions :
          tx'[v] = IF v \notin {l, r} THEN tx[v] ELSE [tx[v] EXCEPT !.group = None, !.review = "UNMATCHED"]
  BY DEF TransferWrite
<1>6. CASE u \notin {l, r}
  <2>1. Standing(u)' = Standing(u)
    BY <1>2, <1>4, <1>6 DEF Standing, Confirmed, OfTx
  <2>2. \A m \in Standing(u) : match'[m].amount = match[m].amount
    BY <1>2, <1>4, <1>6 DEF Standing, Confirmed, OfTx
  <2>3. tx'[u] = tx[u]
    BY <1>5, <1>6
  <2>4. tx[u].group # None => match'[tx[u].group] = match[tx[u].group]
    <3>1. tx[u].group # None => tx[u].group \in Matches
      BY <1>1 DEF Bank, Matches
    <3>2. tx[u].group # None => tx[u].group # g
      BY <1>2, <1>6 DEF Tells
    <3> QED
      BY <1>4, <3>1, <3>2
  <2> QED
    BY <2>1, <2>2, <2>3, <2>4, AllocatedRests, TellsOn
<1>7. CASE u \in {l, r}
  <2>1. Standing(u)' = {}
    BY <1>4, <1>7 DEF Standing, Confirmed, OfTx
  <2>2. Allocated(u)' = 0
    <3>1. Sum({}) = 0
      BY SumOfNone DEF Sum
    <3>2. Allocated(u)' = SumOf({}, [m \in Matches |-> match'[m].amount])
      BY <2>1 DEF Allocated, Sum, Standing
    <3>3. SumOf({}, [m \in Matches |-> match'[m].amount]) = 0
      BY SumOfNone
    <3> QED
      BY <3>2, <3>3
  <2>3. tx'[u] = [tx[u] EXCEPT !.group = None, !.review = "UNMATCHED"] /\ tx[u] \in Bank
    BY <1>1, <1>5, <1>7
  <2>4. tx'[u].group = None /\ tx'[u].review = "UNMATCHED"
    BY <2>3 DEF Bank
  <2>5. Derived(tx[u].amount, Allocated(u))' = "UNMATCHED"
    BY <2>2 DEF Derived
  <2> QED
    BY <2>2, <2>4, <2>5 DEF Tells
<1> QED
  BY <1>6, <1>7

(* No other session changes the state of a locked transaction.             *)
LEMMA LockedStatusStays ==
    ASSUME TypeOK, Locked, NEW s \in Sessions, NEW t \in Sessions, s # t, Commit(s),
           NEW u \in Transactions, ForUpdate("transactions", u) \in held[t], SettlementsAreSingle,
           UnsettleFound(s)
    PROVE  tx'[u].status = tx[u].status
<1>1. PICK c : c = call[s]
  OBVIOUS
<1>2. tx \in [Transactions -> Bank] /\ tx[u] \in Bank
  BY DEF TypeOK, LedgerTypeOK
<1>3. CASE UNCHANGED <<tx, match>>
  BY <1>3
<1>4. CASE c \in LedgerCalls /\ c.op = "Settle" /\ SettleWrite(c)
  <2>1. c.tx \in Transactions /\ tx' = Reviewed(c.tx, Allocated(c.tx) + c.amount)
    BY <1>4, SettleFields DEF SettleWrite
  <2> QED
    BY <1>2, <2>1, ReviewedRow
<1>5. CASE c \in LedgerCalls /\ c.op = "Unsettle" /\ UnsettleWrite(c)
  <2> DEFINE t2 == CHOOSE v \in Transactions : v \in match[c.match].txs
  <2>1. tx' = Reviewed(t2, Sum(Confirmed(OfTx(t2)) \ {c.match}))
    BY <1>5 DEF UnsettleWrite
  <2>2. t2 \in Transactions
    <3>1. c.match \in Settlements
      BY <1>5, UnsettleFields
    <3>2. at[s] > 0 /\ call[s] # None
      <4>1. at[s] = Len(Plan(c)) /\ at[s] \in Nat /\ call[s] # None
        BY <1>1 DEF Commit, Writing, TypeOK
      <4>2. Plan(c) = UnsettlePlan(c)
        BY <1>5, FixedRows
      <4>3. Len(UnsettlePlan(c)) # 0
        BY DEF UnsettlePlan
      <4>4. at[s] # 0
        BY <4>1, <4>2, <4>3, Zenon
      <4> QED
        BY <4>1, <4>4
    <3>3. \E v \in Transactions : match[c.match].txs = {v}
      BY <1>1, <1>5, <3>1, <3>2 DEF UnsettleFound, SettlementsAreSingle
    <3> QED
      BY <3>3
  <2> HIDE DEF t2
  <2> QED
    BY <1>2, <2>1, <2>2, ReviewedRow
<1>6. CASE c.op \in TxOps /\ TxWrite(c)
  <2>1. ForUpdate("transactions", c.tx) \in held[s]
    BY <1>1, <1>6, WritersHoldTheirRows DEF OwnTx
  <2>2. u # c.tx
    BY <2>1, HeldApart DEF ForUpdate
  <2> QED
    BY <1>2, <1>6, <2>2 DEF TxWrite
<1>7. CASE TransferWrite(c)
  <2> DEFINE group == IF c.op = "Transfer" THEN c.group ELSE None
             review == IF c.op = "Transfer" THEN "MATCHED" ELSE "UNMATCHED"
  <2>1. tx'[u] = tx[u] \/ tx'[u] = [tx[u] EXCEPT !.group = group, !.review = review]
    BY <1>7 DEF TransferWrite
  <2> HIDE DEF group, review
  <2> QED
    BY <1>2, <2>1 DEF Bank
<1> QED
  BY <1>1, <1>3, <1>4, <1>5, <1>6, <1>7, CommitsOfLedger

(* Evidence that is there stays there.                                     *)
LEMMA EvidenceRemains ==
    ASSUME TypeOK, NEW s \in Sessions, Commit(s), NEW m \in Matches, match[m].status # "NONE"
    PROVE  match'[m].status # "NONE"
<1>1. match[m] \in Evidence
  BY DEF TypeOK, LedgerTypeOK
<1>2. match[m] # NoMatch
  BY DEF NoMatch
<1>3. CASE match'[m] = match[m]
  BY <1>3
<1>4. CASE match'[m] = [match[m] EXCEPT !.status = "REVERSED"]
  BY <1>1, <1>4, ReversedFields
<1> QED
  BY <1>2, <1>3, <1>4, MatchWrites

LEMMA SettlementsStaySingle ==
    ASSUME TypeOK, SettlementsAreSingle, NEW s \in Sessions, UnsettleFound(s), Commit(s)
    PROVE  SettlementsAreSingle'
<1> SUFFICES ASSUME NEW m \in Settlements, match'[m].status # "NONE"
             PROVE  \E t \in Transactions : match'[m].txs = {t}
  BY DEF SettlementsAreSingle
<1>1. m \in Matches /\ m \notin Groups /\ match[m] \in Evidence
  BY LedgerAssumption DEF Matches, TypeOK, LedgerTypeOK
<1>2. PICK c : c = call[s]
  OBVIOUS
<1>3. CASE match'[m] = match[m]
  BY <1>3 DEF SettlementsAreSingle
<1>4. CASE c \in LedgerCalls /\ c.op = "Settle" /\ match'[m] = Terms(c)
  BY <1>4, SettleFields DEF Terms
<1>5. CASE /\ match'[m] = [match[m] EXCEPT !.status = "REVERSED"]
           /\ c.op = "Unsettle" /\ c.match = m
  <2>1. at[s] > 0 /\ call[s] # None
    <3>1. at[s] = Len(Plan(c)) /\ at[s] \in Nat /\ call[s] # None
      BY <1>2 DEF Commit, Writing, TypeOK
    <3>2. Plan(c) = UnsettlePlan(c)
      BY <1>5, FixedRows
    <3>3. Len(UnsettlePlan(c)) # 0
      BY DEF UnsettlePlan
    <3>4. at[s] # 0
      BY <3>1, <3>2, <3>3, Zenon
    <3> QED
      BY <3>1, <3>4
  <2>2. match[m].status # "NONE"
    BY <1>2, <1>5, <2>1 DEF UnsettleFound
  <2>3. \E t \in Transactions : match[m].txs = {t}
    BY <2>2 DEF SettlementsAreSingle
  <2>4. match'[m].txs = match[m].txs
    BY <1>1, <1>5, ReversedFields
  <2> QED
    BY <2>3, <2>4
<1> QED
  BY <1>1, <1>2, <1>3, <1>4, <1>5, MatchWrites

(* What a session checks of its transactions it reads under their locks.   *)
LEMMA OwnReviewStep ==
    ASSUME TypeOK, Locked, NEW s \in Sessions, SessionStep(s), ~Commit(s), TxSeen(s), UnsettleFound(s)
    PROVE  TxSeen(s)' /\ UnsettleFound(s)'
<1>1. PICK c : c = call[s]
  OBVIOUS
<1>2. UNCHANGED <<tx, match>>
  BY OnlyCommitsWrite DEF tables, ledger
<1>3. at[s] \in Nat /\ IdleHoldsNothing
  BY DEF TypeOK, Locked
<1>4. CASE Starts(s)
  BY <1>3, <1>4 DEF Starts, IdleHoldsNothing, TxSeen, UnsettleFound
<1>5. CASE Ends(s)
  BY <1>5 DEF Ends, TxSeen, UnsettleFound
<1>6. CASE Locks(s) /\ Lock(s)
  <2>1. TxSeen(s)'
    BY <1>6 DEF Locks, TxSeen
  <2>2. call'[s] = c /\ at'[s] = at[s] + 1 /\ c # None /\ Exists(Plan(c)[at[s] + 1])
    BY <1>1, <1>6 DEF Locks, Lock, Wants, Asks, Locking, NextRow
  <2>3. ASSUME c.op = "Unsettle" PROVE match[c.match].status # "NONE"
    <3>1. CASE at[s] = 0
      <4>1. Plan(c)[1] = ForUpdate("matches", c.match)
        BY <2>3, FixedRows DEF UnsettlePlan
      <4>2. LedgerExists(ForUpdate("matches", c.match))
        BY <2>2, <3>1, <4>1 DEF Exists
      <4> QED
        BY <4>2 DEF LedgerExists, ForUpdate
    <3>2. CASE at[s] > 0
      BY <1>1, <2>2, <2>3, <3>2 DEF UnsettleFound
    <3> QED
      BY <1>3, <3>1, <3>2
  <2> QED
    BY <1>2, <2>1, <2>2, <2>3 DEF UnsettleFound
<1>7. CASE Skips(s) /\ Skip(s)
  <2>1. c.op \notin OwnTx /\ c.op \notin TransferOps /\ call'[s] = c
    BY <1>1, <1>7, SkipsNoLock DEF Skips
  <2>2. c.op # "Unsettle"
    <3>1. at[s] < Len(Plan(c)) /\ Plan(c)[at[s] + 1] = Nothing
      BY <1>1, <1>7 DEF Skip, Locking, NextRow
    <3>2. \A k \in 1..Len(UnsettlePlan(c)) : UnsettlePlan(c)[k] # Nothing
      BY LocksAreSomething DEF UnsettlePlan, TargetRow
    <3>3. Len(UnsettlePlan(c)) \in Nat
      BY DEF UnsettlePlan
    <3> QED
      BY <1>3, <3>1, <3>2, <3>3, FixedRows
  <2> QED
    BY <2>1, <2>2 DEF TxSeen, UnsettleFound, OwnTx, TxOps, TransferOps
<1>8. CASE Advances(s) /\ Pass(s)
  <2>1. call'[s] = c /\ at'[s] = at[s] /\ c # None
    BY <1>1, <1>8 DEF Advances, Pass, Checking
  <2>2. ~LedgerRefused(c, at[s]) /\ ~LedgerAnswered(c, at[s])
    BY <1>1, <1>8 DEF Pass, Refused, Answered
  <2>3. ASSUME c.op = "Settle", at[s] > 0 PROVE tx[c.tx].status = "POSTED"
    BY <2>2, <2>3 DEF LedgerRefused, SettleRefused
  <2>4. ASSUME c.op \in TxOps, at[s] = 1 PROVE ~HasEvidence(c.tx)
    <3>1. ~TxRefused(c)
      BY <2>2, <2>4 DEF LedgerRefused
    <3>2. CASE c.op = "CorrectTx"
      BY <3>1, <3>2 DEF TxRefused, HasEvidence, Confirmed
    <3>3. CASE c.op = "ReverseTx"
      BY <2>2, <2>4, <3>1, <3>3 DEF TxRefused, LedgerAnswered
    <3>4. CASE c.op = "IgnoreTx"
      BY <3>1, <3>4 DEF TxRefused
    <3>5. CASE c.op = "RestoreTx"
      BY <2>2, <2>4, <3>1, <3>5 DEF TxRefused, LedgerAnswered
    <3> QED
      BY <2>4, <3>2, <3>3, <3>4, <3>5 DEF TxOps
  <2>5. ASSUME c.op = "Transfer", at[s] = 2
        PROVE  tx[Pair[c.group][1]].status = "POSTED" /\ tx[Pair[c.group][2]].status = "POSTED"
    BY <2>2, <2>5 DEF LedgerRefused, LedgerAnswered, TransferRefused, TransferOps
  <2>6. ASSUME c.op = "ReverseTransfer", at[s] = 2
        PROVE  Standing(Pair[c.group][1]) \subseteq {c.group} /\ Standing(Pair[c.group][2]) \subseteq {c.group}
    BY <2>2, <2>6 DEF LedgerRefused, LedgerAnswered, TransferRefused, TransferOps, Standing
  <2>7. /\ HasEvidence(call[s].tx)' = HasEvidence(c.tx)
        /\ Standing(Pair[call[s].group][1])' = Standing(Pair[c.group][1])
        /\ Standing(Pair[call[s].group][2])' = Standing(Pair[c.group][2])
    BY <1>2, <2>1 DEF HasEvidence, Standing, Confirmed, OfTx
  <2>8. TxSeen(s)'
    BY <1>2, <2>1, <2>3, <2>4, <2>5, <2>6, <2>7 DEF TxSeen
  <2>9. UnsettleFound(s)'
    BY <1>1, <1>2, <2>1 DEF UnsettleFound
  <2> QED
    BY <2>8, <2>9
<1> QED
  BY <1>3, <1>4, <1>5, <1>6, <1>7, <1>8, OneSessionMoves

(* No other session makes it wrong.                                        *)
LEMMA OtherReviewCommit ==
    ASSUME TypeOK, Locked, SettlementsAreSingle, NEW s \in Sessions, NEW t \in Sessions, s # t, Commit(s),
           UnsettleFound(s), TxSeen(t), Rests(t), call[t] # None, passed[t]
    PROVE  TxSeen(t)'
<1>1. PICK c : c = call[t]
  OBVIOUS
<1>2. call'[t] = c /\ at'[t] = at[t] /\ at[t] \in Nat /\ c \in Calls
  BY <1>1 DEF Rests, TypeOK
<1>3. ASSUME c.op \in OwnTx, at[t] > 0
      PROVE  Stays(c.tx) /\ tx'[c.tx].status = tx[c.tx].status
  <2>1. ForUpdate("transactions", c.tx) \in held[t]
    BY <1>1, <1>3 DEF Locked, TxLocked
  <2>2. c \in LedgerCalls
    BY <1>2, <1>3, CallsAreOfAKind DEF OwnTx, TxOps, OrderOps, HeaderOps, StockOps
  <2>3. c.tx \in Transactions
    BY <1>3, <2>2, SettleFields, TxFields DEF OwnTx
  <2> QED
    BY <2>1, <2>3, LockedTxStays, LockedStatusStays
<1>4. ASSUME c.op \in TransferOps, at[t] = 2, NEW u \in {Pair[c.group][1], Pair[c.group][2]}
      PROVE  Stays(u) /\ tx'[u].status = tx[u].status
  <2>1. at[t] > 0 /\ at[t] > 1
    BY <1>4
  <2>2. TransferPlan(c)[1] \in held[t] /\ TransferPlan(c)[2] \in held[t]
    BY <1>1, <1>4, <2>1 DEF Locked, PairLocked
  <2>3. ForUpdate("transactions", u) \in held[t]
    BY <1>4, <2>2 DEF TransferPlan
  <2>4. c \in LedgerCalls
    BY <1>2, <1>4, CallsAreOfAKind DEF TransferOps, OrderOps, HeaderOps, StockOps
  <2>5. u \in Transactions
    BY <1>4, <2>4, TransferFields
  <2> QED
    BY <2>3, <2>5, LockedTxStays, LockedStatusStays
<1>5. ASSUME c.op = "Settle", at[t] > 0 PROVE tx'[c.tx].status = "POSTED"
  BY <1>1, <1>3, <1>5 DEF TxSeen, OwnTx
<1>6. ASSUME c.op \in TxOps, at[t] = 1 PROVE ~HasEvidence(c.tx)'
  <2>1. ~HasEvidence(c.tx)
    BY <1>1, <1>6 DEF TxSeen
  <2>2. Stays(c.tx)
    BY <1>3, <1>6 DEF OwnTx
  <2> QED
    BY <2>1, <2>2 DEF Stays, HasEvidence, Standing
<1>7. ASSUME c.op = "Transfer", at[t] = 2
      PROVE  tx'[Pair[c.group][1]].status = "POSTED" /\ tx'[Pair[c.group][2]].status = "POSTED"
  <2>1. tx[Pair[c.group][1]].status = "POSTED" /\ tx[Pair[c.group][2]].status = "POSTED"
    BY <1>1, <1>7 DEF TxSeen
  <2> QED
    BY <1>4, <1>7, <2>1 DEF TransferOps
<1>8. ASSUME c.op = "ReverseTransfer", at[t] = 2
      PROVE  Standing(Pair[c.group][1])' \subseteq {c.group} /\ Standing(Pair[c.group][2])' \subseteq {c.group}
  <2>1. Standing(Pair[c.group][1]) \subseteq {c.group} /\ Standing(Pair[c.group][2]) \subseteq {c.group}
    BY <1>1, <1>8 DEF TxSeen
  <2>2. Stays(Pair[c.group][1]) /\ Stays(Pair[c.group][2])
    BY <1>4, <1>8 DEF TransferOps
  <2> QED
    BY <2>1, <2>2 DEF Stays
<1>9. /\ HasEvidence(call[t].tx)' = HasEvidence(c.tx)'
      /\ Standing(Pair[call[t].group][1])' = Standing(Pair[c.group][1])'
      /\ Standing(Pair[call[t].group][2])' = Standing(Pair[c.group][2])'
  BY <1>2 DEF HasEvidence, Standing, Confirmed, OfTx
<1> QED
  BY <1>2, <1>5, <1>6, <1>7, <1>8, <1>9 DEF TxSeen

LEMMA ReviewIsTold ==
    /\ ReviewTellsEvidence <=> \A u \in Transactions : Tells(u)
    /\ ReviewTellsEvidence' <=> \A u \in Transactions : Tells(u)'
BY DEF ReviewTellsEvidence, Tells

(* Each write leaves a status that tells the evidence.                     *)
LEMMA CommitTells ==
    ASSUME TypeOK, LedgerKept, ReviewKept, NEW s \in Sessions, Commit(s), NEW u \in Transactions
    PROVE  Tells(u)'
<1>1. PICK c : c = call[s]
  OBVIOUS
<1>2. /\ Tells(u) /\ SettlementsAreSingle /\ TransfersArePairs
      /\ TxSeen(s) /\ UnsettleFound(s) /\ TxChecked(s)
  BY ReviewIsTold DEF ReviewKept, LedgerKept
<1>3. at[s] = Len(Plan(c)) /\ at[s] \in Nat /\ c # None /\ passed[s]
  BY <1>1, CommitsOfLedger DEF TypeOK
<1>4. CASE UNCHANGED <<tx, match>>
  BY <1>2, <1>4, TellsOn DEF Allocated, Sum, Confirmed, OfTx
<1>5. CASE c \in LedgerCalls /\ c.op = "Settle" /\ SettleWrite(c) /\ match[c.match] = NoMatch
  <2>1. at[s] # 0
    <3>1. Plan(c) = SettlePlan(c)
      BY <1>5, FixedRows
    <3> QED
      BY <1>3, <3>1, SettlePlanIsLong, Zenon
  <2>2. at[s] > 0
    BY <1>3, <2>1
  <2>3. tx[c.tx].status = "POSTED"
    BY <1>1, <1>2, <1>3, <1>5, <2>2 DEF TxSeen
  <2> QED
    BY <1>2, <1>5, <2>3, SettleTells
<1>6. CASE c \in LedgerCalls /\ c.op = "Unsettle" /\ UnsettleWrite(c)
  <2>1. at[s] # 0
    <3>1. Plan(c) = UnsettlePlan(c)
      BY <1>6, FixedRows
    <3>2. Len(UnsettlePlan(c)) # 0
      BY DEF UnsettlePlan
    <3> QED
      BY <1>3, <3>1, <3>2, Zenon
  <2>2. at[s] > 0
    BY <1>3, <2>1
  <2>3. match[c.match].status # "NONE"
    BY <1>1, <1>2, <1>3, <1>6, <2>2 DEF UnsettleFound
  <2> QED
    BY <1>2, <1>6, <2>3, UnsettleTells
<1>7. CASE c \in LedgerCalls /\ c.op \in TxOps /\ TxWrite(c)
  <2>1. c.op \in OwnTx /\ c.op # "Settle"
    BY <1>7 DEF OwnTx, TxOps
  <2>2. at[s] = 1
    BY <1>3, <2>1, TxIsLockedFirst
  <2>3. ~HasEvidence(c.tx)
    BY <1>1, <1>2, <1>3, <1>7, <2>2 DEF TxSeen
  <2> QED
    BY <1>2, <1>7, <2>3, TxWriteTells
<1>8. CASE c \in LedgerCalls /\ c.op \in TransferOps /\ TransferWrite(c)
  <2>1. at[s] = 2
    BY <1>3, <1>8, PairIsLocked
  <2>2. PICK l, r : l = Pair[c.group][1] /\ r = Pair[c.group][2]
    OBVIOUS
  <2>3. CASE c.op = "Transfer"
    <3>1. /\ Opposite(l, r) /\ ~HasEvidence(l) /\ ~HasEvidence(r)
          /\ match[c.group].status # "REVERSED"
      BY <1>1, <1>2, <1>3, <2>1, <2>2, <2>3 DEF TxChecked
    <3>2. tx[l].status = "POSTED" /\ tx[r].status = "POSTED"
      BY <1>1, <1>2, <1>3, <2>1, <2>2, <2>3 DEF TxSeen
    <3> QED
      BY <1>2, <1>8, <2>2, <2>3, <3>1, <3>2, TransferTells
  <2>4. CASE c.op = "ReverseTransfer"
    <3>1. match[c.group].status = "CONFIRMED"
      BY <1>1, <1>2, <1>3, <2>1, <2>4 DEF TxChecked
    <3>2. Standing(l) \subseteq {c.group} /\ Standing(r) \subseteq {c.group}
      BY <1>1, <1>2, <1>3, <2>1, <2>2, <2>4 DEF TxSeen
    <3> QED
      BY <1>2, <1>8, <2>2, <2>4, <3>1, <3>2, ReverseTransferTells
  <2> QED
    BY <1>8, <2>3, <2>4 DEF TransferOps
<1> QED
  BY <1>1, <1>4, <1>5, <1>6, <1>7, <1>8, CommitsOfLedger

LEMMA ReviewStep ==
    ASSUME TypeOK, Locked, LedgerKept, ReviewKept, [Next]_vars
    PROVE  ReviewKept'
<1>1. ASSUME NEW s \in Sessions, SessionStep(s)
      PROVE  ReviewKept'
  <2>1. SettlementsAreSingle /\ \A t \in Sessions : TxSeen(t) /\ UnsettleFound(t)
    BY DEF ReviewKept
  <2>2. ReviewTellsEvidence' /\ SettlementsAreSingle'
    <3>1. CASE Commit(s)
      BY <2>1, <3>1, CommitTells, ReviewIsTold, SettlementsStaySingle
    <3>2. CASE ~Commit(s)
      <4>1. UNCHANGED <<tx, match>>
        BY <1>1, <3>2, OnlyCommitsWrite DEF tables, ledger
      <4>2. ReviewTellsEvidence
        BY DEF ReviewKept
      <4>3. ReviewTellsEvidence'
        BY <4>1, <4>2 DEF ReviewTellsEvidence, Allocated, Sum, Confirmed, OfTx, Derived
      <4> QED
        BY <2>1, <4>1, <4>3 DEF SettlementsAreSingle
    <3> QED
      BY <3>1, <3>2
  <2>3. TxSeen(s)' /\ UnsettleFound(s)'
    <3>1. CASE Commit(s)
      <4>1. call'[s] = None
        BY <3>1 DEF Commit, Finish, TypeOK
      <4> QED
        BY <4>1 DEF TxSeen, UnsettleFound
    <3>2. CASE ~Commit(s)
      BY <1>1, <2>1, <3>2, OwnReviewStep
    <3> QED
      BY <3>1, <3>2
  <2>4. ASSUME NEW t \in Sessions, t # s PROVE TxSeen(t)'
    <3>1. Rests(t) /\ TxSeen(t)
      BY <1>1, <2>1, <2>4, OneSessionMoves DEF Locked
    <3>2. CASE Commit(s) /\ call[t] # None /\ passed[t]
      BY <2>1, <2>4, <3>1, <3>2, OtherReviewCommit
    <3>3. CASE ~(call[t] # None /\ passed[t])
      BY <3>1, <3>3 DEF Rests, TxSeen
    <3>4. CASE ~Commit(s)
      <4>1. UNCHANGED <<tx, match>>
        BY <1>1, <3>4, OnlyCommitsWrite DEF tables, ledger
      <4> QED
        BY <3>1, <4>1 DEF Rests, TxSeen, HasEvidence, Standing, Confirmed, OfTx
    <3> QED
      BY <3>2, <3>3, <3>4
  <2>5. ASSUME NEW t \in Sessions, t # s PROVE UnsettleFound(t)'
    <3>1. PICK c : c = call[t]
      OBVIOUS
    <3>2. Rests(t) /\ UnsettleFound(t)
      BY <1>1, <2>1, <2>5, OneSessionMoves DEF Locked
    <3>3. SUFFICES ASSUME c # None, c.op = "Unsettle", at[t] > 0 PROVE match'[c.match].status # "NONE"
      BY <3>1, <3>2 DEF Rests, UnsettleFound
    <3>4. match[c.match].status # "NONE"
      BY <3>1, <3>2, <3>3 DEF UnsettleFound
    <3>5. CASE Commit(s)
      <4>1. c \in LedgerCalls
        BY <3>1, <3>3, CallsAreOfAKind DEF TypeOK, OrderOps, HeaderOps, StockOps
      <4>2. c.match \in Matches
        BY <3>3, <4>1, UnsettleFields DEF Matches
      <4> QED
        BY <3>4, <3>5, <4>2, EvidenceRemains
    <3>6. CASE ~Commit(s)
      BY <1>1, <3>4, <3>6, OnlyCommitsWrite DEF tables, ledger
    <3> QED
      BY <3>5, <3>6
  <2> QED
    BY <2>2, <2>3, <2>4, <2>5 DEF ReviewKept
<1>2. CASE UNCHANGED vars
  <2>1. UNCHANGED <<tx, match, call, at, passed>>
    BY <1>2 DEF vars, tables, ledger, sessions
  <2>2. ReviewTellsEvidence' /\ SettlementsAreSingle'
    BY <2>1 DEF ReviewKept, SettlementsAreSingle, ReviewTellsEvidence, Allocated, Sum, Confirmed, OfTx, Derived
  <2>3. ASSUME NEW s \in Sessions PROVE TxSeen(s)' /\ UnsettleFound(s)'
    <3>1. TxSeen(s) /\ UnsettleFound(s)
      BY DEF ReviewKept
    <3> QED
      BY <2>1, <3>1 DEF TxSeen, UnsettleFound, HasEvidence, Standing, Confirmed, OfTx
  <2> QED
    BY <2>2, <2>3 DEF ReviewKept
<1> QED
  BY <1>1, <1>2 DEF Next, SessionStep, Done

LEMMA ReviewInit ==
    ASSUME Init
    PROVE  ReviewKept
<1>1. match = [m \in Matches |-> NoMatch] /\ call = [s \in Sessions |-> None]
  BY DEF Init, LedgerInit
<1>2. \A t \in Transactions : tx[t].status = "POSTED" /\ tx[t].review = "UNMATCHED" /\ tx[t].group = None
  BY DEF Init, LedgerInit
<1>3. \A u : ~HasEvidence(u)
  BY <1>1 DEF NoMatch, HasEvidence, Confirmed, OfTx
<1>4. \A u : Allocated(u) = 0
  BY <1>3, AllocatedOfNone
<1>5. ReviewTellsEvidence
  BY <1>2, <1>4 DEF ReviewTellsEvidence, Derived
<1>6. SettlementsAreSingle
  BY <1>1 DEF SettlementsAreSingle, Matches, NoMatch
<1>7. \A s \in Sessions : TxSeen(s) /\ UnsettleFound(s)
  BY <1>1 DEF TxSeen, UnsettleFound
<1> QED
  BY <1>5, <1>6, <1>7 DEF ReviewKept

(* However settlements, transfers, reversals, corrections and the marking  *)
(* of transactions run into each other, the reconciliation status that     *)
(* refresh_financial_transaction_reconciliation last wrote is the one that *)
(* the evidence now gives, and nothing is left confirmed of a transaction  *)
(* that is reversed or ignored: for any sessions, transactions and amounts.*)
THEOREM ReviewsTellEvidence == Spec => []ReviewTellsEvidence
<1>1. Init => TypeOK /\ Locked /\ LedgerKept /\ ReviewKept
  BY TypeInit, LockedInit, LedgerStarts, ReviewInit
<1>2. TypeOK /\ Locked /\ LedgerKept /\ ReviewKept /\ [Next]_vars
         => TypeOK' /\ Locked' /\ LedgerKept' /\ ReviewKept'
  BY TypeStep, LockedStep, LedgerStep, ReviewStep
<1>3. ReviewKept => ReviewTellsEvidence
  BY DEF ReviewKept
<1> QED
  BY <1>1, <1>2, <1>3, PTL DEF Spec

(***************************************************************************)
(* Stock.                                                                  *)
(***************************************************************************)
Recorded(k) == movement[k].kind # "NONE"
TakesBack(c) == c.terms.kind = "REVERSAL"

(* The kind that the movement of the request has, or takes back.           *)
TermsKind(c) == IF TakesBack(c) THEN movement[c.terms.reverses].kind ELSE c.terms.kind

(* A movement is of an item, and one that is taken back is recorded.       *)
MovementsRefer ==
    \A k \in Keys :
        /\ ~Recorded(k) => movement[k] = NoMovement
        /\ Recorded(k) => movement[k].item \in Items
        /\ Undoes(k) => movement[k].reverses \in Keys /\ Recorded(movement[k].reverses)
        /\ (movement[k].reverses # None) = Undoes(k)

(* What the triggers have found enough of.                                 *)
Covered(c) ==
    LET m == FullTerms(c)
    IN  /\ \/ TermsKind(c) = "PROJECT_ISSUE" /\ TakesBack(c)
           \/ TermsKind(c) = "PROJECT_RETURN" /\ ~TakesBack(c)
           => Kept(m.item, m.project, m.quantity)
        /\ (TermsKind(c) = "PROJECT_ISSUE") # TakesBack(c) => Out(m.item) + m.quantity <= In(m.item)

MoveHeld(s) ==
    call[s] # None /\ call[s].op = "Move" =>
        LET c == call[s]
        IN  /\ TakesBack(c) /\ at[s] > 0 => Recorded(c.terms.reverses)
            /\ Has(s, 4, ForUpdate("items", FullTerms(c).item))
            /\ at[s] \in {4, 5} /\ passed[s] => Covered(c)

StockKept ==
    /\ StockIsCovered /\ MovementsRefer
    /\ \A s \in Sessions : MoveHeld(s)

LEMMA MoveFields ==
    ASSUME NEW c \in StockCalls, c.op = "Move"
    PROVE  /\ c.key \in Keys /\ c.terms \in Movements(Kinds)
           /\ TakesBack(c) => c.terms.reverses \in Keys
           /\ ~TakesBack(c) => c.terms.item \in Items
           /\ (c.terms.reverses # None) = TakesBack(c)
BY StockAssumption DEF StockCalls, Movements, WellFormed, TakesBack

(* The terms of a request, those that it has of its own and those that it  *)
(* takes from the movement that it takes back.                             *)
LEMMA FullTermsAre ==
    ASSUME movement \in [Keys -> Movements(Kinds \cup {"NONE"})], NEW c \in StockCalls, c.op = "Move"
    PROVE  LET m == FullTerms(c)
           IN  /\ m \in Movements(Kinds)
               /\ m.kind = c.terms.kind /\ m.reverses = c.terms.reverses /\ m.receipt = c.terms.receipt
               /\ TakesBack(c) => m.item = movement[c.terms.reverses].item
               /\ ~TakesBack(c) => m = c.terms
<1>1. CASE TakesBack(c)
  <2>1. movement[c.terms.reverses] \in Movements(Kinds \cup {"NONE"}) /\ c.terms \in Movements(Kinds)
    BY <1>1, MoveFields
  <2> QED
    BY <1>1, <2>1 DEF FullTerms, Movements, TakesBack
<1>2. CASE ~TakesBack(c)
  BY <1>2, MoveFields DEF FullTerms, TakesBack
<1> QED
  BY <1>1, <1>2

LEMMA MovePlanIs ==
    ASSUME NEW c, c.op = "Move"
    PROVE  /\ Plan(c) = MovePlan(c) /\ Len(MovePlan(c)) = 5
           /\ MovePlan(c)[1] = IfFound(c.terms.kind = "REVERSAL", ForUpdate("movements", c.terms.reverses))
           /\ MovePlan(c)[4] = ForUpdate("items", FullTerms(c).item)
           /\ MovePlan(c)[2] = KeyRow(c) /\ MovePlan(c)[5] = KeyRow(c)
           /\ MovePlan(c)[3] = IfFound(Duplicates(c.terms) # {},
                                       ForUpdate("movements", CHOOSE k \in Duplicates(c.terms) : TRUE))
<1>1. Plan(c) = MovePlan(c)
  BY DEF Plan, StockPlan, OrderOps, HeaderOps, StockOps
<1>2. PICK a, b, d, e : /\ a = IfFound(c.terms.kind = "REVERSAL", ForUpdate("movements", c.terms.reverses))
                        /\ b = KeyRow(c) /\ e = ForUpdate("items", FullTerms(c).item)
                        /\ d = IfFound(Duplicates(c.terms) # {},
                                       ForUpdate("movements", CHOOSE k \in Duplicates(c.terms) : TRUE))
  OBVIOUS
<1>3. PICK first, rest : first = <<a, b, d>> /\ rest = <<e, b>>
  OBVIOUS
<1>4. MovePlan(c) = first \o rest
  BY <1>2, <1>3 DEF MovePlan, FirstRows
<1>5. /\ Len(first \o rest) = 5 /\ (first \o rest)[1] = a /\ (first \o rest)[2] = b
      /\ (first \o rest)[3] = d /\ (first \o rest)[4] = e /\ (first \o rest)[5] = b
  BY <1>3
<1> QED
  BY <1>1, <1>2, <1>4, <1>5, Zenon

(* What a commit makes of the movements.                                   *)
LEMMA MovementWrites ==
    ASSUME TypeOK, MovementsRefer, NEW s \in Sessions, Commit(s), movement' # movement
    PROVE  LET c == call[s]
           IN  /\ c # None /\ c \in StockCalls /\ c.op = "Move" /\ at[s] = 5 /\ passed[s]
               /\ ~Recorded(c.key)
               /\ \A k \in Keys : movement'[k] = IF k = c.key THEN FullTerms(c) ELSE movement[k]
<1>1. PICK c : c = call[s]
  OBVIOUS
<1>2. /\ c \in Calls /\ c # None /\ at[s] = Len(Plan(c)) /\ passed[s] /\ Write(c) /\ ~StockKeyTaken(c)
      /\ movement \in [Keys -> Movements(Kinds \cup {"NONE"})]
  BY <1>1, CommitType DEF Commit, Writing, KeyTaken, TypeOK, StockTypeOK
<1>3. StockWrite(c) /\ c.op = "Move"
  BY <1>2 DEF Write, StockWrite, stock
<1>4. c \in StockCalls /\ c.key \in Keys
  BY <1>2, <1>3, WritesAreOfAKind, MoveFields
<1>5. movement' = [movement EXCEPT ![c.key] = FullTerms(c)]
  BY <1>3 DEF StockWrite
<1>6. \A k \in Keys : movement'[k] = IF k = c.key THEN FullTerms(c) ELSE movement[k]
  BY <1>2, <1>5
<1>7. ~Recorded(c.key)
  BY <1>2, <1>3 DEF StockKeyTaken, Recorded, NoMovement
<1>8. at[s] = 5
  BY <1>2, <1>3, MovePlanIs
<1> QED
  BY <1>1, <1>2, <1>3, <1>4, <1>6, <1>7, <1>8

(* A movement once recorded is never written again.                        *)
LEMMA MovementsRest ==
    ASSUME TypeOK, MovementsRefer, NEW s \in Sessions, Commit(s), NEW k \in Keys, Recorded(k)
    PROVE  movement'[k] = movement[k]
BY MovementWrites

LEMMA FullTermsRest ==
    ASSUME TypeOK, MovementsRefer, NEW s \in Sessions, Commit(s), NEW c \in StockCalls, c.op = "Move",
           TakesBack(c) => Recorded(c.terms.reverses)
    PROVE  /\ FullTerms(c)' = FullTerms(c) /\ TermsKind(c)' = TermsKind(c)
           /\ TakesBack(c) => Recorded(c.terms.reverses)'
<1>1. TakesBack(c) => movement'[c.terms.reverses] = movement[c.terms.reverses]
  BY MoveFields, MovementsRest
<1> QED
  BY <1>1 DEF FullTerms, TermsKind, Recorded, TakesBack

(* The commit of a movement, as MovementWrites and MoveHeld tell it.       *)
Records(c) ==
    /\ c \in StockCalls /\ c.op = "Move" /\ ~Recorded(c.key)
    /\ TakesBack(c) => Recorded(c.terms.reverses)
    /\ \A k \in Keys : movement'[k] = IF k = c.key THEN FullTerms(c) ELSE movement[k]

LEMMA MovesRecord ==
    ASSUME TypeOK, MovementsRefer, NEW s \in Sessions, MoveHeld(s), Commit(s), movement' # movement
    PROVE  /\ Records(call[s]) /\ Covered(call[s])
           /\ ForUpdate("items", FullTerms(call[s]).item) \in held[s]
<1>1. PICK c : c = call[s]
  OBVIOUS
<1>2. /\ c # None /\ c \in StockCalls /\ c.op = "Move" /\ at[s] = 5 /\ passed[s] /\ ~Recorded(c.key)
      /\ \A k \in Keys : movement'[k] = IF k = c.key THEN FullTerms(c) ELSE movement[k]
  BY <1>1, MovementWrites
<1>3. TakesBack(c) /\ at[s] > 0 => Recorded(c.terms.reverses)
  BY <1>1, <1>2 DEF MoveHeld
<1>4. Has(s, 4, ForUpdate("items", FullTerms(c).item))
  BY <1>1, <1>2 DEF MoveHeld
<1>5. at[s] \in {4, 5} /\ passed[s] => Covered(c)
  BY <1>1, <1>2 DEF MoveHeld
<1> QED
  BY <1>1, <1>2, <1>3, <1>4, <1>5 DEF Records, Has

LEMMA RecordedMovement ==
    ASSUME TypeOK, MovementsRefer, NEW c, Records(c)
    PROVE  LET k == c.key
               m == FullTerms(c)
           IN  /\ k \in Keys /\ m \in Movements(Kinds) /\ m.item \in Items
               /\ movement'[k] = m /\ BaseKind(k)' = TermsKind(c) /\ Undoes(k)' = TakesBack(c)
               /\ \A u \in Keys \ {k} : /\ movement'[u] = movement[u]
                                        /\ BaseKind(u)' = BaseKind(u) /\ Undoes(u)' = Undoes(u)
<1> DEFINE k == c.key
           m == FullTerms(c)
<1>1. /\ c \in StockCalls /\ c.op = "Move" /\ movement \in [Keys -> Movements(Kinds \cup {"NONE"})]
      /\ \A u \in Keys : movement'[u] = IF u = k THEN m ELSE movement[u]
      /\ ~Recorded(k) /\ (TakesBack(c) => Recorded(c.terms.reverses))
  BY DEF Records, TypeOK, StockTypeOK
<1>2. /\ k \in Keys /\ (TakesBack(c) => c.terms.reverses \in Keys)
      /\ (~TakesBack(c) => c.terms.item \in Items)
  BY <1>1, MoveFields
<1>3. /\ m \in Movements(Kinds) /\ m.kind = c.terms.kind /\ m.reverses = c.terms.reverses
      /\ TakesBack(c) => m.item = movement[c.terms.reverses].item
      /\ ~TakesBack(c) => m = c.terms
  BY <1>1, FullTermsAre
<1>4. m.item \in Items
  BY <1>1, <1>2, <1>3 DEF MovementsRefer
<1>5. Undoes(k)' = TakesBack(c)
  BY <1>1, <1>2, <1>3 DEF Undoes, TakesBack
<1>6. BaseKind(k)' = TermsKind(c)
  <2>1. BaseKind(k)' = IF TakesBack(c) THEN movement'[c.terms.reverses].kind ELSE c.terms.kind
    BY <1>1, <1>2, <1>3, <1>5 DEF BaseKind
  <2>2. TakesBack(c) => movement'[c.terms.reverses] = movement[c.terms.reverses]
    BY <1>1, <1>2
  <2> QED
    BY <2>1, <2>2 DEF TermsKind
<1>7. ASSUME NEW u \in Keys \ {k}
      PROVE  movement'[u] = movement[u] /\ BaseKind(u)' = BaseKind(u) /\ Undoes(u)' = Undoes(u)
  <2>1. movement'[u] = movement[u]
    BY <1>1
  <2>2. Undoes(u)' = Undoes(u)
    BY <2>1 DEF Undoes
  <2>3. Undoes(u) => movement'[movement[u].reverses] = movement[movement[u].reverses]
    BY <1>1 DEF MovementsRefer
  <2>4. BaseKind(u)' = IF Undoes(u) THEN movement'[movement[u].reverses].kind ELSE movement[u].kind
    BY <2>1, <2>2 DEF BaseKind
  <2> QED
    BY <2>1, <2>2, <2>3, <2>4 DEF BaseKind
<1> QED
  BY <1>1, <1>2, <1>3, <1>4, <1>5, <1>6, <1>7

LEMMA MovementsStayReferring ==
    ASSUME TypeOK, MovementsRefer, NEW c, Records(c)
    PROVE  MovementsRefer'
<1> DEFINE k == c.key
<1>1. /\ k \in Keys /\ FullTerms(c) \in Movements(Kinds) /\ FullTerms(c).item \in Items
      /\ movement'[k] = FullTerms(c)
      /\ \A u \in Keys \ {k} : movement'[u] = movement[u]
  BY RecordedMovement
<1>2. c \in StockCalls /\ c.op = "Move" /\ ~Recorded(k) /\ (TakesBack(c) => Recorded(c.terms.reverses))
  BY DEF Records
<1>3. FullTerms(c).kind = c.terms.kind /\ FullTerms(c).reverses = c.terms.reverses
  BY <1>2, FullTermsAre DEF TypeOK, StockTypeOK
<1>4. (TakesBack(c) => c.terms.reverses \in Keys) /\ (c.terms.reverses # None) = TakesBack(c)
  BY <1>2, MoveFields
<1>5. FullTerms(c).kind # "NONE"
  BY <1>1 DEF Movements, Kinds
<1>6. \A r \in Keys : Recorded(r) => movement'[r].kind # "NONE"
  BY <1>1, <1>5 DEF Recorded
<1> SUFFICES ASSUME NEW u \in Keys
             PROVE  /\ movement'[u].kind = "NONE" => movement'[u] = NoMovement
                    /\ movement'[u].kind # "NONE" => movement'[u].item \in Items
                    /\ movement'[u].kind = "REVERSAL" =>
                          movement'[u].reverses \in Keys /\ movement'[movement'[u].reverses].kind # "NONE"
                    /\ (movement'[u].reverses # None) = (movement'[u].kind = "REVERSAL")
  BY DEF MovementsRefer, Recorded, Undoes
<1>7. CASE u = k
  BY <1>1, <1>2, <1>3, <1>4, <1>5, <1>6, <1>7 DEF TakesBack
<1>8. CASE u # k
  <2>1. movement'[u] = movement[u]
    BY <1>1, <1>8
  <2>2. /\ movement[u].kind = "NONE" => movement[u] = NoMovement
        /\ movement[u].kind # "NONE" => movement[u].item \in Items
        /\ movement[u].kind = "REVERSAL" => movement[u].reverses \in Keys /\ Recorded(movement[u].reverses)
        /\ (movement[u].reverses # None) = (movement[u].kind = "REVERSAL")
    BY DEF MovementsRefer, Recorded, Undoes
  <2> QED
    BY <1>6, <2>1, <2>2
<1> QED
  BY <1>7, <1>8

(* What one movement more makes of a sum of quantities.                    *)
NewQuantities == [u \in Keys |-> movement'[u].quantity]

LEMMA QuantityMoves ==
    ASSUME NEW S \in SUBSET Keys, NEW k \in Keys, k \notin S, \A u \in S : movement'[u] = movement[u],
           movement'[k].quantity \in 0..MaxAmount
    PROVE  /\ SumOf(S, NewQuantities) = Quantity(S)
           /\ SumOf(S \cup {k}, NewQuantities) = Quantity(S) + movement'[k].quantity
           /\ Quantity(S) \in Nat
<1> DEFINE old == [u \in Keys |-> movement[u].quantity]
           new == NewQuantities
<1>1. IsFiniteSet(S)
  BY StockAssumption, FS_Subset
<1>2. new[k] = movement'[k].quantity /\ \A u \in S : old[u] = new[u]
  BY DEF NewQuantities
<1>3. Quantity(S) = SumOf(S, old)
  BY DEF Quantity
<1> HIDE DEF old, new
<1>4. SumOf(S, new) = SumOf(S, old)
  <2>1. \A u \in S : new[u] = old[u]
    BY <1>2
  <2> QED
    BY <2>1, SumAgrees
<1>5. SumOf(S \cup {k}, new) = SumOf(S, old) + new[k]
  <2>1. new[k] \in 0..MaxAmount /\ MaxAmount \in Nat
    BY <1>2, LedgerAssumption
  <2>2. \A u \in S : old[u] = new[u]
    BY <1>2
  <2> QED
    BY <1>1, <2>1, <2>2, SumGrows
<1>6. SumOf(S, old) \in Nat
  BY <1>1, LedgerAssumption, SumIsNatural
<1> QED
  BY <1>2, <1>3, <1>4, <1>5, <1>6 DEF new

(* The movements of an item that a sum counts.                             *)
Counted(i, out) == {k \in OfItem(i) : Incoming(k) # out}
CountedAt(i, p, kind, undone) ==
    {k \in OfItem(i) : movement[k].project = p /\ BaseKind(k) = kind /\ Undoes(k) = undone}

LEMMA SumsCount ==
    ASSUME NEW i, NEW p, NEW kind, NEW undone
    PROVE  /\ In(i) = Quantity(Counted(i, FALSE)) /\ Out(i) = Quantity(Counted(i, TRUE))
           /\ AtProject(i, p, kind, undone) = Quantity(CountedAt(i, p, kind, undone))
           /\ In(i)' = SumOf(Counted(i, FALSE)', NewQuantities)
           /\ Out(i)' = SumOf(Counted(i, TRUE)', NewQuantities)
           /\ AtProject(i, p, kind, undone)' = SumOf(CountedAt(i, p, kind, undone)', NewQuantities)
<1>1. /\ {k \in OfItem(i) : Incoming(k)} = Counted(i, FALSE)
      /\ {k \in OfItem(i) : ~Incoming(k)} = Counted(i, TRUE)
  BY DEF Counted, Incoming
<1>2. /\ {k \in OfItem(i) : Incoming(k)}' = Counted(i, FALSE)'
      /\ {k \in OfItem(i) : ~Incoming(k)}' = Counted(i, TRUE)'
  BY DEF Counted, Incoming
<1>3. In(i) = Quantity(Counted(i, FALSE)) /\ Out(i) = Quantity(Counted(i, TRUE))
  BY <1>1 DEF In, Out
<1>4. In(i)' = SumOf(Counted(i, FALSE)', NewQuantities)
  BY <1>2 DEF In, Quantity, NewQuantities
<1>5. Out(i)' = SumOf(Counted(i, TRUE)', NewQuantities)
  BY <1>2 DEF Out, Quantity, NewQuantities
<1>6. AtProject(i, p, kind, undone) = Quantity(CountedAt(i, p, kind, undone))
  BY DEF AtProject, CountedAt
<1>7. AtProject(i, p, kind, undone)' = SumOf(CountedAt(i, p, kind, undone)', NewQuantities)
  BY DEF AtProject, CountedAt, Quantity, NewQuantities
<1> QED
  BY <1>3, <1>4, <1>5, <1>6, <1>7

LEMMA NewSum ==
    ASSUME TypeOK, MovementsRefer, NEW c, Records(c), NEW S \in SUBSET (Keys \ {c.key}), NEW T, NEW b \in BOOLEAN,
           T = IF b THEN S \cup {c.key} ELSE S
    PROVE  /\ Quantity(S) \in Nat /\ FullTerms(c).quantity \in Nat
           /\ SumOf(T, NewQuantities) = IF b THEN Quantity(S) + FullTerms(c).quantity ELSE Quantity(S)
<1> DEFINE k == c.key
<1>1. /\ k \in Keys /\ movement'[k] = FullTerms(c) /\ FullTerms(c) \in Movements(Kinds)
      /\ \A u \in Keys \ {k} : movement'[u] = movement[u]
  BY RecordedMovement
<1>2. FullTerms(c).quantity \in 0..MaxAmount /\ MaxAmount \in Nat
  BY <1>1, LedgerAssumption DEF Movements
<1>3. movement'[k].quantity \in 0..MaxAmount /\ \A u \in S : movement'[u] = movement[u]
  BY <1>1, <1>2
<1>4. k \notin S /\ S \in SUBSET Keys
  OBVIOUS
<1>5. /\ SumOf(S, NewQuantities) = Quantity(S) /\ Quantity(S) \in Nat
      /\ SumOf(S \cup {k}, NewQuantities) = Quantity(S) + movement'[k].quantity
  BY <1>1, <1>3, <1>4, QuantityMoves
<1> QED
  BY <1>1, <1>2, <1>5

(* What the commit of a movement makes of the sums of an item.             *)
LEMMA StockSums ==
    ASSUME TypeOK, MovementsRefer, NEW c, Records(c), NEW i \in Items
    PROVE  LET m == FullTerms(c)
               taken == (TermsKind(c) = "PROJECT_ISSUE") # TakesBack(c)
           IN  /\ In(i) \in Nat /\ Out(i) \in Nat /\ m.quantity \in Nat
               /\ In(i)' = IF m.item = i /\ ~taken THEN In(i) + m.quantity ELSE In(i)
               /\ Out(i)' = IF m.item = i /\ taken THEN Out(i) + m.quantity ELSE Out(i)
               /\ \A p, kind : \A undone \in BOOLEAN :
                     /\ AtProject(i, p, kind, undone) \in Nat
                     /\ AtProject(i, p, kind, undone)' =
                           IF m.item = i /\ m.project = p /\ TermsKind(c) = kind /\ TakesBack(c) = undone
                           THEN AtProject(i, p, kind, undone) + m.quantity ELSE AtProject(i, p, kind, undone)
<1> DEFINE k == c.key
           m == FullTerms(c)
           taken == (TermsKind(c) = "PROJECT_ISSUE") # TakesBack(c)
<1>1. /\ k \in Keys /\ movement'[k] = m /\ BaseKind(k)' = TermsKind(c) /\ Undoes(k)' = TakesBack(c)
      /\ \A u \in Keys \ {k} : /\ movement'[u] = movement[u]
                               /\ BaseKind(u)' = BaseKind(u) /\ Undoes(u)' = Undoes(u)
  BY RecordedMovement
<1>2. movement[k].item # i
  BY <1>1, StockAssumption DEF Records, MovementsRefer, NoMovement
<1>3. /\ Incoming(k)' = ~taken
      /\ \A u \in Keys \ {k} : Incoming(u)' = Incoming(u)
  <2>1. Incoming(k)' = ((BaseKind(k)' = "PROJECT_ISSUE") = Undoes(k)')
    BY DEF Incoming
  <2>2. Incoming(k)' = ~taken
    BY <1>1, <2>1
  <2>3. \A u \in Keys \ {k} : Incoming(u)' = ((BaseKind(u)' = "PROJECT_ISSUE") = Undoes(u)')
    BY DEF Incoming
  <2>4. \A u \in Keys \ {k} : Incoming(u)' = Incoming(u)
    BY <1>1, <2>3 DEF Incoming
  <2> QED
    BY <2>2, <2>4
<1>4. ASSUME NEW out \in BOOLEAN
      PROVE  /\ Counted(i, out) \in SUBSET (Keys \ {k})
             /\ Counted(i, out)' = IF m.item = i /\ taken = out THEN Counted(i, out) \cup {k} ELSE Counted(i, out)
  <2>1. Counted(i, out) \in SUBSET (Keys \ {k})
    BY <1>2 DEF Counted, OfItem
  <2>2. Counted(i, out)' = {u \in Keys : movement'[u].item = i /\ Incoming(u)' # out}
    BY DEF Counted, OfItem
  <2>3. Counted(i, out) = {u \in Keys \ {k} : movement'[u].item = i /\ Incoming(u)' # out}
    BY <1>1, <1>2, <1>3 DEF Counted, OfItem
  <2>4. (movement'[k].item = i /\ Incoming(k)' # out) <=> (m.item = i /\ taken = out)
    BY <1>1, <1>3
  <2> HIDE DEF m, k, taken
  <2> QED
    BY <1>1, <2>1, <2>2, <2>3, <2>4
<1>5. ASSUME NEW p, NEW kind, NEW undone \in BOOLEAN
      PROVE  LET S == CountedAt(i, p, kind, undone)
             IN  /\ S \in SUBSET (Keys \ {k})
                 /\ S' = IF m.item = i /\ m.project = p /\ TermsKind(c) = kind /\ TakesBack(c) = undone
                         THEN S \cup {k} ELSE S
  <2> DEFINE S == CountedAt(i, p, kind, undone)
             b == m.item = i /\ m.project = p /\ TermsKind(c) = kind /\ TakesBack(c) = undone
  <2>1. S \in SUBSET (Keys \ {k})
    BY <1>2 DEF CountedAt, OfItem
  <2>2. S' = {u \in Keys : movement'[u].item = i /\ movement'[u].project = p /\ BaseKind(u)' = kind /\ Undoes(u)' = undone}
    BY DEF CountedAt, OfItem
  <2>3. S = {u \in Keys \ {k} : movement'[u].item = i /\ movement'[u].project = p /\ BaseKind(u)' = kind /\ Undoes(u)' = undone}
    BY <1>1, <1>2 DEF CountedAt, OfItem
  <2>4. (movement'[k].item = i /\ movement'[k].project = p /\ BaseKind(k)' = kind /\ Undoes(k)' = undone) <=> b
    BY <1>1
  <2>5. S' = IF b THEN S \cup {k} ELSE S
    <3> HIDE DEF m, b, k
    <3> QED
      BY <1>1, <2>1, <2>2, <2>3, <2>4
  <2> QED
    BY <2>1, <2>5
<1>6. In(i) \in Nat /\ m.quantity \in Nat /\ In(i)' = IF m.item = i /\ ~taken THEN In(i) + m.quantity ELSE In(i)
  <2> DEFINE b == m.item = i /\ taken = FALSE
  <2>1. Counted(i, FALSE) \in SUBSET (Keys \ {k}) /\ Counted(i, FALSE)' = IF b THEN Counted(i, FALSE) \cup {k} ELSE Counted(i, FALSE)
    BY <1>4
  <2>2. b \in BOOLEAN
    OBVIOUS
  <2>3. In(i) = Quantity(Counted(i, FALSE)) /\ In(i)' = SumOf(Counted(i, FALSE)', NewQuantities)
    BY SumsCount
  <2>4. In(i) \in Nat /\ m.quantity \in Nat /\ In(i)' = IF b THEN In(i) + m.quantity ELSE In(i)
    <3>1. PICK S, T : S = Counted(i, FALSE) /\ T = Counted(i, FALSE)'
      OBVIOUS
    <3>2. /\ Quantity(S) \in Nat /\ m.quantity \in Nat
          /\ SumOf(T, NewQuantities) = IF b THEN Quantity(S) + m.quantity ELSE Quantity(S)
      <4> HIDE DEF b
      <4> QED
        BY <2>1, <2>2, <3>1, NewSum
    <3> HIDE DEF b, m
    <3> QED
      BY <2>3, <3>1, <3>2
  <2> QED
    BY <2>4
<1>7. Out(i) \in Nat /\ Out(i)' = IF m.item = i /\ taken THEN Out(i) + m.quantity ELSE Out(i)
  <2> DEFINE b == m.item = i /\ taken = TRUE
  <2>1. Counted(i, TRUE) \in SUBSET (Keys \ {k}) /\ Counted(i, TRUE)' = IF b THEN Counted(i, TRUE) \cup {k} ELSE Counted(i, TRUE)
    BY <1>4
  <2>2. b \in BOOLEAN
    OBVIOUS
  <2>3. Out(i) = Quantity(Counted(i, TRUE)) /\ Out(i)' = SumOf(Counted(i, TRUE)', NewQuantities)
    BY SumsCount
  <2>4. Out(i) \in Nat /\ Out(i)' = IF b THEN Out(i) + m.quantity ELSE Out(i)
    <3>1. PICK S, T : S = Counted(i, TRUE) /\ T = Counted(i, TRUE)'
      OBVIOUS
    <3>2. /\ Quantity(S) \in Nat /\ m.quantity \in Nat
          /\ SumOf(T, NewQuantities) = IF b THEN Quantity(S) + m.quantity ELSE Quantity(S)
      <4> HIDE DEF b
      <4> QED
        BY <2>1, <2>2, <3>1, NewSum
    <3> HIDE DEF b, m
    <3> QED
      BY <2>3, <3>1, <3>2
  <2> QED
    BY <2>4
<1>8. ASSUME NEW p, NEW kind, NEW undone \in BOOLEAN
      PROVE  /\ AtProject(i, p, kind, undone) \in Nat
             /\ AtProject(i, p, kind, undone)' =
                   IF m.item = i /\ m.project = p /\ TermsKind(c) = kind /\ TakesBack(c) = undone
                   THEN AtProject(i, p, kind, undone) + m.quantity ELSE AtProject(i, p, kind, undone)
  <2> DEFINE S == CountedAt(i, p, kind, undone)
             b == m.item = i /\ m.project = p /\ TermsKind(c) = kind /\ TakesBack(c) = undone
  <2>1. S \in SUBSET (Keys \ {k}) /\ S' = IF b THEN S \cup {k} ELSE S
    BY <1>5
  <2>2. b \in BOOLEAN
    OBVIOUS
  <2>3. AtProject(i, p, kind, undone) = Quantity(S) /\ AtProject(i, p, kind, undone)' = SumOf(S', NewQuantities)
    BY SumsCount
  <2>4. /\ AtProject(i, p, kind, undone) \in Nat
        /\ AtProject(i, p, kind, undone)' =
              IF b THEN AtProject(i, p, kind, undone) + m.quantity ELSE AtProject(i, p, kind, undone)
    <3> HIDE DEF b
    <3> QED
      BY <2>1, <2>2, <2>3, NewSum
  <2> QED
    BY <2>4
<1> QED
  BY <1>6, <1>7, <1>8

(* A movement that the triggers let through leaves the stock covered.      *)
LEMMA StockStaysCovered ==
    ASSUME TypeOK, MovementsRefer, StockIsCovered, NEW c, Records(c), Covered(c)
    PROVE  StockIsCovered'
<1> DEFINE m == FullTerms(c)
           issue == TermsKind(c) = "PROJECT_ISSUE"
           return == TermsKind(c) = "PROJECT_RETURN"
           undoes == TakesBack(c)
<1> SUFFICES ASSUME NEW i \in Items
             PROVE  Out(i)' <= In(i)' /\ \A p \in Projects : Kept(i, p, 0)'
  BY DEF StockIsCovered
<1>1. /\ In(i) \in Nat /\ Out(i) \in Nat /\ m.quantity \in Nat
      /\ In(i)' = IF m.item = i /\ ~(issue # undoes) THEN In(i) + m.quantity ELSE In(i)
      /\ Out(i)' = IF m.item = i /\ (issue # undoes) THEN Out(i) + m.quantity ELSE Out(i)
  BY StockSums
<1>2. Out(i) <= In(i)
  BY DEF StockIsCovered
<1>3. (issue # undoes) /\ m.item = i => Out(i) + m.quantity <= In(i)
  BY DEF Covered
<1>4. Out(i)' <= In(i)'
  <2> HIDE DEF m, issue, undoes
  <2>1. CASE m.item = i /\ (issue # undoes)
    BY <1>1, <1>3, <2>1
  <2>2. CASE m.item = i /\ ~(issue # undoes)
    BY <1>1, <1>2, <2>2
  <2>3. CASE m.item # i
    BY <1>1, <1>2, <2>3
  <2> QED
    BY <2>1, <2>2, <2>3
<1>5. ASSUME NEW p \in Projects PROVE Kept(i, p, 0)'
  <2> DEFINE a == AtProject(i, p, "PROJECT_ISSUE", FALSE)
             b == AtProject(i, p, "PROJECT_RETURN", TRUE)
             d == AtProject(i, p, "PROJECT_ISSUE", TRUE)
             e == AtProject(i, p, "PROJECT_RETURN", FALSE)
             here == m.item = i /\ m.project = p
  <2>1. /\ a \in Nat /\ b \in Nat /\ d \in Nat /\ e \in Nat
        /\ a' = IF here /\ issue /\ ~undoes THEN a + m.quantity ELSE a
        /\ b' = IF here /\ return /\ undoes THEN b + m.quantity ELSE b
        /\ d' = IF here /\ issue /\ undoes THEN d + m.quantity ELSE d
        /\ e' = IF here /\ return /\ ~undoes THEN e + m.quantity ELSE e
    <3>1. \A kind : \A undone \in BOOLEAN :
             /\ AtProject(i, p, kind, undone) \in Nat
             /\ AtProject(i, p, kind, undone)' =
                   IF m.item = i /\ m.project = p /\ TermsKind(c) = kind /\ undoes = undone
                   THEN AtProject(i, p, kind, undone) + m.quantity ELSE AtProject(i, p, kind, undone)
      BY StockSums
    <3>2. undoes \in BOOLEAN
      BY DEF TakesBack
    <3> HIDE DEF m, undoes
    <3> QED
      BY <3>1, <3>2
  <2>2. a + b >= d + e + 0
    BY DEF StockIsCovered, Kept
  <2>3. here /\ ((issue /\ undoes) \/ (return /\ ~undoes)) => a + b >= d + e + m.quantity
    BY DEF Covered, Kept
  <2>4. ~(issue /\ return)
    OBVIOUS
  <2>5. a' + b' >= d' + e' + 0
    <3> HIDE DEF a, b, d, e, here, issue, return, undoes, m
    <3>1. CASE here /\ issue /\ undoes
      BY <1>1, <2>1, <2>3, <2>4, <3>1
    <3>2. CASE here /\ return /\ ~undoes
      BY <1>1, <2>1, <2>3, <2>4, <3>2
    <3>3. CASE here /\ issue /\ ~undoes
      BY <1>1, <2>1, <2>2, <2>4, <3>3
    <3>4. CASE here /\ return /\ undoes
      BY <1>1, <2>1, <2>2, <2>4, <3>4
    <3>5. CASE ~here \/ (~issue /\ ~return)
      BY <2>1, <2>2, <3>5
    <3> QED
      BY <3>1, <3>2, <3>3, <3>4, <3>5
  <2> QED
    BY <2>5 DEF Kept
<1> QED
  BY <1>4, <1>5

LEMMA CoveredMeans ==
    ASSUME NEW c, NEW i, NEW p, NEW q, FullTerms(c).item = i, FullTerms(c).project = p, FullTerms(c).quantity = q
    PROVE  Covered(c) <=>
              /\ \/ TermsKind(c) = "PROJECT_ISSUE" /\ TakesBack(c)
                 \/ TermsKind(c) = "PROJECT_RETURN" /\ ~TakesBack(c)
                 => Kept(i, p, q)
              /\ (TermsKind(c) = "PROJECT_ISSUE") # TakesBack(c) => Out(i) + q <= In(i)
BY DEF Covered

LEMMA CoveredMeansNext ==
    ASSUME NEW c, NEW i, NEW p, NEW q, FullTerms(c)'.item = i, FullTerms(c)'.project = p, FullTerms(c)'.quantity = q
    PROVE  Covered(c)' <=>
              /\ \/ TermsKind(c)' = "PROJECT_ISSUE" /\ TakesBack(c)
                 \/ TermsKind(c)' = "PROJECT_RETURN" /\ ~TakesBack(c)
                 => Kept(i, p, q)'
              /\ (TermsKind(c)' = "PROJECT_ISSUE") # TakesBack(c) => Out(i)' + q <= In(i)'
BY DEF Covered, TakesBack, Kept, AtProject, In, Out, Quantity, OfItem, Incoming, BaseKind, Undoes

(* While a session has an item locked, what it found covered stays so.     *)
LEMMA CoveredRests ==
    ASSUME TypeOK, Locked, MovementsRefer, NEW s \in Sessions, NEW t \in Sessions, s # t, Commit(s), MoveHeld(s),
           NEW d \in StockCalls, d.op = "Move", TakesBack(d) => Recorded(d.terms.reverses),
           ForUpdate("items", FullTerms(d).item) \in held[t], Covered(d)
    PROVE  Covered(d)'
<1>1. PICK i, p, q : FullTerms(d).item = i /\ FullTerms(d).project = p /\ FullTerms(d).quantity = q
  OBVIOUS
<1>2. FullTerms(d)' = FullTerms(d) /\ TermsKind(d)' = TermsKind(d)
  BY FullTermsRest
<1>3. i \in Items
  <2>1. CASE TakesBack(d)
    BY <1>1, <2>1, MoveFields, FullTermsAre DEF MovementsRefer, TypeOK, StockTypeOK
  <2>2. CASE ~TakesBack(d)
    BY <1>1, <2>2, MoveFields, FullTermsAre DEF TypeOK, StockTypeOK
  <2> QED
    BY <2>1, <2>2
<1>4. /\ In(i)' = In(i) /\ Out(i)' = Out(i)
      /\ \A kind : \A undone \in BOOLEAN : AtProject(i, p, kind, undone)' = AtProject(i, p, kind, undone)
  <2>1. CASE movement' = movement
    BY <2>1 DEF AtProject, In, Out, Quantity, OfItem, Incoming, BaseKind, Undoes
  <2>2. CASE movement' # movement
    <3>1. PICK c : c = call[s]
      OBVIOUS
    <3>2. Records(c) /\ ForUpdate("items", FullTerms(c).item) \in held[s]
      BY <2>2, <3>1, MovesRecord
    <3>3. FullTerms(c).item # i
      BY <1>1, <3>2, HeldApart DEF ForUpdate
    <3> QED
      BY <1>3, <3>2, <3>3, StockSums
  <2> QED
    BY <2>1, <2>2
<1>5. Kept(i, p, q)' <=> Kept(i, p, q)
  BY <1>4 DEF Kept
<1>6. /\ \/ TermsKind(d) = "PROJECT_ISSUE" /\ TakesBack(d)
         \/ TermsKind(d) = "PROJECT_RETURN" /\ ~TakesBack(d)
         => Kept(i, p, q)
      /\ (TermsKind(d) = "PROJECT_ISSUE") # TakesBack(d) => Out(i) + q <= In(i)
  BY <1>1, CoveredMeans
<1>7. FullTerms(d)'.item = i /\ FullTerms(d)'.project = p /\ FullTerms(d)'.quantity = q
  BY <1>1, <1>2
<1> QED
  BY <1>2, <1>4, <1>5, <1>6, <1>7, CoveredMeansNext

LEMMA OtherMoveCommit ==
    ASSUME TypeOK, Locked, MovementsRefer, NEW s \in Sessions, NEW t \in Sessions, s # t, Commit(s), MoveHeld(s),
           MoveHeld(t), Rests(t)
    PROVE  MoveHeld(t)'
<1>1. PICK d : d = call[t]
  OBVIOUS
<1>2. SUFFICES ASSUME d # None, d.op = "Move" PROVE MoveHeld(t)'
  BY <1>1 DEF MoveHeld, Rests
<1>3. d \in StockCalls /\ at[t] \in Nat
  BY <1>1, <1>2, CallsAreOfAKind DEF TypeOK, StockOps
<1>4. call'[t] = d /\ at'[t] = at[t] /\ passed'[t] = passed[t] /\ held'[t] = held[t]
  BY <1>1 DEF Rests
<1>5. /\ TakesBack(d) /\ at[t] > 0 => Recorded(d.terms.reverses)
      /\ at[t] >= 4 => ForUpdate("items", FullTerms(d).item) \in held[t]
      /\ at[t] \in {4, 5} /\ passed[t] => Covered(d)
  BY <1>1, <1>2 DEF MoveHeld, Has
<1>6. ASSUME at[t] > 0
      PROVE  FullTerms(d)' = FullTerms(d) /\ (TakesBack(d) => Recorded(d.terms.reverses)')
  BY <1>2, <1>3, <1>5, <1>6, FullTermsRest
<1>7. ASSUME at[t] \in {4, 5}, passed[t] PROVE Covered(d)'
  <2>1. at[t] > 0 /\ at[t] >= 4
    BY <1>7
  <2> QED
    BY <1>2, <1>3, <1>5, <1>7, <2>1, CoveredRests
<1>8. at[t] >= 4 => ForUpdate("items", FullTerms(d)'.item) \in held[t]
  BY <1>3, <1>5, <1>6
<1>9. /\ Covered(call[t])' = Covered(d)' /\ FullTerms(call[t])' = FullTerms(d)'
      /\ Recorded(call[t].terms.reverses)' = Recorded(d.terms.reverses)'
  BY <1>4
<1> QED
  BY <1>2, <1>4, <1>6, <1>7, <1>8, <1>9 DEF MoveHeld, Has, TakesBack

(* What the triggers let through is covered.                               *)
LEMMA InsertCovers ==
    ASSUME TypeOK, NEW c \in Calls, c.op = "Move", ~InsertRefused(c)
    PROVE  Covered(c)
<1>1. PICK m : m = FullTerms(c)
  OBVIOUS
<1>2. c \in StockCalls /\ m \in Movements(Kinds) /\ m.kind = c.terms.kind /\ m.reverses = c.terms.reverses
  BY <1>1, CallsAreOfAKind, FullTermsAre DEF StockOps, TypeOK, StockTypeOK
<1>3. PICK incoming : incoming = (IF m.kind = "REVERSAL" THEN movement[m.reverses].kind = "PROJECT_ISSUE"
                                  ELSE m.kind # "PROJECT_ISSUE")
  OBVIOUS
<1>4. /\ ~(m.kind = "REVERSAL" /\ incoming /\ ~Kept(m.item, m.project, m.quantity))
      /\ ~(m.kind = "PROJECT_RETURN" /\ ~Kept(m.item, m.project, m.quantity))
      /\ ~(~incoming /\ In(m.item) < Out(m.item) + m.quantity)
  BY <1>1, <1>3 DEF InsertRefused
<1>5. In(m.item) \in Nat /\ Out(m.item) + m.quantity \in Nat
  <2>1. Out(m.item) \in Nat /\ In(m.item) \in Nat
    <3>1. \A S \in SUBSET Keys : Quantity(S) \in Nat
      BY StockAssumption, LedgerAssumption, FS_Subset, SumIsNatural DEF Quantity
    <3> QED
      BY <3>1 DEF In, Out, OfItem
  <2>2. m.quantity \in Nat
    BY <1>2, LedgerAssumption DEF Movements
  <2> QED
    BY <2>1, <2>2
<1>6. /\ \/ TermsKind(c) = "PROJECT_ISSUE" /\ TakesBack(c)
         \/ TermsKind(c) = "PROJECT_RETURN" /\ ~TakesBack(c)
         => Kept(m.item, m.project, m.quantity)
  BY <1>2, <1>3, <1>4 DEF TermsKind, TakesBack
<1>7. (TermsKind(c) = "PROJECT_ISSUE") # TakesBack(c) => ~incoming
  BY <1>2, <1>3 DEF TermsKind, TakesBack
<1>8. (TermsKind(c) = "PROJECT_ISSUE") # TakesBack(c) => Out(m.item) + m.quantity <= In(m.item)
  BY <1>4, <1>5, <1>7
<1> QED
  BY <1>1, <1>6, <1>8 DEF Covered

(* What a movement checks of its item it reads under the item's lock.      *)
LEMMA OwnMoveStep ==
    ASSUME TypeOK, Locked, MovementsRefer, NEW s \in Sessions, SessionStep(s), ~Commit(s), MoveHeld(s)
    PROVE  MoveHeld(s)'
<1>1. PICK c : c = call[s]
  OBVIOUS
<1>2. UNCHANGED movement
  BY OnlyCommitsWrite DEF tables, stock
<1>3. at[s] \in Nat /\ IdleHoldsNothing
  BY DEF TypeOK, Locked
<1>4. CASE Starts(s)
  BY <1>3, <1>4 DEF Starts, IdleHoldsNothing, MoveHeld, Has
<1>5. CASE Ends(s)
  BY <1>5 DEF Ends, MoveHeld
<1>6. CASE call[s] # None /\ call'[s] = call[s]
  <2>1. SUFFICES ASSUME c.op = "Move" PROVE MoveHeld(s)'
    BY <1>1, <1>6 DEF MoveHeld
  <2>2. call'[s] = c /\ c # None
    BY <1>1, <1>6
  <2>3. /\ TakesBack(c) /\ at[s] > 0 => Recorded(c.terms.reverses)
        /\ Has(s, 4, ForUpdate("items", FullTerms(c).item))
        /\ at[s] \in {4, 5} /\ passed[s] => Covered(c)
    BY <1>1, <2>1, <2>2 DEF MoveHeld
  <2>4. /\ FullTerms(c)' = FullTerms(c) /\ Recorded(c.terms.reverses)' = Recorded(c.terms.reverses)
        /\ Covered(c)' = Covered(c)
    BY <1>2 DEF FullTerms, Recorded, Covered, TermsKind, TakesBack, Kept, AtProject, In, Out, Quantity, OfItem,
                Incoming, BaseKind, Undoes
  <2>5. /\ Plan(c) = MovePlan(c) /\ Len(Plan(c)) = 5
        /\ Plan(c)[1] = IfFound(c.terms.kind = "REVERSAL", ForUpdate("movements", c.terms.reverses))
        /\ Plan(c)[4] = ForUpdate("items", FullTerms(c).item)
    BY <2>1, MovePlanIs
  <2>6. \A table, key : table # "none" => ForUpdate(table, key) # Nothing
    BY LocksAreSomething
  <2>7. Has(s, 4, ForUpdate("items", FullTerms(c).item))'
    <3>1. PICK row : row = ForUpdate("items", FullTerms(c).item)
      OBVIOUS
    <3>2. Has(s, 4, row)'
      BY <1>1, <1>3, <2>2, <2>3, <2>5, <2>6, <3>1, RowIsKept
    <3> QED
      BY <2>4, <3>1, <3>2 DEF Has
  <2>8. TakesBack(c) /\ at'[s] > 0 => Recorded(c.terms.reverses)
    <3>1. SUFFICES ASSUME TakesBack(c), at[s] = 0, at'[s] > 0 PROVE Recorded(c.terms.reverses)
      BY <1>3, <2>3
    <3>2. Plan(c)[1] = ForUpdate("movements", c.terms.reverses)
      BY <2>5, <3>1 DEF IfFound, TakesBack
    <3>3. CASE Locks(s) /\ Lock(s)
      <4>1. Exists(ForUpdate("movements", c.terms.reverses))
        BY <1>1, <3>1, <3>2, <3>3 DEF Lock, Wants, Asks, NextRow
      <4>2. movement[c.terms.reverses] # NoMovement
        BY <4>1 DEF Exists, StockExists, ForUpdate
      <4>3. c.terms.reverses \in Keys
        BY <1>1, <2>1, <2>2, <3>1, MoveFields, CallsAreOfAKind DEF TypeOK, StockOps
      <4> QED
        BY <4>2, <4>3 DEF MovementsRefer
    <3>4. CASE Skips(s) /\ Skip(s)
      BY <1>1, <2>6, <3>1, <3>2, <3>4 DEF Skip, Locking, NextRow
    <3>5. CASE Advances(s) \/ Starts(s) \/ Ends(s)
      BY <3>1, <3>5 DEF Advances, Starts, Ends
    <3> QED
      BY <1>3, <3>3, <3>4, <3>5, OneSessionMoves
  <2>9. at'[s] \in {4, 5} /\ passed'[s] => Covered(c)
    <3>1. SUFFICES ASSUME at'[s] \in {4, 5}, passed'[s] PROVE Covered(c)
      OBVIOUS
    <3>2. CASE Locks(s) /\ Lock(s)
      BY <3>1, <3>2 DEF Locks
    <3>3. CASE Starts(s) \/ Ends(s)
      BY <1>1, <2>2, <3>1, <3>3 DEF Starts, Ends
    <3>4. CASE Skips(s) /\ Skip(s)
      <4>1. at[s] # 3
        BY <1>1, <2>5, <2>6, <3>4 DEF Skip, Locking, NextRow
      <4>2. at[s] < 5 /\ at'[s] = at[s] + 1 /\ passed[s]
        BY <1>1, <2>5, <3>1, <3>4 DEF Skip, Skips, Locking
      <4>3. at[s] = 4
        BY <1>3, <3>1, <4>1, <4>2
      <4>4. at[s] \in {4, 5}
        BY <4>3
      <4> QED
        BY <2>3, <4>2, <4>4
    <3>5. CASE Advances(s) /\ Pass(s)
      <4>1. at'[s] = at[s] /\ ~StockRefused(c, at[s]) /\ ~StockAnswered(c, at[s])
        BY <1>1, <3>5 DEF Advances, Pass, Refused, Answered
      <4>2. at[s] = 4
        BY <2>1, <3>1, <4>1 DEF StockAnswered
      <4>3. ~InsertRefused(c)
        BY <2>1, <4>1, <4>2 DEF StockRefused
      <4>4. c \in Calls
        BY <1>1, <2>2 DEF TypeOK
      <4> QED
        BY <2>1, <4>3, <4>4, InsertCovers
    <3> QED
      BY <1>3, <3>2, <3>3, <3>4, <3>5, OneSessionMoves
  <2> QED
    BY <2>2, <2>4, <2>7, <2>8, <2>9 DEF MoveHeld, TakesBack
<1> QED
  BY <1>3, <1>4, <1>5, <1>6, OneSessionMoves DEF Advances, Pass, Checking, Locks, Lock, Wants, Asks, Locking, Skips, Skip

LEMMA CommitKeepsStock ==
    ASSUME TypeOK, StockIsCovered, MovementsRefer, NEW s \in Sessions, MoveHeld(s), Commit(s)
    PROVE  StockIsCovered' /\ MovementsRefer'
<1>1. CASE movement' = movement
  BY <1>1 DEF StockIsCovered, MovementsRefer, Recorded, Undoes, Kept, AtProject, In, Out, Quantity, OfItem,
              Incoming, BaseKind
<1>2. CASE movement' # movement
  <2>1. PICK c : Records(c) /\ Covered(c)
    BY <1>2, MovesRecord
  <2> QED
    BY <2>1, MovementsStayReferring, StockStaysCovered
<1> QED
  BY <1>1, <1>2

LEMMA RestingMove ==
    ASSUME UNCHANGED movement, NEW t \in Sessions, Rests(t), MoveHeld(t)
    PROVE  MoveHeld(t)'
<1>1. PICK d : d = call[t]
  OBVIOUS
<1>2. call'[t] = d /\ at'[t] = at[t] /\ passed'[t] = passed[t] /\ held'[t] = held[t]
  BY <1>1 DEF Rests
<1>3. /\ FullTerms(d)' = FullTerms(d) /\ Recorded(d.terms.reverses)' = Recorded(d.terms.reverses)
      /\ Covered(d)' = Covered(d)
  BY DEF FullTerms, Recorded, Covered, TermsKind, TakesBack, Kept, AtProject, In, Out, Quantity, OfItem,
         Incoming, BaseKind, Undoes
<1>4. /\ Covered(call[t])' = Covered(d)' /\ FullTerms(call[t])' = FullTerms(d)'
      /\ Recorded(call[t].terms.reverses)' = Recorded(d.terms.reverses)'
  BY <1>2
<1> QED
  BY <1>1, <1>2, <1>3, <1>4 DEF MoveHeld, Has, TakesBack

LEMMA StockStep ==
    ASSUME TypeOK, Locked, StockKept, [Next]_vars
    PROVE  StockKept'
<1>1. ASSUME NEW s \in Sessions, SessionStep(s) PROVE StockKept'
  <2>1. StockIsCovered /\ MovementsRefer /\ \A t \in Sessions : MoveHeld(t)
    BY DEF StockKept
  <2>2. ~Commit(s) => UNCHANGED movement
    BY <1>1, OnlyCommitsWrite DEF tables, stock
  <2>3. StockIsCovered' /\ MovementsRefer'
    <3>1. CASE Commit(s)
      BY <1>1, <2>1, <3>1, CommitKeepsStock
    <3>2. CASE ~Commit(s)
      BY <2>1, <2>2, <3>2 DEF StockIsCovered, MovementsRefer, Recorded, Undoes, Kept, AtProject, In, Out, Quantity,
                              OfItem, Incoming, BaseKind
    <3> QED
      BY <3>1, <3>2
  <2>4. MoveHeld(s)'
    <3>1. CASE Commit(s)
      BY <3>1 DEF Commit, Finish, MoveHeld, TypeOK
    <3>2. CASE ~Commit(s)
      BY <1>1, <2>1, <3>2, OwnMoveStep
    <3> QED
      BY <3>1, <3>2
  <2>5. ASSUME NEW t \in Sessions, t # s PROVE MoveHeld(t)'
    <3>1. Rests(t) /\ MoveHeld(t)
      BY <1>1, <2>1, <2>5, OneSessionMoves DEF Locked
    <3>2. CASE Commit(s)
      BY <1>1, <2>1, <2>5, <3>1, <3>2, OtherMoveCommit
    <3>3. CASE ~Commit(s)
      BY <2>2, <3>1, <3>3, RestingMove
    <3> QED
      BY <3>2, <3>3
  <2> QED
    BY <2>3, <2>4, <2>5 DEF StockKept
<1>2. CASE UNCHANGED vars
  <2>1. UNCHANGED <<movement, call, at, passed, held>>
    BY <1>2 DEF vars, tables, stock, sessions
  <2>2. StockIsCovered' /\ MovementsRefer'
    BY <2>1 DEF StockKept, StockIsCovered, MovementsRefer, Recorded, Undoes, Kept, AtProject, In, Out, Quantity,
                OfItem, Incoming, BaseKind
  <2>3. ASSUME NEW s \in Sessions PROVE MoveHeld(s)'
    BY <2>1, RestingMove DEF StockKept, Rests
  <2> QED
    BY <2>2, <2>3 DEF StockKept
<1> QED
  BY <1>1, <1>2 DEF Next, SessionStep, Done

LEMMA StockStarts ==
    ASSUME Init
    PROVE  StockKept
<1>1. movement = [k \in Keys |-> NoMovement] /\ call = [s \in Sessions |-> None]
  BY DEF Init, StockInit
<1>2. MovementsRefer
  BY <1>1 DEF MovementsRefer, Recorded, Undoes, NoMovement
<1>3. \A s \in Sessions : MoveHeld(s)
  BY <1>1 DEF MoveHeld
<1>4. ASSUME NEW i \in Items PROVE OfItem(i) = {}
  <2>1. i # None
    BY StockAssumption
  <2> QED
    BY <1>1, <2>1 DEF OfItem, NoMovement
<1>5. Quantity({}) = 0
  BY SumOfNone DEF Quantity
<1>6. ASSUME NEW i \in Items, NEW p
      PROVE  /\ In(i) = 0 /\ Out(i) = 0
             /\ \A kind, undone : AtProject(i, p, kind, undone) = 0
  <2>1. /\ {k \in OfItem(i) : Incoming(k)} = {} /\ {k \in OfItem(i) : ~Incoming(k)} = {}
        /\ \A kind, undone :
              {k \in OfItem(i) : movement[k].project = p /\ BaseKind(k) = kind /\ Undoes(k) = undone} = {}
    BY <1>4, <1>6
  <2> QED
    BY <1>5, <2>1 DEF In, Out, AtProject
<1>7. ASSUME NEW i \in Items, NEW p \in Projects PROVE Kept(i, p, 0)
  <2>1. \A kind, undone : AtProject(i, p, kind, undone) = 0
    BY <1>6
  <2>2. 0 + 0 >= 0 + 0 + 0
    OBVIOUS
  <2>3. AtProject(i, p, "PROJECT_ISSUE", FALSE) = 0 /\ AtProject(i, p, "PROJECT_RETURN", TRUE) = 0
        /\ AtProject(i, p, "PROJECT_ISSUE", TRUE) = 0 /\ AtProject(i, p, "PROJECT_RETURN", FALSE) = 0
    BY <2>1, Zenon
  <2> QED
    BY <2>2, <2>3 DEF Kept
<1>8. StockIsCovered
  BY <1>6, <1>7 DEF StockIsCovered
<1> QED
  BY <1>2, <1>3, <1>8 DEF StockKept

(* Issues, returns, receipts and reversals of the same items, in whatever  *)
(* order their transactions lock, wait and commit, never bring a stock     *)
(* below zero, and no project gives back more than it was issued: for any  *)
(* sessions, items, projects, keys and quantities.                         *)
THEOREM StockIsAlwaysCovered == Spec => []StockIsCovered
<1>1. Init => TypeOK /\ Locked /\ StockKept
  BY TypeInit, LockedInit, StockStarts
<1>2. TypeOK /\ Locked /\ StockKept /\ [Next]_vars => TypeOK' /\ Locked' /\ StockKept'
  BY TypeStep, LockedStep, StockStep
<1>3. StockKept => StockIsCovered
  BY DEF StockKept
<1> QED
  BY <1>1, <1>2, <1>3, PTL DEF Spec

(***************************************************************************)
(* Deadlocks.                                                              *)
(***************************************************************************)
(* The tables in the order in which the calls lock their rows; bills and   *)
(* items are locked alone.                                                 *)
Rank(table) ==
    CASE table = "matches" -> 1
      [] table = "transactions" -> 2
      [] table = "expenses" -> 3
      [] table = "invoices" -> 4
      [] table = "orders" -> 5
      [] table = "receipts" -> 6
      [] table = "lines" -> 7
      [] table = "movements" -> 9
      [] OTHER -> 8

(* The highest rank of the rows that a call has locked once it has gone    *)
(* through the first rows of its plan.                                     *)
Levels(c) ==
    CASE c.op = "Settle" -> IF c.kind = "EXPENSE" THEN <<2, 3, 4>> ELSE <<2, 4>>
      [] c.op = "Unsettle" -> <<1, 2, 4>>
      [] c.op \in TxOps -> <<2>>
      [] c.op \in TransferOps -> <<2, 2>>
      [] c.op \in InvoiceOps -> <<4>>
      [] c.op \in ExpenseOps -> <<3, 4>>
      [] c.op = "Receive" -> <<5, 6, 7>>
      [] c.op = "VoidReceipt" -> <<6>>
      [] c.op = "MatchOrder" -> <<4, 5>>
      [] c.op \in HeaderOps -> <<5>>
      [] OTHER -> <<8>>

Rises(c) ==
    /\ Len(Plan(c)) \in 0..Len(Levels(c))
    /\ \A k \in 1..Len(Plan(c)) :
          Plan(c)[k] # Nothing =>
              /\ Rank(Plan(c)[k].table) <= Levels(c)[k]
              /\ k > 1 /\ c.op \notin TransferOps => Levels(c)[k - 1] < Rank(Plan(c)[k].table)

(* Every call but a verification and a movement locks rows of ever higher  *)
(* rank, a transfer two of the same.                                       *)
LEMMA PlansRise ==
    ASSUME NEW c \in Calls, c.op \notin {"Verify", "Move"}
    PROVE  Rises(c)
<1> USE DEF OrderOps, HeaderOps, StockOps, TxOps, TransferOps, InvoiceOps, ExpenseOps
<1>1. \A table, key : ForUpdate(table, key).table = table /\ ForShare(table, key).table = table
  BY DEF ForUpdate, ForShare
<1>2. /\ Rank("matches") = 1 /\ Rank("transactions") = 2 /\ Rank("expenses") = 3 /\ Rank("invoices") = 4
      /\ Rank("orders") = 5 /\ Rank("receipts") = 6 /\ Rank("lines") = 7 /\ Rank("bills") = 8 /\ Rank("items") = 8
  BY DEF Rank
<1>3. \A kind, x : TargetRow(kind, x).table = IF kind = "INVOICE" THEN "invoices" ELSE "expenses"
  BY <1>1 DEF TargetRow
<1>4. CASE c.op = "Settle"
  <2>1. Plan(c) = SettlePlan(c) /\ c.kind \in {"INVOICE", "EXPENSE"}
    BY <1>4, FixedRows, CallsAreOfAKind DEF LedgerCalls
  <2>2. Levels(c) = IF c.kind = "EXPENSE" THEN <<2, 3, 4>> ELSE <<2, 4>>
    BY <1>4 DEF Levels
  <2>3. CASE c.kind = "INVOICE"
    BY <1>1, <1>2, <1>3, <2>1, <2>2, <2>3 DEF Rises, SettlePlan, TxPlan
  <2>4. CASE c.kind = "EXPENSE" /\ SupplierInvoice[c.target] = None
    BY <1>1, <1>2, <1>3, <2>1, <2>2, <2>4 DEF Rises, SettlePlan, TxPlan
  <2>5. CASE c.kind = "EXPENSE" /\ SupplierInvoice[c.target] # None
    BY <1>1, <1>2, <1>3, <2>1, <2>2, <2>5 DEF Rises, SettlePlan, TxPlan
  <2> QED
    BY <2>1, <2>3, <2>4, <2>5
<1>5. CASE c.op = "Unsettle"
  <2>1. Plan(c) = UnsettlePlan(c) /\ Levels(c) = <<1, 2, 4>>
    BY <1>5, FixedRows DEF Levels
  <2>2. CASE match[c.match].kind = "NONE"
    BY <1>1, <1>2, <2>1, <2>2 DEF Rises, UnsettlePlan
  <2>3. CASE match[c.match].kind # "NONE"
    <3>1. PICK t, row : /\ t = (CHOOSE u \in Transactions : u \in match[c.match].txs)
                        /\ row = TargetRow(match[c.match].kind, match[c.match].target)
      OBVIOUS
    <3>2. Plan(c) = <<ForUpdate("matches", c.match), ForUpdate("transactions", t), row>>
      BY <2>1, <2>3, <3>1 DEF UnsettlePlan
    <3>3. row.table \in {"invoices", "expenses"}
      BY <1>3, <3>1
    <3> QED
      BY <1>1, <1>2, <2>1, <3>2, <3>3 DEF Rises
  <2> QED
    BY <2>2, <2>3
<1>6. CASE c.op \in TxOps
  BY <1>1, <1>2, <1>6 DEF Rises, Plan, LedgerPlan, TxPlan, Levels
<1>7. CASE c.op \in TransferOps
  <2>1. PICK a, b : Plan(c) = <<ForUpdate("transactions", a), ForUpdate("transactions", b)>>
    BY <1>7, PairIsLocked DEF TransferPlan
  <2>2. Levels(c) = <<2, 2>>
    BY <1>7 DEF Levels
  <2> QED
    BY <1>1, <1>2, <1>7, <2>1, <2>2 DEF Rises
<1>8. CASE c.op \in InvoiceOps
  BY <1>1, <1>2, <1>8 DEF Rises, Plan, LedgerPlan, InvoicePlan, Levels
<1>9. CASE c.op \in ExpenseOps
  <2>1. Plan(c) = ExpensePlan(c) /\ Levels(c) = <<3, 4>>
    BY <1>9, FixedRows DEF Levels
  <2> QED
    BY <1>1, <1>2, <1>9, <2>1 DEF Rises, ExpensePlan
<1>10. CASE c.op = "Receive"
  <2>1. Plan(c) = ReceivePlan(c) /\ Levels(c) = <<5, 6, 7>>
    BY <1>10 DEF Plan, OrderPlan, Levels
  <2>2. PICK row : row = IfFound(receipt[c.receipt].status # "NONE", ForUpdate("receipts", c.receipt))
    OBVIOUS
  <2>3. row # Nothing => row.table = "receipts"
    BY <1>1, <2>2 DEF IfFound
  <2>4. Plan(c) = <<ForUpdate("orders", c.order), row, ForUpdate("lines", c.order)>>
    BY <2>1, <2>2 DEF ReceivePlan
  <2> QED
    BY <1>1, <1>2, <1>10, <2>1, <2>3, <2>4 DEF Rises
<1>11. CASE c.op = "VoidReceipt"
  BY <1>1, <1>2, <1>11 DEF Rises, Plan, OrderPlan, Levels
<1>12. CASE c.op = "MatchOrder"
  BY <1>1, <1>2, <1>12 DEF Rises, Plan, OrderPlan, MatchPlan, Levels
<1>13. CASE c.op \in HeaderOps
  BY <1>1, <1>2, <1>13 DEF Rises, Plan, OrderPlan, Levels
<1>14. CASE c.op = "UnmatchOrder"
  BY <1>1, <1>2, <1>14 DEF Rises, Plan, OrderPlan, Levels
<1>15. CASE c.op = "SaveItem"
  BY <1>1, <1>2, <1>15 DEF Rises, Plan, StockPlan, Levels
<1>16. c.op \in OrderOps \cup StockOps \cup {"Settle", "Unsettle", "Verify"} \cup TxOps \cup TransferOps
               \cup InvoiceOps \cup ExpenseOps
  BY CallsAreOfAKind DEF LedgerCalls
<1> QED
  BY <1>4, <1>5, <1>6, <1>7, <1>8, <1>9, <1>10, <1>11, <1>12, <1>13, <1>14, <1>15, <1>16

LEMMA LevelsRise ==
    ASSUME NEW c
    PROVE  /\ Len(Levels(c)) \in Nat
           /\ \A k \in 1..Len(Levels(c)) : Levels(c)[k] \in Nat /\ Levels(c)[k] <= 8
           /\ \A k \in 1..(Len(Levels(c)) - 1) : Levels(c)[k] <= Levels(c)[k + 1]
<1>1. Levels(c) \in {<<2, 3, 4>>, <<2, 4>>, <<1, 2, 4>>, <<2>>, <<2, 2>>, <<4>>, <<3, 4>>, <<5, 6, 7>>, <<6>>,
                     <<4, 5>>, <<5>>, <<8>>}
  BY DEF Levels
<1>2. PICK levels : levels = Levels(c)
  OBVIOUS
<1>3. /\ Len(levels) \in Nat
      /\ \A k \in 1..Len(levels) : levels[k] \in Nat /\ levels[k] <= 8
      /\ \A k \in 1..(Len(levels) - 1) : levels[k] <= levels[k + 1]
  BY <1>1, <1>2
<1> QED
  BY <1>2, <1>3

(* A session holds rows of no higher rank than it has come to.             *)
HeldInOrder(s) ==
    call[s] # None /\ call[s].op \notin {"Verify", "Move"} =>
        /\ at[s] <= Len(Levels(call[s]))
        /\ \A h \in held[s] : at[s] > 0 /\ Rank(h.table) <= Levels(call[s])[at[s]]
        /\ call[s].op \in TransferOps /\ at[s] = 1 => held[s] \subseteq {TransferPlan(call[s])[1]}

(* Until it has found one recorded before it, a movement holds only the    *)
(* one that it takes back, which is no reversal.                           *)
OwnRows(c) == IF TakesBack(c) THEN {ForUpdate("movements", c.terms.reverses)} ELSE {}
MoveHolds(s) ==
    call[s] # None /\ call[s].op = "Move" =>
        /\ at[s] = 0 => held[s] = {}
        /\ at[s] = 1 => held[s] \subseteq OwnRows(call[s])
        /\ at[s] \in {2, 3} /\ passed[s] => held[s] \subseteq OwnRows(call[s])
        /\ TakesBack(call[s]) /\ Seen(s) => movement[call[s].terms.reverses].kind # "REVERSAL"

OrderKept == \A s \in Sessions : HeldInOrder(s) /\ MoveHolds(s)

LEMMA OwnHeldInOrder ==
    ASSUME TypeOK, Locked, NEW s \in Sessions, SessionStep(s), HeldInOrder(s)
    PROVE  HeldInOrder(s)'
<1>1. IdleHoldsNothing /\ at[s] \in Nat
  BY DEF Locked, TypeOK
<1>2. SUFFICES ASSUME call'[s] # None, call'[s].op \notin {"Verify", "Move"} PROVE HeldInOrder(s)'
  BY DEF HeldInOrder
<1>3. PICK c : c = call'[s]
  OBVIOUS
<1>4. PICK levels : levels = Levels(c)
  OBVIOUS
<1>5. SUFFICES /\ at'[s] <= Len(levels)
               /\ \A h \in held'[s] : at'[s] > 0 /\ Rank(h.table) <= levels[at'[s]]
               /\ c.op \in TransferOps /\ at'[s] = 1 => held'[s] \subseteq {TransferPlan(c)[1]}
  BY <1>3, <1>4 DEF HeldInOrder, Levels, TransferPlan
<1>6. /\ Len(levels) \in Nat
      /\ \A k \in 1..Len(levels) : levels[k] \in Nat
      /\ \A k \in 1..(Len(levels) - 1) : levels[k] <= levels[k + 1]
  BY <1>4, LevelsRise
<1>7. CASE Starts(s)
  BY <1>1, <1>6, <1>7 DEF Starts, IdleHoldsNothing
<1>8. CASE Ends(s)
  BY <1>2, <1>8 DEF Ends
<1>9. ASSUME call[s] = c
      PROVE  /\ c \in Calls /\ Rises(c) /\ at[s] <= Len(levels)
             /\ \A h \in held[s] : at[s] > 0 /\ Rank(h.table) <= levels[at[s]]
             /\ c.op \in TransferOps /\ at[s] = 1 => held[s] \subseteq {TransferPlan(c)[1]}
  <2>1. c \in Calls
    BY <1>2, <1>3, <1>9 DEF TypeOK
  <2> QED
    BY <1>2, <1>3, <1>4, <1>9, <2>1, PlansRise DEF HeldInOrder
<1>10. CASE Advances(s)
  BY <1>3, <1>9, <1>10 DEF Advances
<1>11. CASE Locks(s) /\ Lock(s)
  <2>1. call[s] = c
    BY <1>3, <1>11 DEF Locks
  <2>2. PICK row : row = Plan(c)[at[s] + 1]
    OBVIOUS
  <2>3. at[s] < Len(Plan(c)) /\ at'[s] = at[s] + 1 /\ held'[s] = held[s] \cup {row} /\ row # Nothing
    BY <1>11, <2>1, <2>2 DEF Locks, Lock, Wants, Asks, NextRow
  <2>4. at[s] + 1 \in 1..Len(Plan(c)) /\ at[s] + 1 <= Len(levels)
    BY <1>1, <1>4, <1>6, <1>9, <2>1, <2>3 DEF Rises
  <2>5. Rank(row.table) <= levels[at[s] + 1]
    BY <1>4, <1>9, <2>1, <2>2, <2>3, <2>4 DEF Rises
  <2>6. ASSUME NEW h \in held[s] PROVE Rank(h.table) <= levels[at[s] + 1]
    <3>1. at[s] > 0 /\ Rank(h.table) <= levels[at[s]] /\ at[s] \in 1..(Len(levels) - 1)
      BY <1>1, <1>6, <1>9, <2>1, <2>4, <2>6
    <3>2. levels[at[s]] <= levels[at[s] + 1] /\ levels[at[s]] \in Nat /\ levels[at[s] + 1] \in Nat
      BY <1>1, <1>6, <2>4, <3>1
    <3>3. Rank(h.table) \in Nat
      BY DEF Rank
    <3> QED
      BY <3>1, <3>2, <3>3
  <2>7. c.op \in TransferOps /\ at'[s] = 1 => held'[s] \subseteq {TransferPlan(c)[1]}
    <3>1. SUFFICES ASSUME c.op \in TransferOps, at[s] = 0 PROVE held'[s] \subseteq {TransferPlan(c)[1]}
      BY <1>1, <2>3
    <3>2. held[s] = {}
      BY <1>9, <2>1, <3>1
    <3> QED
      BY <2>2, <2>3, <3>1, <3>2, PairIsLocked
  <2>8. at'[s] > 0 /\ at'[s] <= Len(levels)
    BY <1>1, <2>3, <2>4
  <2>9. \A h \in held'[s] : Rank(h.table) <= levels[at'[s]]
    BY <2>3, <2>5, <2>6
  <2> QED
    BY <2>7, <2>8, <2>9
<1>12. CASE Skips(s) /\ Skip(s)
  <2>1. call[s] = c
    BY <1>3, <1>12 DEF Skips
  <2>2. at[s] < Len(Plan(c)) /\ at'[s] = at[s] + 1 /\ held'[s] = held[s] /\ c.op \notin TransferOps
    BY <1>12, <2>1, SkipsNoLock DEF Skips, Skip, Locking
  <2>3. at[s] + 1 <= Len(levels)
    BY <1>1, <1>4, <1>6, <1>9, <2>1, <2>2 DEF Rises
  <2>4. ASSUME NEW h \in held[s] PROVE Rank(h.table) <= levels[at[s] + 1]
    <3>1. at[s] > 0 /\ Rank(h.table) <= levels[at[s]] /\ at[s] \in 1..(Len(levels) - 1)
      BY <1>1, <1>6, <1>9, <2>1, <2>3, <2>4
    <3>2. levels[at[s]] <= levels[at[s] + 1] /\ levels[at[s]] \in Nat /\ levels[at[s] + 1] \in Nat
      BY <1>1, <1>6, <2>3, <3>1
    <3>3. Rank(h.table) \in Nat
      BY DEF Rank
    <3> QED
      BY <3>1, <3>2, <3>3
  <2> QED
    BY <1>1, <2>2, <2>3, <2>4
<1> QED
  BY <1>1, <1>7, <1>8, <1>10, <1>11, <1>12, OneSessionMoves

LEMMA OwnMoveHolds ==
    ASSUME TypeOK, Locked, MovementsRefer, NEW s \in Sessions, SessionStep(s), ~Commit(s), MoveHolds(s)
    PROVE  MoveHolds(s)'
<1>1. IdleHoldsNothing /\ at[s] \in Nat /\ UNCHANGED movement
  BY OnlyCommitsWrite DEF Locked, TypeOK, tables, stock
<1>2. SUFFICES ASSUME call'[s] # None, call'[s].op = "Move" PROVE MoveHolds(s)'
  BY DEF MoveHolds
<1>3. PICK c : c = call'[s]
  OBVIOUS
<1>4. SUFFICES /\ at'[s] = 0 => held'[s] = {}
               /\ at'[s] = 1 => held'[s] \subseteq OwnRows(c)
               /\ at'[s] \in {2, 3} /\ passed'[s] => held'[s] \subseteq OwnRows(c)
               /\ TakesBack(c) /\ (at'[s] > 1 \/ (at'[s] = 1 /\ passed'[s])) =>
                     movement[c.terms.reverses].kind # "REVERSAL"
  BY <1>1, <1>3 DEF MoveHolds, Seen, OwnRows, TakesBack
<1>5. CASE Starts(s)
  BY <1>1, <1>5 DEF Starts, IdleHoldsNothing
<1>6. CASE Ends(s)
  BY <1>2, <1>6 DEF Ends
<1>7. ASSUME call[s] = c
      PROVE  /\ at[s] = 0 => held[s] = {}
             /\ at[s] = 1 => held[s] \subseteq OwnRows(c)
             /\ at[s] \in {2, 3} /\ passed[s] => held[s] \subseteq OwnRows(c)
             /\ TakesBack(c) /\ (at[s] > 1 \/ (at[s] = 1 /\ passed[s])) =>
                   movement[c.terms.reverses].kind # "REVERSAL"
  BY <1>2, <1>3, <1>7 DEF MoveHolds, Seen
<1>8. /\ Plan(c) = MovePlan(c) /\ Len(MovePlan(c)) = 5
      /\ MovePlan(c)[1] = IfFound(TakesBack(c), ForUpdate("movements", c.terms.reverses))
  BY <1>2, <1>3, MovePlanIs DEF TakesBack
<1>9. CASE Advances(s) /\ Pass(s)
  <2>1. /\ call[s] = c /\ at'[s] = at[s] /\ held'[s] = held[s]
        /\ ~StockRefused(c, at[s]) /\ ~StockAnswered(c, at[s])
    BY <1>3, <1>9 DEF Advances, Pass, Refused, Answered
  <2>2. at[s] \notin {2, 3} /\ (at[s] = 1 => movement[c.terms.reverses].kind # "REVERSAL")
    BY <1>2, <1>3, <2>1 DEF StockRefused, StockAnswered
  <2> QED
    BY <1>1, <1>7, <2>1, <2>2
<1>10. CASE Locks(s) /\ Lock(s)
  <2>1. /\ call[s] = c /\ at'[s] = at[s] + 1 /\ ~passed'[s] /\ held'[s] = held[s] \cup {Plan(c)[at[s] + 1]}
        /\ Plan(c)[at[s] + 1] # Nothing /\ passed[s]
    BY <1>3, <1>10 DEF Locks, Lock, Wants, Asks, Locking, NextRow
  <2>2. at[s] = 0 => Plan(c)[1] \in OwnRows(c)
    BY <1>8, <2>1 DEF IfFound, OwnRows
  <2>3. at'[s] > 1 => at[s] > 1 \/ at[s] = 1
    BY <1>1, <2>1
  <2>4. at'[s] # 0 /\ (at'[s] = 1 => at[s] = 0)
    BY <1>1, <2>1
  <2>5. at'[s] = 1 => held'[s] \subseteq OwnRows(c)
    BY <1>7, <2>1, <2>2, <2>4
  <2> QED
    BY <1>7, <2>1, <2>3, <2>4, <2>5
<1>11. CASE Skips(s) /\ Skip(s)
  <2>1. /\ call[s] = c /\ at'[s] = at[s] + 1 /\ passed'[s] = passed[s] /\ passed[s] /\ held'[s] = held[s]
        /\ Plan(c)[at[s] + 1] = Nothing
    BY <1>3, <1>11 DEF Skips, Skip, Locking, NextRow
  <2>2. at[s] = 0 => ~TakesBack(c)
    <3>1. ForUpdate("movements", c.terms.reverses) # Nothing
      BY LocksAreSomething
    <3> QED
      BY <1>8, <2>1, <3>1 DEF IfFound
  <2>3. /\ at'[s] # 0 /\ (at'[s] = 1 => at[s] = 0) /\ (at'[s] = 2 => at[s] = 1)
        /\ (at'[s] = 3 => at[s] = 2) /\ (at'[s] > 1 => at[s] = 1 \/ at[s] > 1)
    BY <1>1, <2>1
  <2>4. /\ at'[s] = 1 => held'[s] \subseteq OwnRows(c)
        /\ at'[s] \in {2, 3} => held'[s] \subseteq OwnRows(c)
    BY <1>7, <2>1, <2>3
  <2>5. TakesBack(c) /\ (at'[s] > 1 \/ at'[s] = 1) => movement[c.terms.reverses].kind # "REVERSAL"
    BY <1>7, <2>1, <2>2, <2>3
  <2> QED
    BY <2>3, <2>4, <2>5
<1> QED
  BY <1>1, <1>5, <1>6, <1>9, <1>10, <1>11, OneSessionMoves

(* The others keep their locks, and no recorded movement changes.          *)
LEMMA OtherHolds ==
    ASSUME TypeOK, Locked, MovementsRefer, NEW t \in Sessions, Rests(t), HeldInOrder(t), MoveHolds(t), MoveHeld(t),
           \A k \in Keys : Recorded(k) => movement'[k] = movement[k]
    PROVE  HeldInOrder(t)' /\ MoveHolds(t)'
<1>1. PICK d : d = call[t]
  OBVIOUS
<1>2. call'[t] = d /\ at'[t] = at[t] /\ passed'[t] = passed[t] /\ held'[t] = held[t]
  BY <1>1 DEF Rests
<1>3. HeldInOrder(t)'
  BY <1>1, <1>2 DEF HeldInOrder, Levels, TransferPlan
<1>4. MoveHolds(t)'
  <2>1. SUFFICES ASSUME d # None, d.op = "Move", TakesBack(d), Seen(t)
                 PROVE  movement'[d.terms.reverses].kind # "REVERSAL"
    BY <1>1, <1>2 DEF MoveHolds, Seen, OwnRows, TakesBack
  <2>2. d \in StockCalls /\ at[t] \in Nat
    BY <1>1, <2>1, CallsAreOfAKind DEF TypeOK, StockOps
  <2>3. at[t] > 0
    BY <2>1, <2>2 DEF Seen
  <2>4. d.terms.reverses \in Keys /\ Recorded(d.terms.reverses)
    BY <1>1, <2>1, <2>2, <2>3, MoveFields DEF MoveHeld
  <2>5. movement[d.terms.reverses].kind # "REVERSAL"
    BY <1>1, <2>1 DEF MoveHolds
  <2> QED
    BY <2>4, <2>5
<1> QED
  BY <1>3, <1>4

LEMMA OrderStep ==
    ASSUME TypeOK, Locked, StockKept, OrderKept, [Next]_vars
    PROVE  OrderKept'
<1>1. MovementsRefer /\ \A t \in Sessions : MoveHeld(t) /\ HeldInOrder(t) /\ MoveHolds(t)
  BY DEF StockKept, OrderKept
<1>2. ASSUME NEW s \in Sessions, SessionStep(s) PROVE OrderKept'
  <2>1. HeldInOrder(s)'
    BY <1>1, <1>2, OwnHeldInOrder
  <2>2. MoveHolds(s)'
    <3>1. CASE Commit(s)
      BY <3>1 DEF Commit, Finish, MoveHolds, TypeOK
    <3>2. CASE ~Commit(s)
      BY <1>1, <1>2, <3>2, OwnMoveHolds
    <3> QED
      BY <3>1, <3>2
  <2>3. \A k \in Keys : Recorded(k) => movement'[k] = movement[k]
    <3>1. CASE Commit(s)
      BY <1>1, <3>1, MovementsRest
    <3>2. CASE ~Commit(s)
      BY <1>2, <3>2, OnlyCommitsWrite DEF tables, stock
    <3> QED
      BY <3>1, <3>2
  <2>4. ASSUME NEW t \in Sessions, t # s PROVE HeldInOrder(t)' /\ MoveHolds(t)'
    <3>1. Rests(t)
      BY <1>2, <2>4, OneSessionMoves DEF Locked
    <3> QED
      BY <1>1, <2>3, <3>1, OtherHolds
  <2> QED
    BY <2>1, <2>2, <2>4 DEF OrderKept
<1>3. CASE UNCHANGED vars
  <2>1. ASSUME NEW t \in Sessions PROVE HeldInOrder(t)' /\ MoveHolds(t)'
    <3>1. Rests(t) /\ UNCHANGED movement
      BY <1>3 DEF vars, tables, stock, sessions, Rests
    <3> QED
      BY <1>1, <3>1, OtherHolds
  <2> QED
    BY <2>1 DEF OrderKept
<1> QED
  BY <1>2, <1>3 DEF Next, SessionStep, Done

LEMMA OrderStarts ==
    ASSUME Init
    PROVE  OrderKept
BY DEF Init, OrderKept, HeldInOrder, MoveHolds

LEMMA WhatIsWanted ==
    ASSUME NEW s \in Sessions, NEW w \in Wants[s]
    PROVE  /\ call[s] # None /\ passed[s] /\ at[s] < Len(Plan(call[s]))
           /\ w = Plan(call[s])[at[s] + 1] /\ w # Nothing /\ Exists(w)
BY DEF Wants, Asks, Locking, NextRow

(* A call waits for rows of a higher rank than those it holds, a transfer  *)
(* for one of the same and a higher number.                                *)
LEMMA WantsAreHigher ==
    ASSUME TypeOK, NEW s \in Sessions, HeldInOrder(s), call[s].op \notin {"Verify", "Move"},
           NEW w \in Wants[s], NEW h \in held[s]
    PROVE  \/ Rank(h.table) < Rank(w.table)
           \/ Rank(h.table) = Rank(w.table) /\ w.key \in Nat /\ h.key \in Nat /\ h.key < w.key
<1>1. PICK c, k : c = call[s] /\ k = at[s]
  OBVIOUS
<1>2. c # None /\ k < Len(Plan(c)) /\ w = Plan(c)[k + 1] /\ w # Nothing
  BY <1>1, WhatIsWanted
<1>3. c \in Calls /\ k \in Nat
  BY <1>1, <1>2 DEF TypeOK
<1>4. Rises(c)
  BY <1>1, <1>3, PlansRise
<1>5. /\ k <= Len(Levels(c)) /\ k > 0 /\ Rank(h.table) <= Levels(c)[k]
      /\ c.op \in TransferOps /\ k = 1 => h = TransferPlan(c)[1]
  BY <1>1, <1>2 DEF HeldInOrder
<1>6. CASE c.op \notin TransferOps
  <2>1. Levels(c)[k] < Rank(w.table)
    <3>1. k + 1 \in 1..Len(Plan(c)) /\ k + 1 > 1
      BY <1>2, <1>3, <1>5
    <3>2. k + 1 > 1 /\ c.op \notin TransferOps => Levels(c)[(k + 1) - 1] < Rank(Plan(c)[k + 1].table)
      BY <1>2, <1>4, <3>1 DEF Rises
    <3>3. (k + 1) - 1 = k
      BY <1>3
    <3> QED
      BY <1>2, <1>6, <3>1, <3>2, <3>3
  <2>2. Levels(c)[k] \in Nat /\ Rank(h.table) \in Nat /\ Rank(w.table) \in Nat
    BY <1>3, <1>5, LevelsRise DEF Rank
  <2> QED
    BY <1>5, <2>1, <2>2
<1>7. CASE c.op \in TransferOps
  <2>1. Plan(c) = TransferPlan(c) /\ Len(Plan(c)) = 2
    BY <1>7, PairIsLocked
  <2>2. k = 1
    BY <1>2, <1>3, <1>5, <2>1
  <2>3. h = TransferPlan(c)[1] /\ w = TransferPlan(c)[2]
    BY <1>2, <1>5, <1>7, <2>1, <2>2
  <2>4. c.op \notin OrderOps \cup StockOps
    BY <1>7 DEF TransferOps, OrderOps, HeaderOps, StockOps
  <2>5. c.group \in Groups
    BY <1>3, <1>7, <2>4, CallsAreOfAKind DEF LedgerCalls, TransferOps
  <2>6. PICK p : p = Pair[c.group]
    OBVIOUS
  <2>7. p[1] \in Nat /\ p[2] \in Nat /\ p[1] # p[2]
    BY <2>5, <2>6, LedgerAssumption
  <2>8. h.key < w.key /\ h.key \in Nat /\ w.key \in Nat /\ h.table = w.table
    BY <2>3, <2>6, <2>7 DEF TransferPlan, ForUpdate
  <2> QED
    BY <2>8
<1> QED
  BY <1>6, <1>7

LEMMA OnlyMovesWantMovements ==
    ASSUME TypeOK, NEW s \in Sessions, call[s].op # "Move", NEW w \in Wants[s]
    PROVE  w.table # "movements"
<1>1. PICK c, k : c = call[s] /\ k = at[s] + 1
  OBVIOUS
<1>2. c # None /\ k \in Nat /\ k > 0 /\ k - 1 < Len(Plan(c)) /\ w = Plan(c)[k] /\ w # Nothing
  BY <1>1, WhatIsWanted DEF TypeOK
<1>3. c \in Calls
  BY <1>1, <1>2 DEF TypeOK
<1>4. CASE c.op = "Verify"
  <2>1. Plan(c) = VerifyPlan(c)
    BY <1>4, FixedRows
  <2>2. \E e : Plan(c) \in {<<ForUpdate("invoices", c.invoice)>>,
                            <<ForUpdate("invoices", c.invoice), ForUpdate("expenses", e)>>}
    BY <2>1 DEF VerifyPlan, InvoicePlan
  <2> QED
    BY <1>2, <2>2 DEF ForUpdate
<1>5. CASE c.op # "Verify"
  <2>1. Rises(c)
    BY <1>1, <1>3, <1>5, PlansRise
  <2>2. k \in 1..Len(Levels(c)) /\ Rank(w.table) <= Levels(c)[k]
    <3>1. Len(Plan(c)) <= Len(Levels(c)) /\ Len(Plan(c)) \in Nat /\ Len(Levels(c)) \in Nat
      BY <2>1, LevelsRise DEF Rises
    <3>2. k \in 1..Len(Plan(c))
      BY <1>2, <3>1
    <3> QED
      BY <1>2, <2>1, <3>1, <3>2 DEF Rises
  <2>3. Rank(w.table) <= 8
    <3>1. Levels(c)[k] \in Nat /\ Levels(c)[k] <= 8 /\ Rank(w.table) \in Nat
      BY <2>2, LevelsRise DEF Rank
    <3> QED
      BY <2>2, <3>1
  <2> QED
    BY <2>3 DEF Rank
<1> QED
  BY <1>4, <1>5

(* A movement that is waited for holds the one it takes back, which no     *)
(* movement waits for in the place of one recorded before.                 *)
LEMMA MovesDoNotCircle ==
    ASSUME TypeOK, MovementsRefer, OrderKept, NEW D \in SUBSET Sessions, Circle(held, Wants, D),
           \A s \in D : ~(call[s].op = "Move" /\ at[s] \in {1, 4}),
           NEW s \in D
    PROVE  call[s].op # "Move"
<1>1. ASSUME NEW t \in D, call[t].op = "Move"
      PROVE  LET c == call[t]
             IN  /\ c \in StockCalls /\ TakesBack(c) /\ at[t] \in {2, 3}
                 /\ held[t] \subseteq {ForUpdate("movements", c.terms.reverses)}
                 /\ movement[c.terms.reverses].kind # "REVERSAL"
                 /\ \A w \in Wants[t] : w.table = "movements" => Undoes(w.key)
                 /\ \E v \in D : v # t /\ \E w \in Wants[v] : \E h \in held[t] : Conflict(w, h)
  <2>1. PICK v \in D : v # t /\ \E w \in Wants[v] : \E h \in held[t] : Conflict(w, h)
    BY DEF Circle, WaitsFor
  <2>2. PICK lock \in Wants[t] : TRUE
    BY DEF Circle, WaitsFor
  <2>3. PICK c, k : c = call[t] /\ k = at[t]
    OBVIOUS
  <2>4. c # None /\ passed[t] /\ k < 5 /\ k \in Nat /\ c \in Calls
    <3>1. c # None /\ passed[t] /\ k < Len(Plan(c))
      BY <2>2, <2>3, WhatIsWanted
    <3>2. Len(Plan(c)) = 5
      BY <1>1, <2>3, MovePlanIs
    <3> QED
      BY <2>3, <3>1, <3>2 DEF TypeOK
  <2>5. c \in StockCalls
    BY <1>1, <2>3, <2>4, CallsAreOfAKind DEF StockOps
  <2>6. MoveHolds(t) /\ held[t] # {}
    BY <2>1 DEF OrderKept
  <2>7. k \notin {0, 1, 4}
    BY <1>1, <2>3, <2>4, <2>6 DEF MoveHolds
  <2>8. k \in {2, 3}
    BY <2>4, <2>7
  <2>9. held[t] \subseteq OwnRows(c)
    BY <1>1, <2>3, <2>4, <2>6, <2>8 DEF MoveHolds
  <2>10. TakesBack(c) /\ held[t] \subseteq {ForUpdate("movements", c.terms.reverses)}
    BY <2>6, <2>9 DEF OwnRows
  <2>11. k > 1
    BY <2>8
  <2>12. movement[c.terms.reverses].kind # "REVERSAL"
    BY <1>1, <2>3, <2>4, <2>6, <2>10, <2>11 DEF MoveHolds, Seen
  <2>13. ASSUME NEW w \in Wants[t], w.table = "movements" PROVE Undoes(w.key)
    <3>1. w = Plan(c)[k + 1] /\ w # Nothing
      BY <2>3, <2>13, WhatIsWanted
    <3>2. Plan(c) = MovePlan(c)
      BY <1>1, <2>3, MovePlanIs
    <3>3. CASE k = 3
      <4>1. w = ForUpdate("items", FullTerms(c).item)
        BY <1>1, <2>3, <3>1, <3>2, <3>3, MovePlanIs
      <4> QED
        BY <2>13, <4>1 DEF ForUpdate
    <3>4. CASE k = 2
      <4>1. PICK d : d = (CHOOSE n \in Duplicates(c.terms) : TRUE)
        OBVIOUS
      <4>2. w = IfFound(Duplicates(c.terms) # {}, ForUpdate("movements", d))
        BY <1>1, <2>3, <3>1, <3>2, <3>4, <4>1, MovePlanIs
      <4>3. Duplicates(c.terms) # {} /\ w.key = d
        BY <3>1, <4>2 DEF IfFound, ForUpdate
      <4>4. d \in Duplicates(c.terms)
        BY <4>1, <4>3
      <4>5. c.terms.receipt = None
        <5>1. c.op = "Move"
          BY <1>1, <2>3
        <5>2. c.terms \in {m \in Movements(Kinds) : WellFormed(m)}
          BY <2>5, <5>1 DEF StockCalls
        <5>3. c.terms.receipt # None => c.terms.kind = "RECEIPT"
          BY <5>2 DEF WellFormed
        <5> QED
          BY <2>10, <5>3 DEF TakesBack
      <4>6. d \in Keys /\ c.terms.reverses # None /\ movement[d].reverses = c.terms.reverses
        BY <4>4, <4>5 DEF Duplicates
      <4> QED
        BY <4>3, <4>6 DEF MovementsRefer
    <3> QED
      BY <2>8, <3>3, <3>4
  <2> QED
    BY <2>1, <2>3, <2>5, <2>8, <2>10, <2>12, <2>13
<1>2. ASSUME call[s].op = "Move" PROVE FALSE
  <2>1. PICK r : r = call[s].terms.reverses
    OBVIOUS
  <2>2. held[s] \subseteq {ForUpdate("movements", r)} /\ movement[r].kind # "REVERSAL"
    BY <1>1, <1>2, <2>1
  <2>3. PICK v \in D : \E w \in Wants[v] : \E h \in held[s] : Conflict(w, h)
    BY <1>1, <1>2
  <2>4. PICK w \in Wants[v] : \E h \in held[s] : Conflict(w, h)
    BY <2>3
  <2>5. w.table = "movements" /\ w.key = r
    BY <2>2, <2>4 DEF Conflict, ForUpdate
  <2>6. call[v].op = "Move"
    BY <2>5, OnlyMovesWantMovements
  <2>7. Undoes(r)
    BY <1>1, <2>5, <2>6
  <2> QED
    BY <2>2, <2>7 DEF Undoes
<1> QED
  BY <1>2

(* Where nobody verifies and no movement asks for one under its key, each  *)
(* call is waited for by one that waits for a lower row: there is no end   *)
(* to the descent, so there is no circle.                                  *)
LEMMA KnownDeadlocks ==
    ASSUME TypeOK, StockKept, OrderKept
    PROVE  DeadlocksAreKnown
<1>1. SUFFICES ASSUME NEW D \in SUBSET Sessions, Circle(held, Wants, D),
                      \A s \in D : call[s].op # "Verify" /\ ~(call[s].op = "Move" /\ at[s] \in {1, 4})
               PROVE  FALSE
  BY DEF DeadlocksAreKnown
<1>2. \A s \in D : call[s].op \notin {"Verify", "Move"}
  BY <1>1, MovesDoNotCircle DEF StockKept
<1>3. ASSUME NEW s \in D, NEW w \in Wants[s]
      PROVE  \E t \in D : \E v \in Wants[t] : \/ Rank(v.table) < Rank(w.table)
                                              \/ /\ Rank(v.table) = Rank(w.table)
                                                 /\ w.key \in Nat /\ v.key \in Nat /\ v.key < w.key
  <2>1. PICK t \in D : \E v \in Wants[t] : \E h \in held[s] : Conflict(v, h)
    BY <1>1 DEF Circle, WaitsFor
  <2>2. PICK v \in Wants[t] : \E h \in held[s] : Conflict(v, h)
    BY <2>1
  <2>3. PICK h \in held[s] : v.table = h.table /\ v.key = h.key
    BY <2>2 DEF Conflict
  <2>4. HeldInOrder(s)
    BY DEF OrderKept
  <2>5. \/ Rank(h.table) < Rank(w.table)
        \/ Rank(h.table) = Rank(w.table) /\ w.key \in Nat /\ h.key \in Nat /\ h.key < w.key
    BY <1>2, <2>4, WantsAreHigher
  <2> QED
    BY <2>3, <2>5
<1>4. PICK s0 \in D : \E w \in Wants[s0] : TRUE
  BY <1>1 DEF Circle, WaitsFor
<1> DEFINE Ranks == {n \in Nat : \E s \in D : \E w \in Wants[s] : n = Rank(w.table)}
<1>5. PICK n \in Ranks : \A m \in Ranks : n <= m
  <2>1. \A table : Rank(table) \in Nat
    BY DEF Rank
  <2>2. Ranks # {} /\ Ranks \in SUBSET Nat
    BY <1>4, <2>1
  <2> HIDE DEF Ranks
  <2> QED
    BY <2>2, LeastNumber
<1> DEFINE Numbers == {k \in Nat : \E s \in D : \E w \in Wants[s] : Rank(w.table) = n /\ w.key = k}
<1>6. ASSUME NEW s \in D, NEW w \in Wants[s], Rank(w.table) = n
      PROVE  w.key \in Nat /\ \E k \in Numbers : k < w.key
  <2>1. PICK t \in D : \E v \in Wants[t] : \/ Rank(v.table) < Rank(w.table)
                                         \/ /\ Rank(v.table) = Rank(w.table)
                                            /\ w.key \in Nat /\ v.key \in Nat /\ v.key < w.key
    BY <1>3
  <2>2. PICK v \in Wants[t] : \/ Rank(v.table) < Rank(w.table)
                             \/ /\ Rank(v.table) = Rank(w.table)
                                /\ w.key \in Nat /\ v.key \in Nat /\ v.key < w.key
    BY <2>1
  <2>3. Rank(v.table) \in Nat
    BY DEF Rank
  <2>4. n <= Rank(v.table)
    BY <1>5, <2>3
  <2>5. Rank(v.table) = n /\ w.key \in Nat /\ v.key \in Nat /\ v.key < w.key
    BY <1>5, <1>6, <2>2, <2>3, <2>4
  <2> QED
    BY <2>5
<1>7. Numbers # {} /\ Numbers \in SUBSET Nat
  BY <1>5, <1>6
<1>8. PICK k \in Numbers : \A m \in Numbers : k <= m
  <2> HIDE DEF Numbers
  <2> QED
    BY <1>7, LeastNumber
<1>9. PICK m \in Numbers : m < k
  BY <1>6, <1>8
<1> QED
  BY <1>8, <1>9

(* Whatever runs together, transactions wait for each other for good only  *)
(* where the lock order of the functions is known to be opposite: in every *)
(* circle of waiting calls is a verification, or a movement that asks for  *)
(* the one recorded under its key.                                         *)
THEOREM OnlyKnownDeadlocks == Spec => []DeadlocksAreKnown
<1>1. Init => TypeOK /\ Locked /\ StockKept /\ OrderKept
  BY TypeInit, LockedInit, StockStarts, OrderStarts
<1>2. TypeOK /\ Locked /\ StockKept /\ OrderKept /\ [Next]_vars
         => TypeOK' /\ Locked' /\ StockKept' /\ OrderKept'
  BY TypeStep, LockedStep, StockStep, OrderStep
<1>3. TypeOK /\ StockKept /\ OrderKept => DeadlocksAreKnown
  BY KnownDeadlocks
<1> QED
  BY <1>1, <1>2, <1>3, PTL DEF Spec
=============================================================================
