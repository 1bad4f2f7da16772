----------------------------- MODULE Warehouse -----------------------------
(***************************************************************************)
(* The warehouse: stock items and the append-only ledger of movements that *)
(* their stock is summed from, as record_inventory_movement and its        *)
(* triggers do it.  A movement is named by the idempotency key that the    *)
(* client gives it; the purchase receipts are those of PurchaseOrders.     *)
(***************************************************************************)
EXTENDS PurchaseOrders

CONSTANTS
    Items,      \* inventory items
    Projects,
    Keys        \* idempotency keys

Kinds == {"OPENING", "RECEIPT", "PROJECT_ISSUE", "PROJECT_RETURN", "REVERSAL"}
Movements(kinds) ==
    [kind : kinds, item : Items \cup {None}, quantity : 0..MaxAmount,
     project : Projects \cup {None}, receipt : Receipts \cup {None}, reverses : Keys \cup {None}]
NoMovement == [kind |-> "NONE", item |-> None, quantity |-> 0,
               project |-> None, receipt |-> None, reverses |-> None]

(* What the checks of a request, and of the table, leave.                  *)
WellFormed(m) ==
    /\ (m.kind = "REVERSAL") = (m.reverses # None)
    /\ m.kind = "REVERSAL" => m.item = None /\ m.project = None
    /\ m.kind # "REVERSAL" => m.item # None /\ m.quantity > 0
    /\ (m.kind \in {"PROJECT_ISSUE", "PROJECT_RETURN"}) = (m.project # None)
    /\ m.receipt # None => m.kind = "RECEIPT"

StockCalls ==
    [op : {"Move"}, key : Keys, terms : {m \in Movements(Kinds) : WellFormed(m)}]
    \cup [op : {"SaveItem"}, item : Items, status : {"ACTIVE", "INACTIVE"}]
StockOps == {"Move", "SaveItem"}

ASSUME StockAssumption ==
    /\ IsFiniteSet(Keys)
    /\ None \notin Items \cup Projects \cup Receipts \cup Keys

VARIABLES item, movement

stock == <<item, movement>>

StockInit ==
    /\ item = [i \in Items |-> "ACTIVE"]
    /\ movement = [k \in Keys |-> NoMovement]

(***************************************************************************)
(* What the functions read.                                                *)
(***************************************************************************)
Quantity(S) == SumOf(S, [k \in Keys |-> movement[k].quantity])
OfItem(i) == {k \in Keys : movement[k].item = i}

(* The kind of the movement, or of the one it takes back.                  *)
Undoes(k) == movement[k].kind = "REVERSAL"
BaseKind(k) == IF Undoes(k) THEN movement[movement[k].reverses].kind ELSE movement[k].kind
Incoming(k) == (BaseKind(k) = "PROJECT_ISSUE") = Undoes(k)

In(i) == Quantity({k \in OfItem(i) : Incoming(k)})
Out(i) == Quantity({k \in OfItem(i) : ~Incoming(k)})

(* What a project was issued of an item and what it gave back.             *)
AtProject(i, p, kind, undone) ==
    Quantity({k \in OfItem(i) : movement[k].project = p /\ BaseKind(k) = kind /\ Undoes(k) = undone})
Kept(i, p, q) ==
    AtProject(i, p, "PROJECT_ISSUE", FALSE) + AtProject(i, p, "PROJECT_RETURN", TRUE)
    >= AtProject(i, p, "PROJECT_ISSUE", TRUE) + AtProject(i, p, "PROJECT_RETURN", FALSE) + q

(* The terms of a reversal are those of the movement it takes back.        *)
FullTerms(c) ==
    LET m == movement[c.terms.reverses]
    IN  IF c.terms.kind = "REVERSAL"
        THEN [c.terms EXCEPT !.item = m.item, !.quantity = m.quantity, !.project = m.project]
        ELSE c.terms

(* Mutant of Duplicates: nothing keeps a receipt from being posted again.  *)
ReversalsOnly(m) == {k \in Keys : m.reverses # None /\ movement[k].reverses = m.reverses}

(* The movements that take back, or post, what m does.                     *)
Duplicates(m) ==
    {k \in Keys : \/ m.reverses # None /\ movement[k].reverses = m.reverses
                  \/ m.receipt # None /\ movement[k].receipt = m.receipt}

(***************************************************************************)
(* Plans, refusals and answers.                                            *)
(***************************************************************************)
KeyRow(c) == IfFound(movement[c.key] # NoMovement, ForUpdate("movements", c.key))
FirstRows(c) ==
    LET m == c.terms
        again == Duplicates(m)
    IN  <<IfFound(m.kind = "REVERSAL", ForUpdate("movements", m.reverses)),
          KeyRow(c),
          IfFound(again # {}, ForUpdate("movements", CHOOSE k \in again : TRUE))>>

(* Mutant of MovePlan: the item is only locked against changes.            *)
SharedMovePlan(c) == FirstRows(c) \o <<ForShare("items", FullTerms(c).item), KeyRow(c)>>

(* The movement to take back, the one recorded under the key, one that did *)
(* the same before, the item; and again the one under the key, if the      *)
(* insert finds that there is one by now.                                  *)
MovePlan(c) == FirstRows(c) \o <<ForUpdate("items", FullTerms(c).item), KeyRow(c)>>

StockPlan(c) == IF c.op = "Move" THEN MovePlan(c) ELSE <<ForUpdate("items", c.item)>>

StockExists(row) == row.table = "movements" => movement[row.key] # NoMovement

(* The triggers, under the lock of the item.                               *)
InsertRefused(c) ==
    LET m == FullTerms(c)
        incoming == (IF m.kind = "REVERSAL" THEN movement[m.reverses].kind = "PROJECT_ISSUE"
                     ELSE m.kind # "PROJECT_ISSUE")
    IN  \/ m.kind # "REVERSAL" /\ item[m.item] # "ACTIVE"
        \/ m.kind = "REVERSAL" /\ incoming /\ ~Kept(m.item, m.project, m.quantity)
        \/ m.kind = "PROJECT_RETURN" /\ ~Kept(m.item, m.project, m.quantity)
        \/ m.receipt # None /\ (receipt[m.receipt].status # "RECEIVED"
                                \/ receipt[m.receipt].quantity # m.quantity)
        \/ ~incoming /\ In(m.item) < Out(m.item) + m.quantity

StockRefused(c, k) ==
    /\ c.op = "Move"
    /\ \/ k = 1 /\ movement[c.terms.reverses].kind = "REVERSAL"
       \/ k \in {2, 5} /\ movement[c.key] # FullTerms(c)
       \/ k = 3
       \/ k = 4 /\ InsertRefused(c)

StockAnswered(c, k) == c.op = "Move" /\ k \in {2, 5}

StockKeyTaken(c) ==
    c.op = "Move" /\ (movement[c.key] # NoMovement \/ Duplicates(c.terms) # {})

StockWrite(c) ==
    \/ /\ c.op = "Move"
       /\ movement' = [movement EXCEPT ![c.key] = FullTerms(c)] /\ UNCHANGED item
    \/ /\ c.op = "SaveItem"
       /\ item' = [item EXCEPT ![c.item] = c.status] /\ UNCHANGED movement

(***************************************************************************)
(* Properties.                                                             *)
(***************************************************************************)
StockTypeOK ==
    /\ item \in [Items -> {"ACTIVE", "INACTIVE"}]
    /\ movement \in [Keys -> Movements(Kinds \cup {"NONE"})]

(* Stock on hand is never negative, and no project has given back more     *)
(* than it was issued, however issues, returns and reversals overlap.      *)
StockIsCovered ==
    \A i \in Items :
        /\ Out(i) <= In(i)
        /\ \A p \in Projects : Kept(i, p, 0)

(* A movement is taken back once and a receipt is posted once, under       *)
(* whatever keys the requests come.                                        *)
CountedOnce ==
    \A k, l \in Keys :
        /\ movement[k].reverses # None /\ movement[k].reverses = movement[l].reverses => k = l
        /\ movement[k].receipt # None /\ movement[k].receipt = movement[l].receipt => k = l
=============================================================================
