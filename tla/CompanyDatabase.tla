-------------------------- MODULE CompanyDatabase --------------------------
(***************************************************************************)
(* The sessions that call the database functions of SupplierLedger,        *)
(* PurchaseOrders and Warehouse at the same time, each call a transaction  *)
(* of its own under READ COMMITTED.                                        *)
(*                                                                         *)
(* A session locks the rows of its plan one after the other, checking what *)
(* it has read before it waits for each, and writes.  What it checked was  *)
(* read before it writes, so only its locks keep that true.  A call that   *)
(* finds its work already done answers without writing, a refused one      *)
(* raises and leaves no trace.                                             *)
(***************************************************************************)
EXTENDS Warehouse

CONSTANTS
    MaxCalls,       \* bound on the number of calls
    Workloads       \* sets of calls, the users issue those of one of them

Calls == LedgerCalls \cup OrderCalls \cup StockCalls

ASSUME DatabaseAssumption ==
    /\ MaxCalls \in Nat /\ None \notin Calls
    /\ \A w \in Workloads : w \subseteq Calls

VARIABLES
    call,       \* the call each session runs, or None
    at,         \* how many rows of its plan it has locked or not found
    passed,     \* it passed the checks that follow the last of them
    held,       \* the row locks of each session
    workload, calls

tables == <<ledger, orders, stock>>
sessions == <<call, at, passed, held, workload, calls>>
vars == <<tables, sessions>>

Plan(c) ==
    CASE c.op \in OrderOps -> OrderPlan(c)
      [] c.op \in StockOps -> StockPlan(c)
      [] OTHER -> LedgerPlan(c)

Exists(row) == LedgerExists(row) /\ OrderExists(row) /\ StockExists(row)

(* An invoice that was ever matched with an order is not deleted.          *)
Refused(c, k) ==
    \/ LedgerRefused(c, k) \/ OrderRefused(c, k) \/ StockRefused(c, k)
    \/ c.op = "DeleteInvoice" /\ k = 1 /\ Billed(c.invoice) # {}

Answered(c, k) == LedgerAnswered(c, k) \/ OrderAnswered(c, k) \/ StockAnswered(c, k)
KeyTaken(c) == LedgerKeyTaken(c) \/ OrderKeyTaken(c) \/ StockKeyTaken(c)

Write(c) ==
    \/ LedgerWrite(c) /\ UNCHANGED <<orders, stock>>
    \/ OrderWrite(c) /\ UNCHANGED <<ledger, stock>>
    \/ StockWrite(c) /\ UNCHANGED <<ledger, orders>>

(***************************************************************************)
(* A session.                                                              *)
(***************************************************************************)
Init ==
    /\ LedgerInit /\ OrderInit /\ StockInit
    /\ call = [s \in Sessions |-> None]
    /\ at = [s \in Sessions |-> 0]
    /\ passed = [s \in Sessions |-> FALSE]
    /\ held = [s \in Sessions |-> {}]
    /\ workload \in Workloads
    /\ calls = 0

Checking(s) == call[s] # None /\ ~passed[s]
Locking(s) == call[s] # None /\ passed[s] /\ at[s] < Len(Plan(call[s]))
Writing(s) == call[s] # None /\ passed[s] /\ at[s] = Len(Plan(call[s]))
NextRow(s) == Plan(call[s])[at[s] + 1]
Asks(s) == Locking(s) /\ NextRow(s) # Nothing
Wants == [s \in Sessions |-> IF Asks(s) /\ Exists(NextRow(s)) THEN {NextRow(s)} ELSE {}]

Begin(s) ==
    /\ call[s] = None /\ calls < MaxCalls
    /\ \E c \in workload : call' = [call EXCEPT ![s] = c]
    /\ calls' = calls + 1
    /\ UNCHANGED <<tables, at, passed, held, workload>>

(* The end of the transaction, with or without an effect.                  *)
Finish(s) ==
    /\ call' = [call EXCEPT ![s] = None]
    /\ at' = [at EXCEPT ![s] = 0]
    /\ passed' = [passed EXCEPT ![s] = FALSE]
    /\ held' = [held EXCEPT ![s] = {}]
    /\ UNCHANGED <<workload, calls>>

(* What was read passes: the next row is asked for, or the call may write. *)
Pass(s) ==
    /\ Checking(s) /\ ~Refused(call[s], at[s]) /\ ~Answered(call[s], at[s])
    /\ passed' = [passed EXCEPT ![s] = TRUE]
    /\ UNCHANGED <<tables, call, at, held, workload, calls>>

Lock(s) ==
    /\ Wants[s] # {} /\ Free(held, s, NextRow(s))
    /\ held' = [held EXCEPT ![s] = @ \cup {NextRow(s)}]
    /\ at' = [at EXCEPT ![s] = @ + 1]
    /\ passed' = [passed EXCEPT ![s] = FALSE]
    /\ UNCHANGED <<tables, call, workload, calls>>

(* The query finds no row, and the call goes on without one.               *)
Skip(s) ==
    /\ Locking(s) /\ NextRow(s) = Nothing
    /\ at' = [at EXCEPT ![s] = @ + 1]
    /\ UNCHANGED <<tables, call, passed, held, workload, calls>>

Raise(s) ==
    /\ \/ Checking(s) /\ Refused(call[s], at[s])
       \/ Asks(s) /\ ~Exists(NextRow(s))
    /\ Finish(s)
    /\ UNCHANGED tables

Answer(s) ==
    /\ Checking(s) /\ Answered(call[s], at[s]) /\ ~Refused(call[s], at[s])
    /\ Finish(s)
    /\ UNCHANGED tables

Collide(s) ==
    /\ Writing(s) /\ KeyTaken(call[s])
    /\ Finish(s)
    /\ UNCHANGED tables

Commit(s) ==
    /\ Writing(s) /\ ~KeyTaken(call[s])
    /\ Write(call[s])
    /\ Finish(s)

(* The deadlock detector ends a transaction of a circle.                   *)
EndDeadlock(s) ==
    /\ \E D \in SUBSET Sessions : s \in D /\ Circle(held, Wants, D)
    /\ Finish(s)
    /\ UNCHANGED tables

Done == calls = MaxCalls /\ (\A s \in Sessions : call[s] = None) /\ UNCHANGED vars

Next ==
    \/ \E s \in Sessions :
          Begin(s) \/ Pass(s) \/ Lock(s) \/ Skip(s) \/ Raise(s) \/ Answer(s)
          \/ Collide(s) \/ Commit(s) \/ EndDeadlock(s)
    \/ Done

Spec == Init /\ [][Next]_vars

(***************************************************************************)
(* Properties of the whole.                                                *)
(***************************************************************************)
TypeOK ==
    /\ LedgerTypeOK /\ OrderTypeOK /\ StockTypeOK
    /\ call \in [Sessions -> Calls \cup {None}]
    /\ at \in [Sessions -> Nat]
    /\ passed \in [Sessions -> BOOLEAN]
    /\ workload \in Workloads
    /\ calls \in 0..MaxCalls

(* Calls block each other for good only where the lock order of two of     *)
(* them is opposite: every circle of waiting transactions has a            *)
(* verification in it, which locks an invoice before its expense, or a     *)
(* movement that asks for the one recorded under its key, either holding   *)
(* the movement it takes back or, repeated, the item.                      *)
DeadlocksAreKnown ==
    \A D \in SUBSET Sessions :
        Circle(held, Wants, D) =>
            \E s \in D : \/ call[s].op = "Verify"
                         \/ call[s].op = "Move" /\ at[s] \in {1, 4}
=============================================================================
