------------------------------ MODULE RowLocks ------------------------------
(* The row locks of PostgreSQL under READ COMMITTED, as the database       *)
(* functions of src/supabase/migrations use them: SELECT ... FOR UPDATE    *)
(* (and the row lock of an UPDATE or DELETE) excludes every other lock on  *)
(* the row, FOR SHARE excludes the exclusive one. A lock is kept until the *)
(* transaction ends, and the deadlock detector ends one transaction of a   *)
(* circle of waiting ones. The database itself is external.                *)
EXTENDS Naturals

CONSTANT Sessions

ForUpdate(table, key) == [table |-> table, key |-> key, mode |-> "UPDATE"]
ForShare(table, key) == [table |-> table, key |-> key, mode |-> "SHARE"]

(* What a query asks for that finds no row to lock.                        *)
Nothing == [table |-> "none", key |-> 0, mode |-> "SHARE"]
IfFound(found, row) == IF found THEN row ELSE Nothing

(* Two locks that two transactions cannot hold at the same time.           *)
Conflict(a, b) ==
    /\ a.table = b.table /\ a.key = b.key
    /\ "UPDATE" \in {a.mode, b.mode}

(* Session s can be given the lock: nobody else holds one against it.      *)
Free(held, s, lock) ==
    \A t \in Sessions \ {s} : \A h \in held[t] : ~Conflict(h, lock)

(* Session s waits for session t; wants[s] is the set with the lock that s *)
(* asks for, or empty.                                                     *)
WaitsFor(held, wants, s, t) ==
    /\ s # t
    /\ \E w \in wants[s], h \in held[t] : Conflict(w, h)

(* A set of sessions in which each waits for a member and is waited for.   *)
Circle(held, wants, D) ==
    /\ D # {}
    /\ \A s \in D : /\ \E t \in D : WaitsFor(held, wants, s, t)
                    /\ \E t \in D : WaitsFor(held, wants, t, s)
=============================================================================
