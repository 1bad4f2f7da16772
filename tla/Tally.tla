------------------------------- MODULE Tally -------------------------------
(* Sums of amounts over sets of rows: each amount is counted out in units. *)
(* The database adds numerics with two or four decimals; here a unit is    *)
(* the smallest amount that matters.                                       *)
EXTENDS Naturals, FiniteSets

CONSTANT MaxAmount      \* bound on every single amount

Amounts == 1..MaxAmount

Units(S, amount) == {u \in S \X Amounts : u[2] <= amount[u[1]]}
SumOf(S, amount) == Cardinality(Units(S, amount))
=============================================================================
