-------------------------------- MODULE Sums --------------------------------
(***************************************************************************)
(* Sums over a finite set of rows: what the code writes as                 *)
(* Sum("quantity_allocated") in a query or as sum([...]) in Python.        *)
(* A sum of naturals is the number of units in the rows, one pair          *)
(* <<row, k>> per unit, so that facts about it follow from facts about     *)
(* the cardinality of finite sets and need no induction.                   *)
(***************************************************************************)
EXTENDS Integers, FiniteSets

Units(f, S) == UNION {{x} \X (1..f[x]) : x \in S}

SumOver(f, S) == Cardinality(Units(f, S))

(* max(n, 0) and min(a, b). *)
AtLeastZero(n) == IF n > 0 THEN n ELSE 0
Least(a, b) == IF a < b THEN a ELSE b

(* The sum of a function whose values may be negative. *)
NetSum(f, S) == SumOver([x \in S |-> AtLeastZero(f[x])], S)
                - SumOver([x \in S |-> AtLeastZero(-f[x])], S)
=============================================================================
