-------------------------- MODULE MCWarehouseTasks --------------------------
(***************************************************************************)
(* Instances of WarehouseTasks for TLC: one stock, two orders of one line. *)
(***************************************************************************)
EXTENDS WarehouseTasks

OneVariant == {1}
OneStock == {1}
ofStock == [s \in OneStock |-> 1]
TwoLines == {1, 2}
ofLine == [l \in TwoLines |-> 1]
OwnOrder == [l \in TwoLines |-> l]
TwoUnits == [s \in OneStock |-> 2]
=============================================================================
