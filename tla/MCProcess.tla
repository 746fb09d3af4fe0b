------------------------------ MODULE MCProcess ------------------------------
(* Idle, init and two more PCBs: siblings, a grandchild, an orphan. *)
EXTENDS Process, TLC
CONSTANTS idle, init, a, b
MCProcs == {idle, init, a, b}
MCStatuses == {0, ERROR}
OneStatus == {ERROR}
Symmetry == Permutations({a, b})
=============================================================================
