------------------------------- MODULE MCSync -------------------------------
(* Three user processes: an owner and two waiters; ids for two objects. *)
EXTENDS Sync, TLC
CONSTANTS idle, a, b, c
MCProcs == {idle, a, b, c}
TwoUsers == {idle, a, b}
Symmetry == Permutations({a, b, c})
=============================================================================
