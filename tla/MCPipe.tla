------------------------------- MODULE MCPipe -------------------------------
(* A buffer of two bytes, requests of up to three: a write can overfill the *)
(* buffer, a read can leave bytes, and positions wrap around.               *)
EXTENDS Pipe, TLC
CONSTANTS idle, a, b, c
MCProcs == {idle, a, b, c}
Symmetry == Permutations({a, b, c})
=============================================================================
