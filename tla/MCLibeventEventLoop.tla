------------------------ MODULE MCLibeventEventLoop ------------------------
(* TLC instances of LibeventEventLoop. *)
EXTENDS LibeventEventLoop, TLC

Symmetry == Permutations(Callables)
=============================================================================
