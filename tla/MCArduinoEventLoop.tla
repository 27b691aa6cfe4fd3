------------------------- MODULE MCArduinoEventLoop -------------------------
(* TLC instances of ArduinoEventLoop. *)
EXTENDS ArduinoEventLoop, TLC

Symmetry == Permutations(Callables)
=============================================================================
