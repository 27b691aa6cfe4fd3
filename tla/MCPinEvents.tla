---------------------------- MODULE MCPinEvents ----------------------------
(* TLC instance of PinEvents. *)
EXTENDS PinEvents

MCLines == [api : {1, 2}, role : Roles]
=============================================================================
