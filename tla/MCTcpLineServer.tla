-------------------------- MODULE MCTcpLineServer --------------------------
(* TLC instances of TcpLineServer. *)
EXTENDS TcpLineServer, TLC

Symmetry == Permutations(Clients) \cup Permutations(Addrs)

(* The server's limit is reached, or the handler runs out of slots first;   *)
(* connections are closed for backpressure or only reported.                *)
Closing == {[max_connections |-> 2, close_on_limit |-> TRUE],
            [max_connections |-> 3, close_on_limit |-> FALSE]}

One == {[max_connections |-> 1, close_on_limit |-> TRUE]}
=============================================================================
