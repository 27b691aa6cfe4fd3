------------------------- MODULE MCProtocolReaders -------------------------
(* TLC instances of ProtocolReaders. *)
EXTENDS Framing

(* A structured and a scalar alphabet for JSON; "te" stands for a literal. *)
MCSetups ==
    [line |-> [reader |-> "line", bytes |-> {"a", "b", "cr", "lf"}, buffer |-> 2, length |-> 5],
     line_keep |-> [reader |-> "line_keep", bytes |-> {"a", "b", "cr", "lf"}, buffer |-> 2,
                    length |-> 5],
     fixed |-> [reader |-> "fixed", bytes |-> {"a", "b"}, buffer |-> 3, length |-> 7],
     header |-> [reader |-> "header", bytes |-> {"0", "1", "2", "9"}, buffer |-> 4, length |-> 5],
     json |-> [reader |-> "json", bytes |-> {"{", "}", "[", "]", "quote", "escape"},
               buffer |-> 4, length |-> 5],
     scalars |-> [reader |-> "json", bytes |-> {"-", "0", "1", ".", "e", "t", "ws"},
                  buffer |-> 5, length |-> 5]]

MCPayloadSize ==
    [h \in [1 .. 2 -> MCSetups.header.bytes] |->
        CASE h[2] = "0" -> 0 [] h[2] = "1" -> 1 [] h[2] = "2" -> 2 [] h[2] = "9" -> 9]

MCLiterals == {<<"t", "e">>}
=============================================================================
