----------------------------- MODULE RingBuffer -----------------------------
(* A byte ring: MemoryByteStream (memory_stream.hpp), and the transmit ring *)
(* of ArduinoWiFiTcpConnection (arduino_wifi_tcp.hpp), which also starts    *)
(* over whenever it has run empty.                                          *)
EXTENDS Integers, Sequences

CONSTANTS
    Capacity,   \* size of the array
    Blank       \* what the array is initialised with

ASSUME RingAssumption == Capacity \in Nat \ {0}

Cells == 0 .. Capacity - 1

EmptyRing == [cells |-> [i \in Cells |-> Blank], head |-> 0, count |-> 0, tail |-> 0]

free(r) == Capacity - r.count

(* The part of src that fits ... *)
Fitting(r, src) == SubSeq(src, 1, IF Len(src) < free(r) THEN Len(src) ELSE free(r))

(* ... is stored from the tail on, around the end of the array. *)
put(r, src) ==
    [cells |-> [i \in Cells |-> LET k == (i - r.tail) % Capacity
                                IN  IF k < Len(src) THEN src[k + 1] ELSE r.cells[i]],
     head |-> r.head, count |-> r.count + Len(src), tail |-> (r.tail + Len(src)) % Capacity]

(* n bytes are taken out. *)
get(r, n) == [r EXCEPT !.head = (@ + n) % Capacity, !.count = @ - n]

(* Seeded fault: the next byte is still read from where it was. *)
cleared_KeepsHead(r) == [r EXCEPT !.tail = 0, !.count = 0]

(* clear() leaves the bytes in the array. *)
cleared(r) == [r EXCEPT !.head = 0, !.tail = 0, !.count = 0]

(* pop_output(): an empty ring starts over. *)
popped(r, n) == IF n = r.count THEN cleared(r) ELSE get(r, n)

(* The bytes that are held, the oldest first. *)
Content(r) == [i \in 1 .. r.count |-> r.cells[(r.head + i - 1) % Capacity]]

(* The indices stay in the array and agree with the number of bytes held. *)
RingOK(r) ==
    /\ r = [cells |-> r.cells, head |-> r.head, count |-> r.count, tail |-> r.tail]
    /\ r.cells = [i \in Cells |-> r.cells[i]]
    /\ r.head \in Cells /\ r.count \in 0 .. Capacity
    /\ r.tail = (r.head + r.count) % Capacity
=============================================================================
