------------------------------- MODULE WifiTcp -------------------------------
(***************************************************************************)
(* The TCP server and client of Arduino (arduino_wifi_tcp.hpp) with a      *)
(* handler that keeps a TcpConnectionRegistry (tcp.hpp), as the examples   *)
(* TcpDisconnectServerExample and TcpFixedHeaderServerExample do.  Both    *)
(* are polled by the loop: poll() accepts one client and then looks at     *)
(* each slot for output to flush, input to read and an end to report, and  *)
(* each of them calls the application, which may do anything.              *)
(*                                                                         *)
(* The client has one slot.  Its connect() blocks, and calls on_connect()  *)
(* or on_error() before it returns, where the application can do what it   *)
(* can do after it as well.  WiFiClient is external; it converts to TRUE   *)
(* as long as it has a socket, also when the peer has gone.                *)
(***************************************************************************)
EXTENDS RingBuffer, FiniteSetsExt

CONSTANTS
    Roles,           \* subset of {"server", "client"}
    MaxConnections,  \* max_connections_
    RegistrySize,    \* MaxConnections of the registry
    MaxPeers,        \* bound: clients of the server, or calls of connect()
    MaxInput,        \* bound: bytes that wait to be read, of one peer at a time
    MaxBytes,        \* bound: bytes written, to one peer at a time
    AppUse           \* "careful": no connect() in the client's on_close; or "any"

ASSUME WifiAssumption ==
    /\ Roles \subseteq {"server", "client"} /\ AppUse \in {"careful", "any"}
    /\ MaxConnections \in Nat \ {0} /\ RegistrySize \in Nat \ {0}
    /\ MaxPeers \in Nat /\ MaxInput \in Nat /\ MaxBytes \in Nat

VARIABLES
    role,      \* which of the two
    active,    \* handler_ is set; of the server: it listens
    conns,     \* connections_, or the client's connection_
    registry,  \* the application's registry: its entries, and count_
    frame,     \* where poll() is, and at which slot
    peers      \* external: the other sides, with the ghosts ends and left

vars == <<role, active, conns, registry, frame, peers>>

Peers == 1 .. MaxPeers
NoPeer == 0
Slots == 0 .. (IF role = "server" THEN MaxConnections ELSE 1) - 1
Entries == 0 .. RegistrySize - 1
Null == -1

NoConnection == [active |-> FALSE, peer |-> NoPeer, line |-> {}, tx |-> EmptyRing]

Idle == [at |-> "idle", slot |-> 0]

Init ==
    /\ role \in Roles
    /\ active = FALSE
    /\ conns = [i \in Slots |-> NoConnection]
    /\ registry = [entries |-> [e \in Entries |-> Null], count |-> 0]
    /\ frame = Idle
    /\ peers = [p \in Peers |-> [phase |-> "new", ended |-> FALSE, input |-> 0, wire |-> <<>>,
                                 written |-> 0, ends |-> 0, left |-> FALSE]]

-----------------------------------------------------------------------------
(* ArduinoWiFiTcpConnection *)

valid(i) == i \in Slots /\ conns[i].active
input_size(i) == IF conns[i].active THEN peers[conns[i].peer].input ELSE 0
connected(p) == ~ peers[p].ended \/ peers[p].input > 0
closed_by_peer(i) == conns[i].active /\ ~ connected(conns[i].peer)

close(cs, i) == [cs EXCEPT ![i] = NoConnection]

attach(cs, i, p) == [close(cs, i) EXCEPT ![i].active = TRUE, ![i].peer = p]

(* Seeded fault: all of the output is taken for contiguous. *)
Chunks_Straight(r, n) == [j \in 1 .. n |-> IF r.head + j - 1 \in Cells THEN r.cells[r.head + j - 1]
                                           ELSE Blank]

(* Bytes up to the end of the array, and then from its beginning. *)
contiguous(r) == IF r.count < Capacity - r.head THEN r.count ELSE Capacity - r.head
Chunks(r, n) == [j \in 1 .. n |-> r.cells[IF j <= contiguous(r) THEN r.head + j - 1
                                          ELSE j - contiguous(r) - 1]]

(* flush_output(): the socket takes n of the bytes, or has gone. *)
CanFlush(i, n) ==
    n \in 0 .. conns[i].tx.count /\ (n > 0 => connected(conns[i].peer))
Sent(i, n) == [peers EXCEPT ![conns[i].peer].wire = @ \o Chunks(conns[i].tx, n)]

-----------------------------------------------------------------------------
(* TcpConnectionRegistry *)

Listed(r, i) == \E e \in Entries : r.entries[e] = i
full(r) == \A e \in Entries : r.entries[e] # Null

(* Seeded fault: the connection is not looked for. *)
add_Again(r, i) ==
    IF full(r) THEN r
    ELSE [entries |-> [r.entries EXCEPT ![Min({e \in Entries : r.entries[e] = Null})] = i],
          count |-> r.count + 1]

add(r, i) ==
    IF Listed(r, i) \/ full(r) THEN r
    ELSE [entries |-> [r.entries EXCEPT ![Min({e \in Entries : r.entries[e] = Null})] = i],
          count |-> r.count + 1]

Without(r, removed) ==
    [entries |-> [e \in Entries |-> IF e \in removed THEN Null ELSE r.entries[e]],
     count |-> r.count - Cardinality(removed)]

Remove(r, i) == Without(r, IF Listed(r, i) THEN {Min({e \in Entries : r.entries[e] = i})} ELSE {})

Pruned(r) == Without(r, {e \in Entries : r.entries[e] # Null /\ ~ valid(r.entries[e])})

-----------------------------------------------------------------------------
(* poll() *)

At(place) == frame.at = place

Goes(place) == frame' = [frame EXCEPT !.at = place]

NextSlot == frame' = IF frame.slot + 1 \in Slots THEN [at |-> "flush", slot |-> frame.slot + 1] ELSE Idle

Waiting == {p \in Peers : peers[p].phase = "waiting"}

(* The socket is closed, and nobody looks at what the peer sent or got.     *)
Stopped(peer) == [peer EXCEPT !.ended = TRUE, !.input = 0, !.wire = <<>>, !.written = 0]

Of(p, S) == \E i \in S : conns[i].active /\ conns[i].peer = p

(* Ghost: the application gives up the connections in S. *)
GivenUp(ps, S) ==
    [p \in Peers |-> IF Of(p, S) THEN [Stopped(ps[p]) EXCEPT !.left = TRUE] ELSE ps[p]]

(* A client is attached to the first free slot, and the handler's           *)
(* on_accept() enters it in its registry, or closes it if that is full.     *)
PollAccepts(p) ==
    LET i == Min({s \in Slots : ~ conns[s].active})
        attached == attach(conns, i, p)
        listed == add(registry, i)
        served == [peers EXCEPT ![p].phase = "served"]
    IN  /\ role = "server" /\ active /\ At("idle")
        /\ Waiting # {} /\ p = Min(Waiting)
        /\ \E s \in Slots : ~ conns[s].active
        /\ conns' = IF Listed(listed, i) THEN attached ELSE close(attached, i)
        /\ registry' = listed
        /\ peers' = IF Listed(listed, i) THEN served
                     ELSE [served EXCEPT ![p] = [Stopped(@) EXCEPT !.left = TRUE]]
        /\ frame' = [at |-> "on_accept", slot |-> 0]
        /\ UNCHANGED <<role, active>>

(* There is no free slot: the client is stopped. *)
PollRefuses(p) ==
    /\ role = "server" /\ active /\ At("idle")
    /\ Waiting # {} /\ p = Min(Waiting)
    /\ \A s \in Slots : conns[s].active
    /\ peers' = [peers EXCEPT ![p] = [Stopped(@) EXCEPT !.phase = "refused"]]
    /\ Goes("flush")
    /\ UNCHANGED <<role, active, conns, registry>>

PollConnections ==
    /\ active /\ At("idle")
    /\ IF role = "server" THEN Waiting = {} ELSE conns[0].active
    /\ Goes("flush")
    /\ UNCHANGED <<role, active, conns, registry, peers>>

Flush(n) ==
    /\ At("flush")
    /\ IF conns[frame.slot].active
       THEN /\ CanFlush(frame.slot, n)
            /\ conns' = [conns EXCEPT ![frame.slot].tx = popped(@, n)]
            /\ peers' = Sent(frame.slot, n)
            /\ Goes(IF n > 0 THEN "on_write_ready" ELSE "input")
       ELSE n = 0 /\ NextSlot /\ UNCHANGED <<conns, peers>>
    /\ UNCHANGED <<role, active, registry>>

PollInput ==
    /\ At("input")
    /\ Goes(IF input_size(frame.slot) > 0 THEN "on_data" ELSE "end")
    /\ UNCHANGED <<role, active, conns, registry, peers>>

(* Seeded fault: the connection is reported with input still to be read. *)
PollEnd_Early ==
    /\ At("end")
    /\ IF conns[frame.slot].active /\ peers[conns[frame.slot].peer].ended
       THEN /\ Goes("on_close")
            /\ peers' = [peers EXCEPT ![conns[frame.slot].peer].ends = @ + 1]
            /\ registry' = Remove(registry, frame.slot)
       ELSE NextSlot /\ UNCHANGED <<peers, registry>>
    /\ UNCHANGED <<role, active, conns>>

(* Seeded fault: the end is only looked for when nothing is to be sent. *)
PollEnd_Drained ==
    /\ At("end")
    /\ IF closed_by_peer(frame.slot) /\ conns[frame.slot].tx.count = 0
       THEN /\ Goes("on_close")
            /\ peers' = [peers EXCEPT ![conns[frame.slot].peer].ends = @ + 1]
            /\ registry' = Remove(registry, frame.slot)
       ELSE NextSlot /\ UNCHANGED <<peers, registry>>
    /\ UNCHANGED <<role, active, conns>>

(* closed_by_peer(); the handler's on_close() begins with the registry. *)
PollEnd ==
    /\ At("end")
    /\ IF closed_by_peer(frame.slot)
       THEN /\ Goes("on_close")
            /\ peers' = [peers EXCEPT ![conns[frame.slot].peer].ends = @ + 1]
            /\ registry' = Remove(registry, frame.slot)
       ELSE NextSlot /\ UNCHANGED <<peers, registry>>
    /\ UNCHANGED <<role, active, conns>>

(* A callback returns; on_close() is followed by close(). *)
CallbackReturns ==
    /\ \/ At("on_accept") /\ Goes("flush") /\ UNCHANGED <<active, conns, peers>>
       \/ At("on_write_ready") /\ Goes("input") /\ UNCHANGED <<active, conns, peers>>
       \/ At("on_data") /\ Goes("end") /\ UNCHANGED <<active, conns, peers>>
       \/ /\ At("on_close")
          /\ conns' = close(conns, frame.slot)
          /\ active' = (active /\ role = "server")
          /\ peers' = [p \in Peers |-> IF Of(p, {frame.slot}) THEN Stopped(peers[p]) ELSE peers[p]]
          /\ NextSlot
    /\ UNCHANGED <<role, registry>>

Poll ==
    \/ \E p \in Peers : PollAccepts(p) \/ PollRefuses(p)
    \/ PollConnections
    \/ \E n \in 0 .. Capacity : Flush(n)
    \/ PollInput \/ PollEnd \/ CallbackReturns

-----------------------------------------------------------------------------
(* Application code, in a callback or between calls of poll(). *)

AppRuns == frame.at \in {"idle", "on_accept", "on_write_ready", "on_data", "on_close"}

(* write() of n bytes flushes what it can, and takes what fits. *)
write(i, n) ==
    LET p == conns[i].peer
        src == [j \in 1 .. n |-> peers[p].written + j]
    IN  /\ AppRuns /\ valid(i)
        /\ peers[p].written + n <= MaxBytes
        /\ \A q \in Peers \ {p} : peers[q].written = 0
        /\ \E k \in 0 .. Capacity :
             /\ CanFlush(i, k)
             /\ LET tx == popped(conns[i].tx, k)
                    taken == Fitting(tx, src)
                IN  /\ conns' = [conns EXCEPT ![i].tx = put(tx, taken)]
                    /\ peers' = [Sent(i, k) EXCEPT ![p].written = @ + Len(taken)]
        /\ UNCHANGED <<role, active, registry, frame>>

Take(i, n) ==
    /\ AppRuns /\ valid(i) /\ n \in 1 .. input_size(i)
    /\ peers' = [peers EXCEPT ![conns[i].peer].input = @ - n]
    /\ UNCHANGED <<role, active, registry, frame>>

(* read() and read_exact() *)
read(i, n) == Take(i, n) /\ UNCHANGED conns

(* read_line(): up to a delimiter, or all there is; a line that is too long *)
(* drops what has been buffered of it.                                      *)
read_line(i, n) ==
    /\ Take(i, n)
    /\ \/ conns' = [conns EXCEPT ![i].line = {}]
       \/ n = input_size(i) /\ conns' = [conns EXCEPT ![i].line = @ \cup {conns[i].peer}]

(* A handler that closes a connection may take it from its registry, or     *)
(* leave it there for for_each() to skip and prune_invalid() to remove.     *)
CloseConnection(i, remove) ==
    /\ AppRuns /\ valid(i)
    /\ conns' = close(conns, i)
    /\ registry' = IF remove THEN Remove(registry, i) ELSE registry
    /\ peers' = GivenUp(peers, {i})
    /\ UNCHANGED <<role, active, frame>>

prune_invalid ==
    /\ AppRuns /\ registry # Pruned(registry)
    /\ registry' = Pruned(registry)
    /\ UNCHANGED <<role, active, conns, frame, peers>>

(* close() of the server or of the client, and the registry's clear(). *)
Close ==
    /\ AppRuns /\ active
    /\ active' = FALSE
    /\ conns' = [i \in Slots |-> NoConnection]
    /\ registry' = [entries |-> [e \in Entries |-> Null], count |-> 0]
    /\ peers' = [p \in Peers |-> IF p \in Waiting THEN [Stopped(peers[p]) EXCEPT !.phase = "refused"]
                                 ELSE GivenUp(peers, Slots)[p]]
    /\ UNCHANGED <<role, frame>>

listen ==
    /\ role = "server" /\ AppRuns /\ ~ active
    /\ active' = TRUE
    /\ UNCHANGED <<role, conns, registry, frame, peers>>

InOrder(p) == peers[p].phase = "new" /\ \A q \in 1 .. p - 1 : peers[q].phase # "new"

(* connect() closes first; it fails, or the connection is attached. *)
connect(p) ==
    /\ role = "client" /\ AppRuns /\ InOrder(p)
    /\ AppUse = "careful" => ~ At("on_close")
    /\ \/ /\ active' = FALSE
          /\ conns' = close(conns, 0)
          /\ peers' = [GivenUp(peers, {0}) EXCEPT ![p] = [Stopped(@) EXCEPT !.phase = "served",
                                                                           !.ends = 1]]
       \/ /\ active' = TRUE
          /\ conns' = attach(conns, 0, p)
          /\ peers' = [GivenUp(peers, {0}) EXCEPT ![p].phase = "served"]
    /\ UNCHANGED <<role, registry, frame>>

Application ==
    \/ \E i \in Slots :
         \/ \E n \in 1 .. Capacity : write(i, n)
         \/ \E n \in 1 .. MaxInput : read(i, n) \/ read_line(i, n)
         \/ \E remove \in BOOLEAN : CloseConnection(i, remove)
    \/ prune_invalid \/ Close \/ listen
    \/ \E p \in Peers : connect(p)

-----------------------------------------------------------------------------
(* The peers. *)

Arrive(p) ==
    /\ role = "server" /\ active /\ InOrder(p)
    /\ peers' = [peers EXCEPT ![p].phase = "waiting"]
    /\ UNCHANGED <<role, active, conns, registry, frame>>

PeerSends(p) ==
    /\ peers[p].phase \in {"waiting", "served"} /\ peers[p].ends = 0
    /\ ~ peers[p].ended /\ peers[p].input < MaxInput
    /\ \A q \in Peers \ {p} : peers[q].input = 0
    /\ peers' = [peers EXCEPT ![p].input = @ + 1]
    /\ UNCHANGED <<role, active, conns, registry, frame>>

PeerEnds(p) ==
    /\ peers[p].phase \in {"waiting", "served"} /\ peers[p].ends = 0 /\ ~ peers[p].ended
    /\ peers' = [peers EXCEPT ![p].ended = TRUE]
    /\ UNCHANGED <<role, active, conns, registry, frame>>

Next ==
    \/ Poll
    \/ Application
    \/ \E p \in Peers : Arrive(p) \/ PeerSends(p) \/ PeerEnds(p)

Spec == Init /\ [][Next]_vars

(* The loop polls, and callbacks return. *)
FairSpec == Spec /\ WF_vars(Poll)

-----------------------------------------------------------------------------
(* What write() has taken for a peer reaches it in order, the rest of it    *)
(* waits in the ring, however often that wraps or starts over; and a line   *)
(* that is buffered has no bytes of an earlier peer in the slot.            *)
StreamsKept ==
    /\ \A p \in Peers : \A j \in 1 .. Len(peers[p].wire) : peers[p].wire[j] = j
    /\ \A i \in Slots : conns[i].active =>
         LET p == conns[i].peer
         IN  /\ peers[p].wire \o Content(conns[i].tx) = [j \in 1 .. peers[p].written |-> j]
             /\ conns[i].line \subseteq {p}

(* The registry counts its entries, has none of them twice, and lists every *)
(* connection the server has given to the application, although slots are   *)
(* used again for other clients.                                            *)
RegistryTracks ==
    LET used == {e \in Entries : registry.entries[e] # Null}
    IN  /\ registry.count = Cardinality(used)
        /\ \A d, e \in used : registry.entries[d] = registry.entries[e] => d = e
        /\ role = "server" =>
             \A i \in Slots : conns[i].active =>
                Listed(registry, i) \/ (At("on_close") /\ frame.slot = i)

Served(p) == \E i \in Slots : conns[i].active /\ conns[i].peer = p

(* The application hears of the end of every connection that it did not     *)
(* close itself, once, and after all its input.                             *)
EndToldOnce ==
    \A p \in Peers :
        /\ peers[p].ends <= 1
        /\ peers[p].phase = "served" /\ ~ Served(p) => peers[p].ends = 1 \/ peers[p].left
        /\ peers[p].ended /\ peers[p].ends = 1 => peers[p].input = 0

(* It hears of it as soon as it has read all of the input; a handler that   *)
(* waits for the rest of a message never does.                              *)
EndHeard ==
    \A p \in Peers :
        Served(p) /\ peers[p].ended /\ peers[p].input = 0 ~> peers[p].ends = 1 \/ peers[p].left

-----------------------------------------------------------------------------
(* Why: the inductive invariant.                                            *)

StateInv ==
    /\ role \in Roles /\ active \in BOOLEAN
    /\ frame = [at |-> frame.at, slot |-> frame.slot] /\ frame.slot \in Slots
    /\ frame.at \in {"idle", "on_accept", "flush", "on_write_ready", "input", "on_data", "end",
                     "on_close"}
    /\ conns = [i \in Slots |-> conns[i]]
    /\ \A i \in Slots :
         conns[i] = [active |-> conns[i].active, peer |-> conns[i].peer, line |-> conns[i].line,
                     tx |-> conns[i].tx]
    /\ peers = [p \in Peers |-> peers[p]]
    /\ \A p \in Peers :
         /\ peers[p] = [phase |-> peers[p].phase, ended |-> peers[p].ended,
                        input |-> peers[p].input, wire |-> peers[p].wire,
                        written |-> peers[p].written, ends |-> peers[p].ends,
                        left |-> peers[p].left]
         /\ peers[p].input \in Nat

(* A connection is of a peer that is served, and of one that no other slot  *)
(* has; its end has been told where on_close() is being called, and nowhere *)
(* else.                                                                    *)
Attached ==
    \A i \in Slots : conns[i].active =>
        /\ conns[i].peer \in Peers /\ peers[conns[i].peer].phase = "served"
        /\ \A j \in Slots \ {i} : conns[j].active => conns[j].peer # conns[i].peer
        /\ peers[conns[i].peer].ends = IF At("on_close") /\ frame.slot = i THEN 1 ELSE 0

PeersAgree ==
    \A p \in Peers :
        /\ peers[p].phase # "served" => peers[p].ends = 0 /\ peers[p].wire = <<>> /\ peers[p].written = 0
        /\ peers[p].ends = 1 => peers[p].ended

(* An entry is of a slot. *)
EntriesAgree ==
    /\ registry = [entries |-> registry.entries, count |-> registry.count]
    /\ registry.entries \in [Entries -> Slots \cup {Null}]

(* The ring of a connection is well formed. *)
RingsAgree ==
    /\ \A i \in Slots : conns[i].active =>
         RingOK(conns[i].tx) /\ conns[i].tx.cells \in [Cells -> Nat \cup {Blank}]
    /\ \A p \in Peers : peers[p].wire \in Seq(Nat \cup {Blank}) /\ peers[p].written \in Nat

WifiInv ==
    /\ StateInv /\ Attached /\ PeersAgree /\ EndToldOnce
    /\ EntriesAgree /\ RegistryTracks
    /\ RingsAgree /\ StreamsKept
=============================================================================
