--------------------------- MODULE TcpLineServer ---------------------------
(***************************************************************************)
(* The Linux TCP server (linux_tcp_server.hpp) serving the line-protocol   *)
(* handler (TcpLineServerHandler of tcp_line_protocol.hpp).                *)
(*                                                                         *)
(* The server owns the connection objects.  close() of a connection only   *)
(* gives up its bufferevent and marks it; sweep_closed(), at the end of    *)
(* every libevent callback, destroys the marked objects.  The handler      *)
(* keeps a table of slots that refer to connections by address, each with  *)
(* a line reader and a backpressure monitor of its own.                    *)
(*                                                                         *)
(* Connection objects are identified by their addresses, so an object      *)
(* destroyed and a later one at the same address look alike to the         *)
(* handler.  A client connects at most once.  Bytes are abstracted to      *)
(* "part" (some bytes without a delimiter) and "end" (the delimiter); a    *)
(* reader's buffer to the clients whose bytes are in it.  A read callback  *)
(* leaves no input behind on an open connection, so input exists only      *)
(* during one.                                                             *)
(*                                                                         *)
(* A reference to a destroyed object is undefined behaviour; the model     *)
(* treats the object as one that is not valid(), and the properties below  *)
(* rule such a reference out before it is used.                            *)
(***************************************************************************)
EXTENDS TcpBackpressure, Sequences, FiniteSets

CONSTANTS
    Clients,         \* the clients that may connect
    Addrs,           \* addresses a connection object may get
    NoConn,          \* the null connection pointer
    NoClient,        \* no client: the content of an address without an object
    MaxSlots,        \* MaxConnections of the handler
    Options,         \* what the server and the handler may be set up with
    MaxOutput,       \* bound: queued output of one connection, in blocks
    MaxChunk,        \* bound: tokens that one read callback finds
    AppUse           \* where the application may close things: "careful" or "any"

ASSUME ServerNamesAssumption == NoConn \notin Addrs /\ NoClient \notin Clients
ASSUME ServerSizesAssumption ==
    /\ IsFiniteSet(Addrs)
    /\ MaxSlots \in Nat \ {0} /\ MaxOutput \in Nat /\ MaxChunk \in Nat
    /\ Options \subseteq [max_connections : 0 .. Cardinality(Addrs), close_on_limit : BOOLEAN]
ASSUME ServerUseAssumption == AppUse \in {"careful", "any"}

VARIABLES
    options,     \* max_connections_ of the server, close_on_limit of the handler
    listening,   \* listener_ and handler_ are set
    conns,       \* the connection object at each address
    slots,       \* slots_ of the handler
    frame,       \* the callback in progress
    clients      \* ghost: what the application was told about each client

vars == <<options, listening, conns, slots, frame, clients>>

Slots == 0 .. MaxSlots - 1

Tokens == {"part", "end"}
Chunks == UNION {[1 .. n -> Tokens] : n \in 1 .. MaxChunk}

(* An object is "open" while bev_ is set and "closed" once remove_requested_. *)
Connection == [state : {"none", "open", "closed"}, client : Clients \cup {NoClient},
               output : 0 .. MaxOutput]
NoObject == [state |-> "none", client |-> NoClient, output |-> 0]

Slot == [conn : Addrs \cup {NoConn}, buffer : SUBSET Clients, backpressure : Monitor]

(* Where the program is: in libevent's loop, in a callback of the           *)
(* application, or in between.  conn is the connection that libevent called *)
(* back for, slot the slot at work, input what is left to read, all whether *)
(* every slot is being checked.                                             *)
AppFrames == {"loop", "on_accept", "on_line", "on_backpressure", "on_close", "on_error"}
Frame == [at : AppFrames \cup {"reading", "checking"}, conn : Addrs \cup {NoConn},
          slot : Slots, input : Seq(Tokens), all : BOOLEAN]
InLoop == [at |-> "loop", conn |-> NoConn, slot |-> 0, input |-> <<>>, all |-> FALSE]

Init ==
    /\ options \in Options
    /\ listening = FALSE
    /\ conns = [a \in Addrs |-> NoObject]
    /\ slots = [s \in Slots |-> [conn |-> NoConn, buffer |-> {}, backpressure |-> reset]]
    /\ frame = InLoop
    /\ clients = [p \in Clients |-> [phase |-> "new", ends |-> 0, over |-> FALSE,
                                     reports |-> 0]]

-----------------------------------------------------------------------------
(* The server's objects. *)

valid(cs, a) == a # NoConn /\ cs[a].state = "open"

connection_count(cs) == Cardinality({a \in Addrs : valid(cs, a)})

close(cs, a) ==
    IF cs[a].state = "none" THEN cs ELSE [cs EXCEPT ![a].state = "closed", ![a].output = 0]

(* Seeded fault: sweep_closed() keeps what is closed. *)
sweep_closed_Never(cs) == cs

sweep_closed(cs) == [a \in Addrs |-> IF cs[a].state = "closed" THEN NoObject ELSE cs[a]]

(* The callback is over: every callback from libevent ends with a sweep. *)
Finish(cs) == conns' = sweep_closed(cs) /\ frame' = InLoop

-----------------------------------------------------------------------------
(* The handler's slots. *)

Bound(s, a) == slots[s].conn = a

(* The slot acquire() finds or binds, if there is one: that of the          *)
(* connection's address, or else the first one that is unbound.             *)
AcquiredSlot(a) ==
    IF \E s \in Slots : Bound(s, a)
    THEN {s \in Slots : Bound(s, a) /\ \A r \in Slots : r < s => ~ Bound(r, a)}
    ELSE {s \in Slots : Bound(s, NoConn) /\ \A r \in Slots : r < s => ~ Bound(r, NoConn)}

acquire(s, a) ==
    IF Bound(s, a) THEN slots[s] ELSE [slots[s] EXCEPT !.conn = a, !.backpressure = reset]

unbind(s) == [slots EXCEPT ![s].conn = NoConn, ![s].backpressure = reset]

(* Seeded fault: the slot of an ended connection stays bound. *)
release_Never(a) == slots

release(a) == IF \E s \in Slots : Bound(s, a)
              THEN unbind(CHOOSE s \in AcquiredSlot(a) : TRUE) ELSE slots

(* Seeded fault: the loop over the slots runs one too far. *)
NextCheck_OffByOne(cs) ==
    IF frame.all /\ frame.slot + 1 <= MaxSlots
    THEN conns' = cs /\ frame' = [frame EXCEPT !.at = "checking", !.slot = @ + 1]
    ELSE Finish(cs)

(* The check of the slot at work is over, with the connections in state cs: *)
(* check_all_backpressure() goes on to the next slot.                       *)
NextCheck(cs) ==
    IF frame.all /\ frame.slot + 1 < MaxSlots
    THEN conns' = cs /\ frame' = [frame EXCEPT !.at = "checking", !.slot = @ + 1]
    ELSE Finish(cs)

-----------------------------------------------------------------------------
(* Accepting. *)

(* accept_callback() sweeps before it counts. *)
AtLimit == connection_count(sweep_closed(conns)) >= options.max_connections

(* The descriptor is closed: too many connections, no bufferevent, or no    *)
(* slot, in which case on_too_many_connections() closes the connection.     *)
TurnAway(p) ==
    /\ frame.at = "loop" /\ listening /\ clients[p].phase = "new"
    /\ clients' = [clients EXCEPT ![p].phase = "refused"]
    /\ conns' = sweep_closed(conns)
    /\ UNCHANGED <<options, listening, slots, frame>>

AcceptAtLimit(p) ==
    /\ AtLimit
    /\ TurnAway(p)

AcceptWithoutBufferevent(p) ==
    /\ ~ AtLimit
    /\ TurnAway(p)

AcceptWithoutSlot(p) ==
    /\ ~ AtLimit
    /\ \E a \in Addrs : sweep_closed(conns)[a].state = "none" /\ AcquiredSlot(a) = {}
    /\ TurnAway(p)

(* The object is created, gets a slot and is given to the application. *)
Accept(p) ==
    /\ frame.at = "loop" /\ listening /\ clients[p].phase = "new"
    /\ ~ AtLimit
    /\ \E a \in Addrs :
         /\ sweep_closed(conns)[a].state = "none"
         /\ conns' = [sweep_closed(conns) EXCEPT ![a] =
                        [state |-> "open", client |-> p, output |-> 0]]
         /\ \E s \in AcquiredSlot(a) :
              slots' = [slots EXCEPT ![s] = [acquire(s, a) EXCEPT !.backpressure = reset]]
         /\ frame' = [InLoop EXCEPT !.at = "on_accept", !.conn = a]
    /\ clients' = [clients EXCEPT ![p].phase = "accepted"]
    /\ UNCHANGED <<options, listening>>

AcceptReturns ==
    /\ frame.at = "on_accept"
    /\ Finish(conns)
    /\ UNCHANGED <<options, listening, slots, clients>>

-----------------------------------------------------------------------------
(* Reading. *)

(* read_callback() and on_data() up to the line reader. *)
ReadCallback(a, chunk) ==
    /\ frame.at = "loop" /\ valid(conns, a)
    /\ IF AcquiredSlot(a) = {}
       THEN Finish(close(conns, a)) /\ UNCHANGED slots
       ELSE \E s \in AcquiredSlot(a) :
              /\ slots' = [slots EXCEPT ![s] = acquire(s, a)]
              /\ frame' = [at |-> "reading", conn |-> a, slot |-> s, input |-> chunk, all |-> TRUE]
              /\ UNCHANGED conns
    /\ UNCHANGED <<options, listening, clients>>

(* TcpConnectionByteStream::readable() of the slot at work. *)
readable == valid(conns, slots[frame.slot].conn) /\ frame.input # <<>>

(* LineProtocolReader::consume() of bytes other than the delimiter.  Bytes  *)
(* that do not fit are dropped together with all that is buffered.          *)
BufferBytes ==
    /\ frame.at = "reading" /\ readable /\ Head(frame.input) = "part"
    /\ LET own == {conns[slots[frame.slot].conn].client}
       IN  \E b \in {slots[frame.slot].buffer \cup own, {}, own} :
             slots' = [slots EXCEPT ![frame.slot].buffer = b]
    /\ frame' = [frame EXCEPT !.input = Tail(@)]
    /\ UNCHANGED <<options, listening, conns, clients>>

(* The delimiter: handle_line() calls the application ... *)
EmitLine ==
    /\ frame.at = "reading" /\ readable /\ Head(frame.input) = "end"
    /\ frame' = [frame EXCEPT !.at = "on_line", !.input = Tail(@)]
    /\ UNCHANGED <<options, listening, conns, slots, clients>>

(* ... and the buffer is empty when the application returns. *)
LineReturns ==
    /\ frame.at = "on_line"
    /\ slots' = [slots EXCEPT ![frame.slot].buffer = {}]
    /\ frame' = [frame EXCEPT !.at = "reading"]
    /\ UNCHANGED <<options, listening, conns, clients>>

(* The reader has drained the stream; check_all_backpressure() begins. *)
ReadingEnds ==
    /\ frame.at = "reading" /\ ~ readable
    /\ frame' = [frame EXCEPT !.at = "checking", !.slot = 0, !.input = <<>>]
    /\ UNCHANGED <<options, listening, conns, slots, clients>>

-----------------------------------------------------------------------------
(* Backpressure. *)

(* Ghost: queued output n starts an overrun of the high-water mark or, at   *)
(* the low-water mark, ends one, whether or not a check sees it.            *)
Overrun(p, n) ==
    clients' = [clients EXCEPT ![p].over = n > HighWater \/ (@ /\ n > LowWater),
                               ![p].reports = IF n <= LowWater THEN 0 ELSE @]

(* The network takes queued output. *)
OutputDrains(a, n) ==
    /\ frame.at = "loop" /\ valid(conns, a)
    /\ n > 0 /\ n < conns[a].output
    /\ conns' = [conns EXCEPT ![a].output = n]
    /\ Overrun(conns[a].client, n)
    /\ UNCHANGED <<options, listening, slots, frame>>

(* All of it: write_callback() and on_write_ready() follow. *)
WriteCallback(a) ==
    /\ frame.at = "loop" /\ valid(conns, a) /\ conns[a].output > 0
    /\ LET drained == [conns EXCEPT ![a].output = 0]
       IN  IF \E s \in Slots : Bound(s, a)
           THEN /\ conns' = drained
                /\ frame' = [InLoop EXCEPT !.at = "checking", !.conn = a,
                                           !.slot = CHOOSE s \in AcquiredSlot(a) : TRUE]
           ELSE Finish(drained)
    /\ Overrun(conns[a].client, 0)
    /\ UNCHANGED <<options, listening, slots>>

(* check_backpressure() of the slot at work, unless it reports. *)
CheckSlot ==
    LET a == slots[frame.slot].conn
        m == slots[frame.slot].backpressure
    IN  /\ frame.at = "checking"
        /\ ~ (valid(conns, a) /\ Reports(m, conns[a].output))
        /\ slots' = IF valid(conns, a)
                    THEN [slots EXCEPT ![frame.slot].backpressure = Checked(m, conns[a].output)]
                    ELSE slots
        /\ NextCheck(conns)
        /\ UNCHANGED <<options, listening, clients>>

(* It reports: the application is called ... *)
CheckReports ==
    LET a == slots[frame.slot].conn
        m == slots[frame.slot].backpressure
    IN  /\ frame.at = "checking"
        /\ valid(conns, a) /\ Reports(m, conns[a].output)
        /\ slots' = [slots EXCEPT ![frame.slot].backpressure = Checked(m, conns[a].output)]
        /\ frame' = [frame EXCEPT !.at = "on_backpressure"]
        /\ clients' = [clients EXCEPT ![conns[a].client].reports = @ + 1,
                                      ![conns[a].client].ends = IF options.close_on_limit THEN @ + 1 ELSE @]
        /\ UNCHANGED <<options, listening, conns>>

(* ... and the connection closed, when it is to be closed on the limit. *)
BackpressureReturns ==
    LET a == slots[frame.slot].conn
        cs == IF options.close_on_limit THEN close(conns, a) ELSE conns
    IN  /\ frame.at = "on_backpressure"
        /\ slots' = IF valid(cs, a) THEN slots ELSE unbind(frame.slot)
        /\ NextCheck(cs)
        /\ UNCHANGED <<options, listening, clients>>

-----------------------------------------------------------------------------
(* End of file, error or timeout: notify_event(). *)

EventCallback(a, at) ==
    /\ frame.at = "loop" /\ valid(conns, a)
    /\ frame' = [InLoop EXCEPT !.at = at, !.conn = a]
    /\ clients' = [clients EXCEPT ![conns[a].client].ends = @ + 1]
    /\ UNCHANGED <<options, listening, conns, slots>>

EventReturns ==
    /\ frame.at \in {"on_close", "on_error"}
    /\ slots' = release(frame.conn)
    /\ Finish(close(conns, frame.conn))
    /\ UNCHANGED <<options, listening, clients>>

-----------------------------------------------------------------------------
(* Application code, in a callback or between callbacks (in a timer). *)

AppRuns == frame.at \in AppFrames

write(a) ==
    /\ AppRuns /\ valid(conns, a) /\ conns[a].output < MaxOutput
    /\ conns' = [conns EXCEPT ![a].output = @ + 1]
    /\ Overrun(conns[a].client, conns[a].output + 1)
    /\ UNCHANGED <<options, listening, slots, frame>>

(* Careful use closes a connection where the handler looks at it afterwards: *)
(* in its own on_close, on_error or on_backpressure callback.                *)
HandlerLooksAgain(a) ==
    \/ frame.at \in {"on_close", "on_error"} /\ frame.conn = a
    \/ frame.at = "on_backpressure" /\ slots[frame.slot].conn = a

(* Ghost: an application that closes a connection knows of its end. *)
AppClose(a) ==
    /\ AppRuns /\ valid(conns, a)
    /\ AppUse = "careful" => HandlerLooksAgain(a)
    /\ conns' = close(conns, a)
    /\ clients' = [clients EXCEPT ![conns[a].client].ends = IF @ = 0 THEN 1 ELSE @]
    /\ UNCHANGED <<options, listening, slots, frame>>

(* close() of the server destroys every object, whoever refers to it.       *)
(* Careful use closes it between callbacks once no connection is open.      *)
CloseServer ==
    /\ AppRuns /\ listening
    /\ AppUse = "careful" => frame.at = "loop" /\ connection_count(conns) = 0
    /\ listening' = FALSE
    /\ conns' = [a \in Addrs |-> NoObject]
    /\ UNCHANGED <<options, slots, frame, clients>>

(* listen() closes first; binding may fail. *)
listen ==
    /\ frame.at = "loop"
    /\ ~ listening
    /\ listening' \in BOOLEAN
    /\ conns' = [a \in Addrs |-> NoObject]
    /\ UNCHANGED <<options, slots, frame, clients>>

-----------------------------------------------------------------------------
(* What the program does by itself once libevent has called it. *)
Continue ==
    \/ AcceptReturns \/ BufferBytes \/ EmitLine \/ LineReturns \/ ReadingEnds
    \/ CheckSlot \/ CheckReports \/ BackpressureReturns \/ EventReturns

Next ==
    \/ \E p \in Clients :
         AcceptAtLimit(p) \/ AcceptWithoutBufferevent(p) \/ AcceptWithoutSlot(p) \/ Accept(p)
    \/ \E a \in Addrs :
         \/ \E chunk \in Chunks : ReadCallback(a, chunk)
         \/ \E n \in 1 .. MaxOutput : OutputDrains(a, n)
         \/ WriteCallback(a)
         \/ \E at \in {"on_close", "on_error"} : EventCallback(a, at)
         \/ write(a) \/ AppClose(a)
    \/ CloseServer
    \/ listen
    \/ Continue

Spec == Init /\ [][Next]_vars

-----------------------------------------------------------------------------
(* The types: scans keep to the slot table, counters to their limits. *)
TypeOK ==
    /\ options \in Options /\ listening \in BOOLEAN
    /\ conns \in [Addrs -> Connection]
    /\ slots \in [Slots -> Slot]
    /\ frame \in Frame
    /\ clients \in [Clients -> [phase : {"new", "refused", "accepted"}, ends : Nat, over : BOOLEAN,
                                reports : Nat]]

(* The handler's table mirrors the server's: a bound slot refers to an      *)
(* existing connection, open again once the callback is over, so the reader *)
(* and the backpressure checks never follow a pointer to a destroyed        *)
(* object; and every open connection has exactly one slot.                  *)
SlotsMirrorConnections ==
    /\ \A s \in Slots : slots[s].conn # NoConn =>
          /\ conns[slots[s].conn].state # "none"
          /\ frame.at = "loop" => valid(conns, slots[s].conn)
    /\ \A a \in Addrs : valid(conns, a) => \E s \in Slots : Bound(s, a)
    /\ \A r, s \in Slots : slots[r].conn = slots[s].conn /\ slots[r].conn # NoConn => r = s

Object(p) == {a \in Addrs : conns[a].state # "none" /\ conns[a].client = p}

(* The application is told exactly once that a connection it was given is   *)
(* over (on_close, on_error, or on_backpressure when that closes), and not  *)
(* a callback before it is.                                                 *)
EndToldOnce ==
    \A p \in Clients :
        /\ clients[p].ends <= 1
        /\ clients[p].phase = "accepted" /\ Object(p) = {} => clients[p].ends = 1
        /\ clients[p].ends = 1 /\ Object(p) # {} => frame.at # "loop"

(* An overrun of the high-water mark is reported at most once, however many *)
(* checks see it and however the output moves between the two marks.        *)
ReportedOncePerOverrun ==
    \A p \in Clients :
        /\ clients[p].reports <= 1
        /\ clients[p].reports = 1 => clients[p].over

(* The objects the server holds, closed ones included, never outnumber its  *)
(* limit: connection_count() does not count the closed ones, but they are   *)
(* gone before it is asked.                                                 *)
ObjectsBounded == Cardinality({a \in Addrs : conns[a].state # "none"}) <= options.max_connections

(* A line handed to the application for a connection consists of bytes that *)
(* this connection's client sent.                                           *)
LineOfOneClient ==
    frame.at = "on_line" =>
        slots[frame.slot].buffer \subseteq {conns[slots[frame.slot].conn].client}

-----------------------------------------------------------------------------
(* The inductive invariant behind the properties, for careful use. *)

(* The callback in progress reports the end of the connection at a, or its  *)
(* backpressure. *)
Ending(a) == frame.at \in {"on_close", "on_error"} /\ frame.conn = a
Reporting(a) == frame.at = "on_backpressure" /\ slots[frame.slot].conn = a

(* A closed object is referred to only by the slot that the callback in     *)
(* progress will unbind; nothing is left of a server that does not listen.  *)
SlotRefers(s) ==
    slots[s].conn # NoConn =>
        \/ valid(conns, slots[s].conn)
        \/ /\ conns[slots[s].conn].state = "closed"
           /\ Ending(slots[s].conn) \/ Reporting(slots[s].conn)

SlotsInv ==
    /\ \A s \in Slots : SlotRefers(s)
    /\ \A a \in Addrs : valid(conns, a) \/ Ending(a) => \E s \in Slots : Bound(s, a)
    /\ \A r, s \in Slots : slots[r].conn = slots[s].conn /\ slots[r].conn # NoConn => r = s
    /\ \A a \in Addrs : conns[a].state = "closed" =>
          frame.at \in {"checking", "on_backpressure", "on_close", "on_error"}
    /\ frame.at \in {"on_close", "on_error"} => frame.conn \in Addrs
    /\ frame.at = "on_backpressure" => slots[frame.slot].conn # NoConn
    /\ listening \/ (frame.at = "loop" /\ \A a \in Addrs : conns[a].state = "none")

(* Every object belongs to one client, whose end has been told when it is   *)
(* closed or being told. *)
ObjectAgrees(a) ==
    conns[a].state # "none" =>
        /\ conns[a].client \in Clients
        /\ clients[conns[a].client].phase = "accepted"
        /\ clients[conns[a].client].ends =
              IF \/ conns[a].state = "closed" \/ Ending(a)
                 \/ Reporting(a) /\ options.close_on_limit
              THEN 1 ELSE 0
        /\ \A b \in Addrs : conns[b].state # "none" /\ conns[b].client = conns[a].client => b = a

ClientAgrees(p) ==
    /\ clients[p].phase # "accepted" =>
          clients[p].ends = 0 /\ clients[p].reports = 0 /\ ~ clients[p].over
    /\ clients[p].phase = "accepted" => clients[p].ends = 1 \/ \E a \in Addrs :
          conns[a].state # "none" /\ conns[a].client = p

ClientsInv ==
    /\ \A a \in Addrs : ObjectAgrees(a)
    /\ \A p \in Clients : ClientAgrees(p)

(* A monitor that was triggered has reported, and remembers the report for  *)
(* as long as the overrun lasts. *)
MonitorAgrees(s) ==
    LET a == slots[s].conn
        m == slots[s].backpressure
    IN  /\ m.over_high_polls >= trigger_polls => m.reported
        /\ valid(conns, a) =>
              /\ clients[conns[a].client].reports = 1 => m.reported
              /\ conns[a].output > HighWater => clients[conns[a].client].over
              /\ conns[a].output <= LowWater => ~ clients[conns[a].client].over

MonitorsInv ==
    /\ ReportedOncePerOverrun
    /\ \A s \in Slots : MonitorAgrees(s)

ServerInv == TypeOK /\ SlotsInv /\ ClientsInv /\ MonitorsInv
=============================================================================
