----------------------------- MODULE TcpClient -----------------------------
(***************************************************************************)
(* The Linux TCP client (linux_tcp_client.hpp) with the line handler of a  *)
(* client (TcpLineClientHandler of tcp_line_protocol.hpp).                 *)
(*                                                                         *)
(* connect() and close() may be called by the application at any time, in  *)
(* a callback too; callbacks run inside connect() and inside poll(), which *)
(* the loop calls when the client's descriptor is ready.  stack holds the  *)
(* callbacks in progress.                                                  *)
(*                                                                         *)
(* Each call of connect() is an attempt; its number also names its         *)
(* descriptor.  Addresses that fail at once and are followed by another    *)
(* one leave nothing behind.  Input is abstracted to "part" (some bytes    *)
(* without a delimiter) and "end" (the delimiter).                         *)
(***************************************************************************)
EXTENDS Integers, Sequences, FiniteSets

CONSTANTS
    MaxAttempts,    \* bound: calls of connect()
    MaxInput,       \* bound: tokens that the peer of one attempt sends
    MaxDepth,       \* bound: callbacks within callbacks
    AppUse          \* "careful": no connect() in on_close and on_error; or "any"

ASSUME ClientBoundsAssumption == MaxAttempts \in Nat /\ MaxInput \in Nat /\ MaxDepth \in Nat
ASSUME ClientUseAssumption == AppUse \in {"careful", "any"}

Attempts == 1 .. MaxAttempts
NoFd == 0

VARIABLES
    client,    \* the members of LinuxTcpClient, its events in the loop, open descriptors
    reader,    \* the line handler: bound, and the number of tokens buffered
    stack,     \* the callbacks in progress, the innermost first
    sockets,   \* the kernel's side of each attempt
    told       \* ghost: what the application did to, and heard of, each attempt

vars == <<client, reader, stack, sockets, told>>

Callbacks == {"on_connect", "on_line", "on_close", "on_error"}

(* handler_ is set exactly while state_ is not Idle. *)
Idle == [state |-> "Idle", pending_fd |-> NoFd, fd |-> NoFd, registered_fd |-> NoFd,
         events |-> {}, open |-> {}]

Init ==
    /\ client = Idle
    /\ reader = [bound |-> FALSE, size |-> 0]
    /\ stack = <<>>
    /\ sockets = [n \in Attempts |-> [state |-> "none", input |-> <<>>, sent |-> 0]]
    /\ told = [n \in Attempts |-> [connects |-> 0, ends |-> 0, left |-> FALSE]]

-----------------------------------------------------------------------------
(* The client's members. *)

connection_valid == client.fd # NoFd

Register(c, n, on) ==
    [c EXCEPT !.registered_fd = n, !.events = @ \cup {[fd |-> n, on |-> on]}]

(* Seeded fault: the loop's event stays. *)
unregister_fd_Never(c) == c

unregister_fd(c) ==
    [c EXCEPT !.registered_fd = NoFd, !.events = {e \in @ : e.fd # c.registered_fd}]

close(c) == [unregister_fd(c) EXCEPT !.open = @ \ {c.pending_fd, c.fd}, !.pending_fd = NoFd,
                                     !.fd = NoFd, !.state = "Idle"]

activate_connected_fd(c, n) ==
    Register([c EXCEPT !.fd = n, !.pending_fd = NoFd, !.state = "Connected"], n, "read")

(* Ghost: the application gives up the attempt that is under way. *)
Left == [n \in Attempts |-> [told[n] EXCEPT !.left = @ \/ n \in client.open]]

Ended(t, n) == [t EXCEPT ![n].ends = @ + 1]
Connected(t, n) == [t EXCEPT ![n].connects = @ + 1]

Call(at, n, closes) == stack' = <<[at |-> at, attempt |-> n, closes |-> closes]>> \o stack

Top == Head(stack)
Running(at) == stack # <<>> /\ Top.at = at

-----------------------------------------------------------------------------
(* Application code, between callbacks or in one. *)

AppRuns == stack # <<>> => Top.at \in Callbacks

MayConnect(n) ==
    /\ AppRuns /\ Len(stack) < MaxDepth
    /\ n \in Attempts /\ sockets[n].state = "none" /\ \A m \in 1 .. n - 1 : sockets[m].state # "none"
    /\ AppUse = "careful" => \A i \in 1 .. Len(stack) : stack[i].at \notin {"on_close", "on_error"}

(* No address can be used, or the loop refuses the descriptor. *)
ConnectFails(n) ==
    /\ MayConnect(n)
    /\ client' = close(client)
    /\ sockets' = [sockets EXCEPT ![n].state = "failed"]
    /\ told' = Ended(Left, n)
    /\ Call("on_error", n, FALSE)
    /\ UNCHANGED reader

(* Seeded fault: the loop is asked for input, which comes only afterwards. *)
ConnectInProgress_Reading(n) ==
    /\ MayConnect(n)
    /\ client' = Register([close(client) EXCEPT !.open = @ \cup {n}, !.pending_fd = n,
                                                !.state = "Connecting"], n, "read")
    /\ sockets' = [sockets EXCEPT ![n].state = "connecting"]
    /\ told' = Left
    /\ UNCHANGED <<reader, stack>>

ConnectInProgress(n) ==
    /\ MayConnect(n)
    /\ client' = Register([close(client) EXCEPT !.open = @ \cup {n}, !.pending_fd = n,
                                                      !.state = "Connecting"], n, "write")
    /\ sockets' = [sockets EXCEPT ![n].state = "connecting"]
    /\ told' = Left
    /\ UNCHANGED <<reader, stack>>

(* The socket is connected at once; TcpLineClientHandler::on_connect() binds. *)
ConnectAtOnce(n) ==
    /\ MayConnect(n)
    /\ client' = activate_connected_fd([close(client) EXCEPT !.open = @ \cup {n}], n)
    /\ sockets' = [sockets EXCEPT ![n].state = "up"]
    /\ told' = Connected(Left, n)
    /\ reader' = [reader EXCEPT !.bound = TRUE]
    /\ Call("on_connect", n, FALSE)

Close ==
    /\ AppRuns /\ client # close(client)
    /\ client' = close(client)
    /\ told' = Left
    /\ UNCHANGED <<reader, stack, sockets>>

(* close() of the connection: the client is not told. *)
CloseConnection ==
    /\ AppRuns /\ connection_valid
    /\ client' = [client EXCEPT !.open = @ \ {client.fd}, !.fd = NoFd]
    /\ told' = Left
    /\ UNCHANGED <<reader, stack, sockets>>

-----------------------------------------------------------------------------
(* poll(), called by the loop. *)

Polled(n, on) == stack = <<>> /\ n \in client.open /\ [fd |-> n, on |-> on] \in client.events

(* Seeded fault: the line handler is not bound. *)
PollConnects_Unbound(n) ==
    /\ client.state = "Connecting" /\ n = client.pending_fd
    /\ Polled(n, "write") /\ sockets[n].state \in {"up", "ended"}
    /\ client' = activate_connected_fd(unregister_fd(client), n)
    /\ told' = Connected(told, n)
    /\ Call("on_connect", n, FALSE)
    /\ UNCHANGED <<reader, sockets>>

(* complete_connect(): the descriptor is connected ... *)
PollConnects(n) ==
    /\ client.state = "Connecting" /\ n = client.pending_fd
    /\ Polled(n, "write") /\ sockets[n].state \in {"up", "ended"}
    /\ client' = activate_connected_fd(unregister_fd(client), n)
    /\ told' = Connected(told, n)
    /\ reader' = [reader EXCEPT !.bound = TRUE]
    /\ Call("on_connect", n, FALSE)
    /\ UNCHANGED sockets

(* ... but the loop refuses it for reading ... *)
PollRefused(n) ==
    /\ client.state = "Connecting" /\ n = client.pending_fd
    /\ Polled(n, "write") /\ sockets[n].state \in {"up", "ended"}
    /\ client' = close(client)
    /\ told' = Ended(told, n)
    /\ Call("on_error", n, FALSE)
    /\ UNCHANGED <<reader, sockets>>

(* ... or the attempt has failed, and close() follows the callback. *)
PollFailed(n) ==
    /\ client.state = "Connecting" /\ n = client.pending_fd
    /\ Polled(n, "write") /\ sockets[n].state \in {"failed", "reset"}
    /\ told' = Ended(told, n)
    /\ Call("on_error", n, TRUE)
    /\ UNCHANGED <<client, reader, sockets>>

PollReadable(n) ==
    /\ client.state = "Connected" /\ n = client.fd
    /\ Polled(n, "read") /\ sockets[n].input # <<>>
    /\ Call("reading", n, FALSE)
    /\ UNCHANGED <<client, reader, sockets, told>>

(* End of file, or an error: the callback first, then close(). *)
PollEnded(n, at) ==
    /\ client.state = "Connected" /\ n = client.fd
    /\ Polled(n, "read") /\ sockets[n].input = <<>>
    /\ sockets[n].state = IF at = "on_close" THEN "ended" ELSE "reset"
    /\ told' = Ended(told, n)
    /\ Call(at, n, TRUE)
    /\ UNCHANGED <<client, reader, sockets>>

-----------------------------------------------------------------------------
(* LineProtocolReader on the bound connection, whichever that is by now. *)

readable == reader.bound /\ connection_valid /\ sockets[client.fd].input # <<>>

Take == sockets' = [sockets EXCEPT ![client.fd].input = Tail(@)]

BufferBytes ==
    /\ Running("reading") /\ readable /\ Head(sockets[client.fd].input) = "part"
    /\ Take
    /\ \E size \in {reader.size + 1, 0} : reader' = [reader EXCEPT !.size = size]
    /\ UNCHANGED <<client, stack, told>>

EmitLine ==
    /\ Running("reading") /\ readable /\ Head(sockets[client.fd].input) = "end"
    /\ Take
    /\ Call("on_line", client.fd, FALSE)
    /\ UNCHANGED <<client, reader, told>>

ReadingEnds ==
    /\ Running("reading") /\ ~ readable
    /\ stack' = Tail(stack)
    /\ UNCHANGED <<client, reader, sockets, told>>

(* Seeded fault: poll() does not close after on_close() and on_error(). *)
CallbackReturns_StaysOpen ==
    /\ AppRuns /\ stack # <<>>
    /\ stack' = Tail(stack)
    /\ reader' = CASE Top.at = "on_line" -> [reader EXCEPT !.size = 0]
                   [] Top.at \in {"on_close", "on_error"} -> [reader EXCEPT !.bound = FALSE]
                   [] OTHER -> reader
    /\ UNCHANGED <<client, sockets, told>>

(* The application returns from a callback; the line handler forgets the    *)
(* connection after on_close() and on_error(), and poll() closes it.        *)
CallbackReturns ==
    /\ AppRuns /\ stack # <<>>
    /\ stack' = Tail(stack)
    /\ reader' = CASE Top.at = "on_line" -> [reader EXCEPT !.size = 0]
                   [] Top.at \in {"on_close", "on_error"} -> [reader EXCEPT !.bound = FALSE]
                   [] OTHER -> reader
    /\ client' = IF Top.closes THEN close(client) ELSE client
    /\ UNCHANGED <<sockets, told>>

-----------------------------------------------------------------------------
(* The kernel and the peer. *)

ConnectResolves(n) ==
    /\ n \in client.open /\ sockets[n].state = "connecting"
    /\ \E s \in {"up", "failed"} : sockets' = [sockets EXCEPT ![n].state = s]
    /\ UNCHANGED <<client, reader, stack, told>>

PeerSends(n) ==
    /\ n \in client.open /\ sockets[n].state = "up" /\ sockets[n].sent < MaxInput
    /\ \E t \in {"part", "end"} :
         sockets' = [sockets EXCEPT ![n].input = Append(@, t), ![n].sent = @ + 1]
    /\ UNCHANGED <<client, reader, stack, told>>

(* What has arrived can still be read. *)
PeerEnds(n) ==
    /\ n \in client.open /\ sockets[n].state = "up"
    /\ \E s \in {"ended", "reset"} : sockets' = [sockets EXCEPT ![n].state = s]
    /\ UNCHANGED <<client, reader, stack, told>>

-----------------------------------------------------------------------------
Poll(n) ==
    \/ PollConnects(n) \/ PollRefused(n) \/ PollFailed(n) \/ PollReadable(n)
    \/ \E at \in {"on_close", "on_error"} : PollEnded(n, at)

Continue == BufferBytes \/ EmitLine \/ ReadingEnds \/ CallbackReturns

Next ==
    \/ \E n \in Attempts :
         \/ ConnectFails(n) \/ ConnectInProgress(n) \/ ConnectAtOnce(n)
         \/ Poll(n)
         \/ ConnectResolves(n) \/ PeerSends(n) \/ PeerEnds(n)
    \/ Close \/ CloseConnection
    \/ Continue

(* The loop calls poll() as long as the descriptor is ready, callbacks      *)
(* return, and the kernel gives up a connection that nobody answers.        *)
Fairness ==
    /\ WF_vars(Continue)
    /\ \A n \in Attempts : WF_vars(Poll(n)) /\ WF_vars(ConnectResolves(n))

Spec == Init /\ [][Next]_vars
FairSpec == Spec /\ Fairness

-----------------------------------------------------------------------------
(* No descriptor is leaked, and the loop watches exactly the descriptor     *)
(* that is under way, for what the state waits for.  After close() of the   *)
(* connection object alone, the event of its closed descriptor remains.     *)
DescriptorsMatchState ==
    /\ client.open = {client.pending_fd, client.fd} \ {NoFd}
    /\ client.pending_fd = NoFd \/ client.fd = NoFd
    /\ client.events =
         CASE client.state = "Idle" -> {}
           [] client.state = "Connecting" -> {[fd |-> client.pending_fd, on |-> "write"]}
           [] client.state = "Connected" -> {[fd |-> client.registered_fd, on |-> "read"]}
    /\ client.fd # NoFd => client.fd = client.registered_fd

(* Whatever happens to an attempt that connect() has begun, the application *)
(* knows when it is over: from one on_close() or on_error(), or because it  *)
(* called close() or connect() itself; on_connect() comes before the end.   *)
AttemptReported ==
    \A n \in Attempts :
        /\ told[n].ends <= 1 /\ told[n].connects <= 1
        /\ sockets[n].state # "none" /\ n \notin client.open => told[n].ends = 1 \/ told[n].left
        /\ stack = <<>> /\ told[n].ends = 1 => n \notin client.open

(* A callback is only ever made for the attempt that is under way: never    *)
(* for one the application has given up, and nothing follows its end.       *)
NothingAfterTheEnd ==
    [][Len(stack') > Len(stack) =>
          LET n == Head(stack').attempt IN ~ told[n].left /\ told[n].ends = 0]_vars

(* The line handler reads from the connection whenever there is one: else   *)
(* its input would never be taken and the loop would spin on it.            *)
BoundWhileConnected == stack = <<>> /\ connection_valid => reader.bound

(* Every attempt that is in progress ends up reported or given up.          *)
AttemptConcludes ==
    \A n \in Attempts :
        client.pending_fd = n ~> told[n].connects + told[n].ends > 0 \/ told[n].left
-----------------------------------------------------------------------------
(* The inductive invariants behind the properties.                          *)

Fds == {NoFd} \cup Attempts

Members == [state : {"Idle", "Connecting", "Connected"}, pending_fd : Fds, fd : Fds,
            registered_fd : Fds, events : SUBSET [fd : Attempts, on : {"read", "write"}],
            open : SUBSET Attempts]
CallFrame == [at : Callbacks \cup {"reading"}, attempt : Attempts, closes : BOOLEAN]
Tokens == {"part", "end"}

TypeOK ==
    /\ client \in Members
    /\ reader \in [bound : BOOLEAN, size : Nat]
    /\ stack \in Seq(CallFrame)
    /\ sockets \in [Attempts -> [state : {"none", "connecting", "up", "failed", "ended", "reset"},
                                 input : Seq(Tokens), sent : Nat]]
    /\ told \in [Attempts -> [connects : Nat, ends : Nat, left : BOOLEAN]]

(* Which descriptors each state has: this holds however the application     *)
(* calls connect() and close(). *)
StateInv ==
    /\ DescriptorsMatchState
    /\ client.state = "Idle" => client.pending_fd = NoFd /\ client.fd = NoFd /\ client.registered_fd = NoFd
    /\ client.state = "Connecting" => client.pending_fd # NoFd /\ client.registered_fd = client.pending_fd
    /\ client.state = "Connected" => client.pending_fd = NoFd /\ client.registered_fd # NoFd

(* poll() closes the client when the callback in progress returns. *)
Closing == stack # <<>> /\ Top.closes

(* Nothing runs inside on_close() and on_error(), and when poll() is not to *)
(* close the client afterwards, it is closed already. *)
StackInv ==
    /\ \A i \in 1 .. Len(stack) :
          /\ stack[i].at \in {"on_close", "on_error"} => i = 1
          /\ stack[i].closes => Len(stack) = 1 /\ stack[i].at \in {"on_close", "on_error"}
    /\ Running("on_close") \/ Running("on_error") => Top.closes \/ client.open = {}

(* What the application has heard of the attempt under way, of those before *)
(* it and of those to come. *)
AttemptAgrees(n) ==
    /\ n \in client.open =>
          /\ sockets[n].state # "none" /\ ~ told[n].left
          /\ told[n].ends = IF Closing THEN 1 ELSE 0
          /\ told[n].connects = IF client.pending_fd = n THEN 0 ELSE 1
    /\ n \notin client.open /\ sockets[n].state # "none" => told[n].ends = 1 \/ told[n].left
    /\ sockets[n].state = "none" => told[n].ends = 0 /\ told[n].connects = 0 /\ ~ told[n].left
    /\ told[n].ends <= 1 /\ told[n].connects <= 1

ClientInv ==
    /\ TypeOK /\ StateInv /\ StackInv
    /\ \A n \in Attempts : AttemptAgrees(n)
    /\ connection_valid => reader.bound
=============================================================================
