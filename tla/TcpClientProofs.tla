--------------------------- MODULE TcpClientProofs ---------------------------
(* TLAPS proofs about TcpClient: for any number of attempts, any input and  *)
(* any nesting of callbacks. *)
EXTENDS TcpClient, SequenceTheorems, TLAPS

(* The callback that begins is the innermost one. *)
LEMMA PushFrame ==
    ASSUME NEW s \in Seq(CallFrame), NEW f \in CallFrame
    PROVE  /\ <<f>> \o s \in Seq(CallFrame) /\ <<f>> \o s # <<>>
           /\ Len(<<f>> \o s) = Len(s) + 1 /\ Len(s) \in Nat
           /\ Head(<<f>> \o s) = f /\ (<<f>> \o s)[1] = f
           /\ \A i \in 1 .. Len(s) : (<<f>> \o s)[i + 1] = s[i]
  <1>1. <<f>> \in Seq(CallFrame) /\ Len(<<f>>) = 1 /\ <<f>>[1] = f
    OBVIOUS
  <1>2. Len(s) \in Nat
    BY LenProperties
  <1>3. /\ <<f>> \o s \in Seq(CallFrame) /\ Len(<<f>> \o s) = 1 + Len(s)
        /\ \A i \in 1 .. 1 + Len(s) : (<<f>> \o s)[i] = IF i <= 1 THEN <<f>>[i] ELSE s[i - 1]
    BY <1>1, ConcatProperties
  <1>4. (<<f>> \o s)[1] = f
    BY <1>1, <1>2, <1>3
  <1>5. ASSUME NEW i \in 1 .. Len(s) PROVE (<<f>> \o s)[i + 1] = s[i]
    <2>1. i + 1 \in 1 .. 1 + Len(s) /\ ~ (i + 1 <= 1) /\ (i + 1) - 1 = i
      BY <1>2
    <2> QED
      BY <1>3, <2>1
  <1>6. <<f>> \o s # <<>>
    BY <1>2, <1>3, EmptySeq
  <1>7. Head(<<f>> \o s) = f
    BY <1>3, <1>4, <1>6
  <1> QED
    BY <1>2, <1>3, <1>4, <1>5, <1>6, <1>7

LEMMA PopFrame ==
    ASSUME NEW s \in Seq(CallFrame), s # <<>>
    PROVE  /\ Tail(s) \in Seq(CallFrame) /\ Head(s) = s[1] /\ Head(s) \in CallFrame
           /\ Len(Tail(s)) = Len(s) - 1 /\ Len(s) \in Nat \ {0}
           /\ \A i \in 1 .. Len(Tail(s)) : Tail(s)[i] = s[i + 1]
  BY HeadTailProperties, EmptySeq

-----------------------------------------------------------------------------
(* The client's members, one by one, and what a change of one leaves. *)
Made(s, p, f, r, e, o) == [state |-> s, pending_fd |-> p, fd |-> f, registered_fd |-> r,
                           events |-> e, open |-> o]

LEMMA MembersMade ==
    ASSUME NEW c \in Members
    PROVE  c = Made(c.state, c.pending_fd, c.fd, c.registered_fd, c.events, c.open)
  BY DEF Members, Made

LEMMA IdleMade == Idle = Made("Idle", NoFd, NoFd, NoFd, {}, {})
  BY DEF Idle, Made

(* The members while a descriptor is being connected, and once it is. *)
InProgress(n) == Made("Connecting", n, NoFd, n, {[fd |-> n, on |-> "write"]}, {n})
Active(n) == Made("Connected", NoFd, n, n, {[fd |-> n, on |-> "read"]}, {n})

(* What connect() and complete_connect() do to an idle client, and to one   *)
(* whose event is gone. *)
LEMMA BeginMade ==
    ASSUME NEW n
    PROVE  Register([Idle EXCEPT !.open = @ \cup {n}, !.pending_fd = n, !.state = "Connecting"], n, "write")
             = InProgress(n)
  <1>1. Idle.open \cup {n} = {n} /\ {} \cup {[fd |-> n, on |-> "write"]} = {[fd |-> n, on |-> "write"]}
    BY DEF Idle
  <1>2. [Idle EXCEPT !.open = @ \cup {n}] = Made("Idle", NoFd, NoFd, NoFd, {}, {n})
    BY <1>1 DEF Idle, Made
  <1>3. [Made("Idle", NoFd, NoFd, NoFd, {}, {n}) EXCEPT !.pending_fd = n] =
          Made("Idle", n, NoFd, NoFd, {}, {n})
    BY DEF Made
  <1>4. [Made("Idle", n, NoFd, NoFd, {}, {n}) EXCEPT !.state = "Connecting"] =
          Made("Connecting", n, NoFd, NoFd, {}, {n})
    BY DEF Made
  <1>5. [Made("Connecting", n, NoFd, NoFd, {}, {n}) EXCEPT !.registered_fd = n] =
          Made("Connecting", n, NoFd, n, {}, {n})
    BY DEF Made
  <1>6. [Made("Connecting", n, NoFd, n, {}, {n}) EXCEPT !.events = @ \cup {[fd |-> n, on |-> "write"]}] =
          InProgress(n)
    BY <1>1 DEF InProgress, Made
  <1>7. [Idle EXCEPT !.open = @ \cup {n}, !.pending_fd = n, !.state = "Connecting"] =
          Made("Connecting", n, NoFd, NoFd, {}, {n})
    BY <1>2, <1>3, <1>4
  <1>8. Register(Made("Connecting", n, NoFd, NoFd, {}, {n}), n, "write") = InProgress(n)
    BY <1>5, <1>6 DEF Register
  <1> QED
    BY <1>7, <1>8

LEMMA ActivateMade ==
    ASSUME NEW n, NEW p, NEW s
    PROVE  activate_connected_fd(Made(s, p, NoFd, NoFd, {}, {n}), n) = Active(n)
  <1>1. {} \cup {[fd |-> n, on |-> "read"]} = {[fd |-> n, on |-> "read"]}
    OBVIOUS
  <1>2. [Made(s, p, NoFd, NoFd, {}, {n}) EXCEPT !.fd = n] = Made(s, p, n, NoFd, {}, {n})
    BY DEF Made
  <1>3. [Made(s, p, n, NoFd, {}, {n}) EXCEPT !.pending_fd = NoFd] = Made(s, NoFd, n, NoFd, {}, {n})
    BY DEF Made
  <1>4. [Made(s, NoFd, n, NoFd, {}, {n}) EXCEPT !.state = "Connected"] =
          Made("Connected", NoFd, n, NoFd, {}, {n})
    BY DEF Made
  <1>5. [Made("Connected", NoFd, n, NoFd, {}, {n}) EXCEPT !.registered_fd = n] =
          Made("Connected", NoFd, n, n, {}, {n})
    BY DEF Made
  <1>6. [Made("Connected", NoFd, n, n, {}, {n}) EXCEPT !.events = @ \cup {[fd |-> n, on |-> "read"]}] =
          Active(n)
    BY <1>1 DEF Active, Made
  <1>7. [Made(s, p, NoFd, NoFd, {}, {n}) EXCEPT !.fd = n, !.pending_fd = NoFd, !.state = "Connected"] =
          Made("Connected", NoFd, n, NoFd, {}, {n})
    BY <1>2, <1>3, <1>4
  <1>8. Register(Made("Connected", NoFd, n, NoFd, {}, {n}), n, "read") = Active(n)
    BY <1>5, <1>6 DEF Register
  <1> QED
    BY <1>7, <1>8 DEF activate_connected_fd

(* close() leaves the client as it was at first, whatever it was doing; so  *)
(* the members after connect() depend on nothing that was before.           *)
LEMMA UnregisterMade ==
    ASSUME TypeOK, StateInv
    PROVE  unregister_fd(client) = Made(client.state, client.pending_fd, client.fd, NoFd, {}, client.open)
  <1>1. client = Made(client.state, client.pending_fd, client.fd, client.registered_fd, client.events, client.open)
    BY MembersMade DEF TypeOK
  <1>2. {e \in client.events : e.fd # client.registered_fd} = {}
    BY DEF TypeOK, StateInv, DescriptorsMatchState, Members
  <1>3. PICK s, p, f, r, e, o : client = Made(s, p, f, r, e, o) /\ s = client.state /\ p = client.pending_fd
                                /\ f = client.fd /\ o = client.open
    BY <1>1
  <1>4. [client EXCEPT !.registered_fd = NoFd] = Made(s, p, f, NoFd, e, o)
    BY <1>3 DEF Made
  <1>5. [Made(s, p, f, NoFd, e, o) EXCEPT !.events = {}] = Made(s, p, f, NoFd, {}, o)
    BY DEF Made
  <1>6. [client EXCEPT !.registered_fd = NoFd, !.events = {}] = Made(s, p, f, NoFd, {}, o)
    BY <1>4, <1>5
  <1>7. unregister_fd(client) = [client EXCEPT !.registered_fd = NoFd, !.events = {}]
    BY <1>2 DEF unregister_fd
  <1> QED
    BY <1>3, <1>6, <1>7

LEMMA CloseIsIdle ==
    ASSUME TypeOK, StateInv
    PROVE  close(client) = Idle
  <1>1. client.open \ {client.pending_fd, client.fd} = {}
    BY DEF StateInv, DescriptorsMatchState
  <1>2. PICK s, p, f, o : unregister_fd(client) = Made(s, p, f, NoFd, {}, o) /\ o = client.open
    BY UnregisterMade
  <1>3. unregister_fd(client).open \ {client.pending_fd, client.fd} = {}
    BY <1>1, <1>2 DEF Made
  <1>4. [Made(s, p, f, NoFd, {}, o) EXCEPT !.open = {}] = Made(s, p, f, NoFd, {}, {})
    BY DEF Made
  <1>5. [Made(s, p, f, NoFd, {}, {}) EXCEPT !.pending_fd = NoFd] = Made(s, NoFd, f, NoFd, {}, {})
    BY DEF Made
  <1>6. [Made(s, NoFd, f, NoFd, {}, {}) EXCEPT !.fd = NoFd] = Made(s, NoFd, NoFd, NoFd, {}, {})
    BY DEF Made
  <1>7. [Made(s, NoFd, NoFd, NoFd, {}, {}) EXCEPT !.state = "Idle"] = Idle
    BY DEF Idle, Made
  <1>8. close(client) = [unregister_fd(client) EXCEPT !.open = {}, !.pending_fd = NoFd, !.fd = NoFd,
                                                      !.state = "Idle"]
    BY <1>3 DEF close
  <1>9. [Made(s, p, f, NoFd, {}, o) EXCEPT !.open = {}, !.pending_fd = NoFd, !.fd = NoFd,
                                           !.state = "Idle"] = Idle
    BY <1>4, <1>5, <1>6, <1>7
  <1> QED
    BY <1>2, <1>8, <1>9

LEMMA ConnectEffects ==
    ASSUME TypeOK, StateInv, NEW n \in Attempts
    PROVE  /\ Register([close(client) EXCEPT !.open = @ \cup {n}, !.pending_fd = n,
                                             !.state = "Connecting"], n, "write") = InProgress(n)
           /\ activate_connected_fd([close(client) EXCEPT !.open = @ \cup {n}], n) = Active(n)
  <1>1. close(client) = Idle
    BY CloseIsIdle
  <1>2. Idle.open \cup {n} = {n}
    BY DEF Idle
  <1>3. [Idle EXCEPT !.open = @ \cup {n}] = Made("Idle", NoFd, NoFd, NoFd, {}, {n})
    BY <1>2 DEF Idle, Made
  <1> QED
    BY <1>1, <1>3, BeginMade, ActivateMade

LEMMA CompleteEffect ==
    ASSUME TypeOK, StateInv, NEW n \in Attempts, client.state = "Connecting", n = client.pending_fd
    PROVE  activate_connected_fd(unregister_fd(client), n) = Active(n)
  <1>1. client.fd = NoFd /\ n # NoFd
    BY DEF StateInv, DescriptorsMatchState, Attempts, NoFd
  <1>2. client.open = {n}
    BY <1>1 DEF StateInv, DescriptorsMatchState
  <1> QED
    BY <1>1, <1>2, UnregisterMade, ActivateMade

(* The members that the states allow. *)
LEMMA MembersAllowed ==
    /\ Idle \in Members
    /\ \A n \in Attempts : InProgress(n) \in Members /\ Active(n) \in Members
  BY IdleMade DEF InProgress, Active, Made, Members, Fds, NoFd

LEMMA StateKept ==
    ASSUME \/ client' = Idle
           \/ \E n \in Attempts : client' = InProgress(n) \/ client' = Active(n)
    PROVE  client' \in Members /\ StateInv'
  <1>1. \A n \in Attempts : n # NoFd
    BY DEF Attempts, NoFd
  <1>2. client' \in Members
    BY MembersAllowed
  <1>3. CASE client' = Idle
    <2>1. /\ client'.state = "Idle" /\ client'.events = {} /\ client'.open = {}
          /\ client'.pending_fd = NoFd /\ client'.fd = NoFd /\ client'.registered_fd = NoFd
      BY <1>3 DEF Idle
    <2>2. client'.open = {client'.pending_fd, client'.fd} \ {NoFd}
      BY <2>1
    <2>3. DescriptorsMatchState'
      BY <2>1, <2>2 DEF DescriptorsMatchState
    <2> QED
      BY <1>2, <2>1, <2>3 DEF StateInv
  <1>4. ASSUME NEW n \in Attempts, client' = InProgress(n) PROVE StateInv'
    BY <1>1, <1>4 DEF InProgress, Made, StateInv, DescriptorsMatchState
  <1>5. ASSUME NEW n \in Attempts, client' = Active(n) PROVE StateInv'
    BY <1>1, <1>5 DEF Active, Made, StateInv, DescriptorsMatchState
  <1> QED
    BY <1>2, <1>3, <1>4, <1>5
-----------------------------------------------------------------------------
(* The types and the descriptors of each state, however the application     *)
(* uses the client. *)
Told == [connects : Nat, ends : Nat, left : BOOLEAN]

LEMMA LeftTyping == TypeOK => Left \in [Attempts -> Told]
  BY DEF TypeOK, Left, Told

LEMMA ToldTyping ==
    ASSUME TypeOK, NEW n \in Attempts
    PROVE  /\ Ended(told, n) \in [Attempts -> Told] /\ Ended(Left, n) \in [Attempts -> Told]
           /\ Connected(told, n) \in [Attempts -> Told] /\ Connected(Left, n) \in [Attempts -> Told]
  <1>1. Left \in [Attempts -> Told]
    BY LeftTyping
  <1>2. ASSUME NEW t \in [Attempts -> Told]
        PROVE  Ended(t, n) \in [Attempts -> Told] /\ Connected(t, n) \in [Attempts -> Told]
    BY <1>2 DEF Ended, Connected, Told
  <1>3. told \in [Attempts -> Told]
    BY DEF TypeOK, Told
  <1> QED
    BY <1>1, <1>2, <1>3

Sockets == [Attempts -> [state : {"none", "connecting", "up", "failed", "ended", "reset"},
                         input : Seq(Tokens), sent : Nat]]

LEMMA ClientInit == Init => TypeOK /\ StateInv
  <1> SUFFICES ASSUME Init PROVE TypeOK /\ StateInv
    OBVIOUS
  <1>1. <<>> \in Seq(Tokens) /\ <<>> \in Seq(CallFrame)
    OBVIOUS
  <1>2. TypeOK
    BY <1>1, MembersAllowed DEF Init, TypeOK
  <1>3. StateInv
    <2>1. {NoFd, NoFd} \ {NoFd} = {}
      OBVIOUS
    <2> QED
      BY <2>1 DEF Init, Idle, StateInv, DescriptorsMatchState
  <1> QED
    BY <1>2, <1>3

LEMMA CallTyping ==
    ASSUME TypeOK, NEW at \in Callbacks \cup {"reading"}, NEW n \in Attempts, NEW closes \in BOOLEAN,
           Call(at, n, closes)
    PROVE  /\ stack' \in Seq(CallFrame) /\ stack' # <<>> /\ Len(stack') = Len(stack) + 1
           /\ Head(stack') = [at |-> at, attempt |-> n, closes |-> closes]
           /\ stack'[1] = [at |-> at, attempt |-> n, closes |-> closes]
           /\ \A i \in 1 .. Len(stack) : stack'[i + 1] = stack[i]
           /\ Len(stack) \in Nat
  <1>1. [at |-> at, attempt |-> n, closes |-> closes] \in CallFrame
    BY DEF CallFrame
  <1> QED
    BY <1>1, PushFrame DEF TypeOK, Call

LEMMA ClientStep == TypeOK /\ StateInv /\ [Next]_vars => TypeOK' /\ StateInv'
  <1> SUFFICES ASSUME TypeOK, StateInv, [Next]_vars PROVE TypeOK' /\ StateInv'
    OBVIOUS
  <1>1. \A n \in Attempts, s \in {"none", "connecting", "up", "failed", "ended", "reset"} :
          [sockets EXCEPT ![n].state = s] \in Sockets
    BY DEF TypeOK, Sockets
  <1>2. ASSUME client' = client PROVE client' \in Members /\ StateInv'
    BY <1>2 DEF TypeOK, StateInv, DescriptorsMatchState
  <1>3. ASSUME client' = close(client) PROVE client' \in Members /\ StateInv'
    BY <1>3, CloseIsIdle, StateKept
  <1>4. ASSUME NEW n \in Attempts, ConnectFails(n) PROVE TypeOK' /\ StateInv'
    <2>1. stack' \in Seq(CallFrame) /\ sockets' \in Sockets /\ told' \in [Attempts -> Told]
      BY <1>1, <1>4, CallTyping, ToldTyping DEF ConnectFails, Callbacks
    <2> QED
      BY <1>3, <1>4, <2>1 DEF ConnectFails, TypeOK, Sockets, Told
  <1>5. ASSUME NEW n \in Attempts, ConnectInProgress(n) PROVE TypeOK' /\ StateInv'
    <2>1. sockets' \in Sockets /\ told' \in [Attempts -> Told]
      BY <1>1, <1>5, LeftTyping DEF ConnectInProgress
    <2>2. client' \in Members /\ StateInv'
      BY <1>5, ConnectEffects, StateKept DEF ConnectInProgress
    <2> QED
      BY <1>5, <2>1, <2>2 DEF ConnectInProgress, TypeOK, Sockets, Told
  <1>6. ASSUME NEW n \in Attempts, ConnectAtOnce(n) PROVE TypeOK' /\ StateInv'
    <2>1. stack' \in Seq(CallFrame) /\ sockets' \in Sockets /\ told' \in [Attempts -> Told]
      BY <1>1, <1>6, CallTyping, ToldTyping DEF ConnectAtOnce, Callbacks
    <2>2. client' \in Members /\ StateInv'
      BY <1>6, ConnectEffects, StateKept DEF ConnectAtOnce
    <2> QED
      BY <1>6, <2>1, <2>2 DEF ConnectAtOnce, TypeOK, Sockets, Told
  <1>7. CASE Close
    BY <1>3, <1>7, LeftTyping DEF Close, TypeOK, Told
  <1>8. CASE CloseConnection
    <2>1. client \in Members /\ client.fd # NoFd
      BY <1>8 DEF CloseConnection, connection_valid, TypeOK
    <2>2. client.pending_fd = NoFd /\ client.state = "Connected" /\ client.open = {client.fd}
      BY <2>1 DEF StateInv, DescriptorsMatchState, Members
    <2>3. /\ client'.state = "Connected" /\ client'.pending_fd = NoFd /\ client'.fd = NoFd
          /\ client'.registered_fd = client.registered_fd /\ client'.events = client.events
          /\ client'.open = {} /\ client' \in Members
      <3>1. client.open \ {client.fd} = {}
        BY <2>2
      <3>2. client' = [client EXCEPT !.open = {}, !.fd = NoFd]
        BY <1>8, <3>1 DEF CloseConnection
      <3> QED
        BY <2>1, <2>2, <3>2 DEF Members, Fds
    <2>4. StateInv'
      BY <2>2, <2>3 DEF StateInv, DescriptorsMatchState
    <2> QED
      BY <1>8, <2>3, <2>4, LeftTyping DEF CloseConnection, TypeOK, Told
  <1>9. ASSUME NEW n \in Attempts, PollConnects(n) PROVE TypeOK' /\ StateInv'
    <2>1. stack' \in Seq(CallFrame) /\ told' \in [Attempts -> Told]
      BY <1>9, CallTyping, ToldTyping DEF PollConnects, Callbacks
    <2>2. client' \in Members /\ StateInv'
      BY <1>9, CompleteEffect, StateKept DEF PollConnects
    <2> QED
      BY <1>9, <2>1, <2>2 DEF PollConnects, TypeOK, Told
  <1>10. ASSUME NEW n \in Attempts, PollRefused(n) PROVE TypeOK' /\ StateInv'
    <2>1. stack' \in Seq(CallFrame) /\ told' \in [Attempts -> Told]
      BY <1>10, CallTyping, ToldTyping DEF PollRefused, Callbacks
    <2> QED
      BY <1>3, <1>10, <2>1 DEF PollRefused, TypeOK, Told
  <1>11. ASSUME NEW n \in Attempts, PollFailed(n) PROVE TypeOK' /\ StateInv'
    <2>1. stack' \in Seq(CallFrame) /\ told' \in [Attempts -> Told]
      BY <1>11, CallTyping, ToldTyping DEF PollFailed, Callbacks
    <2> QED
      BY <1>2, <1>11, <2>1 DEF PollFailed, TypeOK, Told
  <1>12. ASSUME NEW n \in Attempts, PollReadable(n) PROVE TypeOK' /\ StateInv'
    <2>1. stack' \in Seq(CallFrame)
      BY <1>12, CallTyping DEF PollReadable
    <2> QED
      BY <1>2, <1>12, <2>1 DEF PollReadable, TypeOK
  <1>13. ASSUME NEW n \in Attempts, NEW at \in {"on_close", "on_error"}, PollEnded(n, at)
         PROVE  TypeOK' /\ StateInv'
    <2>1. stack' \in Seq(CallFrame) /\ told' \in [Attempts -> Told]
      BY <1>13, CallTyping, ToldTyping DEF PollEnded, Callbacks
    <2> QED
      BY <1>2, <1>13, <2>1 DEF PollEnded, TypeOK, Told
  <1>14. ASSUME readable PROVE /\ client.fd \in Attempts
                               /\ [sockets EXCEPT ![client.fd].input = Tail(@)] \in Sockets
    <2>1. client.fd \in Attempts /\ sockets[client.fd].input # <<>>
      BY <1>14 DEF readable, connection_valid, TypeOK, Members, Fds
    <2>2. Tail(sockets[client.fd].input) \in Seq(Tokens)
      BY <2>1 DEF TypeOK
    <2> QED
      BY <2>1, <2>2 DEF TypeOK, Sockets
  <1>15. CASE BufferBytes
    <2>1. sockets' \in Sockets
      BY <1>14, <1>15 DEF BufferBytes, Take
    <2>2. reader' \in [bound : BOOLEAN, size : Nat]
      <3>1. PICK size \in {reader.size + 1, 0} : reader' = [reader EXCEPT !.size = size]
        BY <1>15 DEF BufferBytes
      <3>2. size \in Nat
        BY <3>1 DEF TypeOK
      <3> QED
        BY <3>1, <3>2 DEF TypeOK
    <2> QED
      BY <1>2, <1>15, <2>1, <2>2 DEF BufferBytes, TypeOK, Sockets
  <1>16. CASE EmitLine
    <2>1. client.fd \in Attempts /\ sockets' \in Sockets
      BY <1>14, <1>16 DEF EmitLine, Take
    <2>2. stack' \in Seq(CallFrame)
      BY <1>16, <2>1, CallTyping DEF EmitLine, Callbacks
    <2> QED
      BY <1>2, <1>16, <2>1, <2>2 DEF EmitLine, TypeOK, Sockets
  <1>17. CASE ReadingEnds
    BY <1>2, <1>17, PopFrame DEF ReadingEnds, Running, TypeOK
  <1>18. CASE CallbackReturns
    <2>1. stack' \in Seq(CallFrame)
      BY <1>18, PopFrame DEF CallbackReturns, TypeOK
    <2>2. client' \in Members /\ StateInv'
      BY <1>2, <1>3, <1>18 DEF CallbackReturns
    <2>3. reader' \in [bound : BOOLEAN, size : Nat]
      BY <1>18 DEF CallbackReturns, TypeOK
    <2> QED
      BY <1>18, <2>1, <2>2, <2>3 DEF CallbackReturns, TypeOK
  <1>19. ASSUME NEW n \in Attempts, ConnectResolves(n) \/ PeerEnds(n) PROVE TypeOK' /\ StateInv'
    <2>1. sockets' \in Sockets
      BY <1>1, <1>19 DEF ConnectResolves, PeerEnds
    <2> QED
      BY <1>2, <1>19, <2>1 DEF ConnectResolves, PeerEnds, TypeOK, Sockets
  <1>20. ASSUME NEW n \in Attempts, PeerSends(n) PROVE TypeOK' /\ StateInv'
    <2>1. PICK t \in Tokens : sockets' = [sockets EXCEPT ![n].input = Append(@, t), ![n].sent = @ + 1]
      BY <1>20 DEF PeerSends, Tokens
    <2>2. Append(sockets[n].input, t) \in Seq(Tokens) /\ sockets[n].sent + 1 \in Nat
      BY AppendProperties DEF TypeOK
    <2>3. sockets' \in Sockets
      BY <2>1, <2>2 DEF TypeOK, Sockets
    <2> QED
      BY <1>2, <1>20, <2>3 DEF PeerSends, TypeOK, Sockets
  <1>21. CASE UNCHANGED vars
    BY <1>2, <1>21 DEF vars, TypeOK
  <1> QED
    BY <1>4, <1>5, <1>6, <1>7, <1>8, <1>9, <1>10, <1>11, <1>12, <1>13, <1>15, <1>16, <1>17, <1>18,
       <1>19, <1>20, <1>21
    DEF Next, Poll, Continue
-----------------------------------------------------------------------------
(* The callbacks in progress. *)
Ends == {"on_close", "on_error"}

LEMMA Pushed ==
    ASSUME TypeOK, StackInv, NEW at \in Callbacks \cup {"reading"}, NEW n \in Attempts,
           NEW closes \in BOOLEAN, Call(at, n, closes),
           \A i \in 1 .. Len(stack) : stack[i].at \notin Ends,
           closes => stack = <<>> /\ at \in Ends,
           at \in Ends => closes \/ client'.open = {}
    PROVE  StackInv' /\ (Closing' <=> closes)
  <1>1. /\ stack' # <<>> /\ Len(stack') = Len(stack) + 1 /\ Len(stack) \in Nat
        /\ Head(stack') = [at |-> at, attempt |-> n, closes |-> closes]
        /\ stack'[1] = [at |-> at, attempt |-> n, closes |-> closes]
        /\ \A i \in 1 .. Len(stack) : stack'[i + 1] = stack[i]
    BY CallTyping
  <1>2. Closing' <=> closes
    BY <1>1 DEF Closing, Top
  <1>3. ASSUME NEW i \in 1 .. Len(stack')
        PROVE  /\ stack'[i].at \in Ends => i = 1
               /\ stack'[i].closes => Len(stack') = 1 /\ stack'[i].at \in Ends
    <2>1. CASE i = 1
      <3>1. closes => Len(stack') = 1
        BY <1>1 DEF Ends
      <3> QED
        BY <1>1, <2>1, <3>1
    <2>2. CASE i # 1
      <3>1. i - 1 \in 1 .. Len(stack) /\ (i - 1) + 1 = i
        BY <1>1, <1>3, <2>2
      <3>2. stack'[i] = stack[i - 1]
        BY <1>1, <3>1
      <3> QED
        BY <3>1, <3>2 DEF StackInv, Ends
    <2> QED
      BY <2>1, <2>2
  <1>4. Running("on_close")' \/ Running("on_error")' => closes \/ client'.open = {}
    BY <1>1 DEF Running, Top, Ends
  <1> QED
    BY <1>1, <1>2, <1>3, <1>4 DEF StackInv, Ends, Top

LEMMA Popped ==
    ASSUME TypeOK, StackInv, stack # <<>>, stack' = Tail(stack)
    PROVE  StackInv' /\ ~ Closing'
  <1>1. /\ Len(stack') = Len(stack) - 1 /\ Len(stack) \in Nat \ {0} /\ stack' \in Seq(CallFrame)
        /\ \A i \in 1 .. Len(stack') : stack'[i] = stack[i + 1]
    BY PopFrame DEF TypeOK
  <1>2. \A i \in 1 .. Len(stack') : stack'[i].at \notin Ends /\ ~ stack'[i].closes
    <2>1. ASSUME NEW i \in 1 .. Len(stack') PROVE stack'[i].at \notin Ends /\ ~ stack'[i].closes
      <3>1. i + 1 \in 1 .. Len(stack) /\ i + 1 # 1
        BY <1>1
      <3> QED
        BY <1>1, <3>1 DEF StackInv, Ends
    <2> QED
      BY <2>1
  <1>3. stack' # <<>> => Head(stack') = stack'[1] /\ 1 \in 1 .. Len(stack')
    BY <1>1, PopFrame
  <1> QED
    BY <1>2, <1>3 DEF StackInv, Closing, Running, Top, Ends

(* A callback may begin where no end is being told. *)
LEMMA NoEndRuns ==
    ASSUME TypeOK, StackInv
    PROVE  /\ stack = <<>> => \A i \in 1 .. Len(stack) : stack[i].at \notin Ends
           /\ Running("reading") => \A i \in 1 .. Len(stack) : stack[i].at \notin Ends
           /\ (\A i \in 1 .. Len(stack) : stack[i].at \notin Ends) => ~ Closing
           /\ Closing => Running("on_close") \/ Running("on_error")
  <1>1. stack = <<>> => Len(stack) = 0
    OBVIOUS
  <1>2. stack # <<>> => Head(stack) = stack[1] /\ 1 \in 1 .. Len(stack)
    BY PopFrame DEF TypeOK
  <1> QED
    BY <1>1, <1>2 DEF StackInv, Running, Closing, Top, Ends

-----------------------------------------------------------------------------
(* What the application has heard. *)
LEMMA LeftEffect ==
    ASSUME TypeOK, NEW m \in Attempts
    PROVE  /\ Left[m].ends = told[m].ends /\ Left[m].connects = told[m].connects
           /\ Left[m].left <=> told[m].left \/ m \in client.open
           /\ Left[m] \in Told
  BY DEF TypeOK, Left, Told

LEMMA HeardEffect ==
    ASSUME NEW t \in [Attempts -> Told], NEW n \in Attempts, NEW m \in Attempts
    PROVE  /\ Ended(t, n)[m].ends = IF m = n THEN t[m].ends + 1 ELSE t[m].ends
           /\ Ended(t, n)[m].connects = t[m].connects /\ (Ended(t, n)[m].left <=> t[m].left)
           /\ Connected(t, n)[m].connects = IF m = n THEN t[m].connects + 1 ELSE t[m].connects
           /\ Connected(t, n)[m].ends = t[m].ends /\ (Connected(t, n)[m].left <=> t[m].left)
  BY DEF Ended, Connected, Told

(* The one descriptor that is open. *)
LEMMA OneOpen ==
    ASSUME TypeOK, StateInv
    PROVE  /\ \A n \in Attempts : n \in client.open <=> n = client.pending_fd \/ n = client.fd
           /\ \A m, n \in client.open : m = n
           /\ client.open = {} <=> client.pending_fd = NoFd /\ client.fd = NoFd
           /\ client.open \subseteq Attempts
  <1>1. \A n \in Attempts : n # NoFd
    BY DEF Attempts, NoFd
  <1>2. client.open \subseteq Attempts
    BY DEF TypeOK, Members
  <1> QED
    BY <1>1, <1>2 DEF StateInv, DescriptorsMatchState

(* An attempt whose descriptor is given up has been left or has ended. *)
LEMMA GivenUp ==
    ASSUME TypeOK, StateInv, NEW m \in Attempts, AttemptAgrees(m),
           client'.open = {}, sockets'[m].state = "none" <=> sockets[m].state = "none",
           told'[m].ends = told[m].ends, told'[m].connects = told[m].connects,
           told'[m].left <=> told[m].left \/ m \in client.open
    PROVE  AttemptAgrees(m)'
  <1>1. told[m].ends \in Nat /\ told[m].connects \in Nat
    BY DEF TypeOK
  <1> QED
    BY <1>1 DEF AttemptAgrees

(* connect(): it begins where no end is being told, and gives up what was   *)
(* under way. *)
LEMMA ConnectStep ==
    ASSUME ClientInv, TypeOK', StateInv', AppUse = "careful", NEW n \in Attempts,
           ConnectFails(n) \/ ConnectInProgress(n) \/ ConnectAtOnce(n)
    PROVE  StackInv' /\ (\A m \in Attempts : AttemptAgrees(m)') /\ (connection_valid' => reader'.bound)
  <1>1. /\ TypeOK /\ StateInv /\ StackInv /\ close(client) = Idle /\ MayConnect(n)
    BY CloseIsIdle DEF ClientInv, ConnectFails, ConnectInProgress, ConnectAtOnce
  <1>2. \A i \in 1 .. Len(stack) : stack[i].at \notin Ends
    BY <1>1 DEF MayConnect, Ends
  <1>3. ~ Closing /\ ~ Running("on_close") /\ ~ Running("on_error")
    <2>1. stack # <<>> => Head(stack) = stack[1] /\ 1 \in 1 .. Len(stack)
      BY <1>1, PopFrame DEF TypeOK
    <2> QED
      BY <1>1, <1>2, <2>1, NoEndRuns DEF Running, Top, Ends
  <1>4. /\ sockets[n].state = "none" /\ n \notin client.open
        /\ told[n].ends = 0 /\ told[n].connects = 0 /\ ~ told[n].left
    BY <1>1 DEF MayConnect, ClientInv, AttemptAgrees
  <1>5. /\ Left[n].ends = 0 /\ Left[n].connects = 0 /\ ~ Left[n].left
        /\ \A m \in Attempts : /\ Left[m].ends = told[m].ends /\ Left[m].connects = told[m].connects
                               /\ Left[m].left <=> told[m].left \/ m \in client.open
    BY <1>1, <1>4, LeftEffect
  <1>6. Left \in [Attempts -> Told]
    BY <1>1, LeftTyping
  <1>7. /\ \A m \in Attempts : m # n => sockets'[m] = sockets[m]
        /\ sockets'[n].state # "none"
    <2>1. PICK s \in {"failed", "connecting", "up"} : sockets' = [sockets EXCEPT ![n].state = s]
      BY DEF ConnectFails, ConnectInProgress, ConnectAtOnce
    <2> QED
      BY <1>1, <2>1 DEF TypeOK
  <1>8. ASSUME NEW m \in Attempts, m # n, m \notin client'.open,
               told'[m].ends = Left[m].ends, told'[m].connects = Left[m].connects,
               told'[m].left <=> Left[m].left
        PROVE  AttemptAgrees(m)'
    <2>1. AttemptAgrees(m) /\ told[m].ends \in Nat /\ told[m].connects \in Nat
      BY <1>1 DEF ClientInv, TypeOK
    <2> QED
      BY <1>5, <1>7, <1>8, <2>1 DEF AttemptAgrees
  <1>9. CASE ConnectFails(n)
    <2>1. client' = Idle /\ told' = Ended(Left, n) /\ Call("on_error", n, FALSE)
      BY <1>1, <1>9 DEF ConnectFails
    <2>2. client'.open = {} /\ client'.fd = NoFd
      BY <2>1 DEF Idle
    <2>3. StackInv'
      BY <1>1, <1>2, <2>1, <2>2, Pushed DEF Callbacks
    <2>4. /\ told'[n].ends = 1 /\ told'[n].connects = 0 /\ ~ told'[n].left
          /\ \A m \in Attempts \ {n} : /\ told'[m].ends = Left[m].ends /\ told'[m].connects = Left[m].connects
                                       /\ told'[m].left <=> Left[m].left
      BY <1>5, <1>6, <2>1, HeardEffect
    <2>5. AttemptAgrees(n)'
      BY <1>7, <2>2, <2>4 DEF AttemptAgrees
    <2>6. \A m \in Attempts : AttemptAgrees(m)'
      BY <1>8, <2>2, <2>4, <2>5
    <2> QED
      BY <2>2, <2>3, <2>6 DEF connection_valid
  <1>10. CASE ConnectInProgress(n)
    <2>1. client' = InProgress(n) /\ told' = Left /\ stack' = stack /\ reader' = reader
      BY <1>1, <1>10, ConnectEffects DEF ConnectInProgress
    <2>2. client'.open = {n} /\ client'.fd = NoFd /\ client'.pending_fd = n
      BY <2>1 DEF InProgress, Made
    <2>3. StackInv' /\ ~ Closing'
      BY <1>1, <1>3, <2>1 DEF StackInv, Closing, Running, Top
    <2>4. AttemptAgrees(n)'
      BY <1>5, <1>7, <2>1, <2>2, <2>3 DEF AttemptAgrees
    <2>5. \A m \in Attempts : AttemptAgrees(m)'
      BY <1>8, <2>1, <2>2, <2>4
    <2> QED
      BY <2>2, <2>3, <2>5 DEF connection_valid
  <1>11. CASE ConnectAtOnce(n)
    <2>1. /\ client' = Active(n) /\ told' = Connected(Left, n) /\ Call("on_connect", n, FALSE)
          /\ reader'.bound
      BY <1>1, <1>11, ConnectEffects DEF ConnectAtOnce, TypeOK
    <2>2. client'.open = {n} /\ client'.pending_fd = NoFd /\ n # NoFd
      BY <2>1 DEF Active, Made, Attempts, NoFd
    <2>3. StackInv' /\ ~ Closing'
      BY <1>1, <1>2, <2>1, Pushed DEF Callbacks, Ends
    <2>4. /\ told'[n].connects = 1 /\ told'[n].ends = 0 /\ ~ told'[n].left
          /\ \A m \in Attempts \ {n} : /\ told'[m].ends = Left[m].ends /\ told'[m].connects = Left[m].connects
                                       /\ told'[m].left <=> Left[m].left
      BY <1>5, <1>6, <2>1, HeardEffect
    <2>5. AttemptAgrees(n)'
      BY <1>7, <2>2, <2>3, <2>4 DEF AttemptAgrees
    <2>6. \A m \in Attempts : AttemptAgrees(m)'
      BY <1>8, <2>2, <2>4, <2>5
    <2> QED
      BY <2>1, <2>3, <2>6
  <1> QED
    BY <1>9, <1>10, <1>11

(* poll(): a callback begins when none is in progress. *)
LEMMA PollStep ==
    ASSUME ClientInv, TypeOK', StateInv', NEW n \in Attempts, Poll(n)
    PROVE  StackInv' /\ (\A m \in Attempts : AttemptAgrees(m)') /\ (connection_valid' => reader'.bound)
  <1>1. TypeOK /\ StateInv /\ StackInv /\ close(client) = Idle
    BY CloseIsIdle DEF ClientInv
  <1>2. /\ stack = <<>> /\ n \in client.open /\ \A m \in client.open : m = n
        /\ sockets' = sockets
    BY <1>1, OneOpen DEF Poll, Polled, PollConnects, PollRefused, PollFailed, PollReadable, PollEnded
  <1>3. (\A i \in 1 .. Len(stack) : stack[i].at \notin Ends) /\ ~ Closing
    BY <1>1, <1>2, NoEndRuns
  <1>4. /\ sockets[n].state # "none" /\ ~ told[n].left /\ told[n].ends = 0
        /\ told[n].connects = IF client.pending_fd = n THEN 0 ELSE 1
    BY <1>2, <1>3 DEF ClientInv, AttemptAgrees
  <1>5. told \in [Attempts -> Told]
    BY <1>1 DEF TypeOK, Told
  <1>6. ASSUME NEW m \in Attempts, m # n, m \notin client'.open, told'[m].ends = told[m].ends,
               told'[m].connects = told[m].connects, told'[m].left <=> told[m].left
        PROVE  AttemptAgrees(m)'
    <2>1. AttemptAgrees(m) /\ m \notin client.open
      BY <1>2, <1>6 DEF ClientInv
    <2> QED
      BY <1>2, <1>6, <2>1 DEF AttemptAgrees
  <1>7. ASSUME told' = Ended(told, n)
        PROVE  /\ told'[n].ends = 1 /\ told'[n].connects = told[n].connects /\ ~ told'[n].left
               /\ \A m \in Attempts \ {n} : /\ told'[m].ends = told[m].ends /\ told'[m].connects = told[m].connects
                                            /\ told'[m].left <=> told[m].left
    BY <1>4, <1>5, <1>7, HeardEffect
  <1>8. ASSUME client' = client, reader' = reader, told' = Ended(told, n),
               NEW at \in Ends, Call(at, n, TRUE)
        PROVE  StackInv' /\ (\A m \in Attempts : AttemptAgrees(m)') /\ (connection_valid' => reader'.bound)
    <2>1. StackInv' /\ Closing'
      BY <1>1, <1>2, <1>3, <1>8, Pushed DEF Ends, Callbacks
    <2>2. AttemptAgrees(n)'
      BY <1>2, <1>4, <1>7, <1>8, <2>1 DEF AttemptAgrees
    <2>3. \A m \in Attempts : AttemptAgrees(m)'
      BY <1>2, <1>6, <1>7, <1>8, <2>2
    <2> QED
      BY <1>8, <2>1, <2>3 DEF ClientInv, connection_valid
  <1>9. CASE PollConnects(n)
    <2>1. /\ client' = Active(n) /\ told' = Connected(told, n) /\ Call("on_connect", n, FALSE)
          /\ reader'.bound /\ client.pending_fd = n
      BY <1>1, <1>9, CompleteEffect DEF PollConnects, TypeOK
    <2>2. client'.open = {n} /\ client'.pending_fd = NoFd /\ n # NoFd
      BY <2>1 DEF Active, Made, Attempts, NoFd
    <2>3. StackInv' /\ ~ Closing'
      BY <1>1, <1>3, <2>1, Pushed DEF Callbacks, Ends
    <2>4. /\ told'[n].connects = 1 /\ told'[n].ends = 0 /\ ~ told'[n].left
          /\ \A m \in Attempts \ {n} : /\ told'[m].ends = told[m].ends /\ told'[m].connects = told[m].connects
                                       /\ told'[m].left <=> told[m].left
      BY <1>4, <1>5, <2>1, HeardEffect
    <2>5. AttemptAgrees(n)'
      BY <1>2, <1>4, <2>2, <2>3, <2>4 DEF AttemptAgrees
    <2>6. \A m \in Attempts : AttemptAgrees(m)'
      BY <1>6, <2>2, <2>4, <2>5
    <2> QED
      BY <2>1, <2>3, <2>6
  <1>10. CASE PollRefused(n)
    <2>1. client' = Idle /\ told' = Ended(told, n) /\ Call("on_error", n, FALSE)
      BY <1>1, <1>10 DEF PollRefused
    <2>2. client'.open = {} /\ client'.fd = NoFd
      BY <2>1 DEF Idle
    <2>3. StackInv'
      BY <1>1, <1>3, <2>1, <2>2, Pushed DEF Callbacks
    <2>4. AttemptAgrees(n)'
      <3>1. told[n].connects <= 1
        BY <1>4
      <3> QED
        BY <1>2, <1>4, <1>7, <2>1, <2>2, <3>1 DEF AttemptAgrees
    <2>5. \A m \in Attempts : AttemptAgrees(m)'
      BY <1>6, <1>7, <2>1, <2>2, <2>4
    <2> QED
      BY <2>2, <2>3, <2>5 DEF connection_valid
  <1>11. CASE PollFailed(n)
    BY <1>8, <1>11 DEF PollFailed, Ends
  <1>12. CASE PollReadable(n)
    <2>1. StackInv' /\ ~ Closing'
      BY <1>1, <1>3, <1>12, Pushed DEF PollReadable, Ends
    <2>2. \A m \in Attempts : AttemptAgrees(m)'
      BY <1>3, <1>12, <2>1 DEF PollReadable, ClientInv, AttemptAgrees
    <2> QED
      BY <1>12, <2>1, <2>2 DEF PollReadable, ClientInv, connection_valid
  <1>13. CASE \E at \in Ends : PollEnded(n, at)
    BY <1>8, <1>13 DEF PollEnded
  <1> QED
    BY <1>9, <1>10, <1>11, <1>12, <1>13 DEF Poll, Ends

(* Everything else: the application closes, a callback proceeds or returns, *)
(* the peer acts. *)
LEMMA OtherStep ==
    ASSUME ClientInv, TypeOK', StateInv',
           \/ Close \/ CloseConnection \/ Continue
           \/ \E n \in Attempts : ConnectResolves(n) \/ PeerSends(n) \/ PeerEnds(n)
           \/ UNCHANGED vars
    PROVE  StackInv' /\ (\A m \in Attempts : AttemptAgrees(m)') /\ (connection_valid' => reader'.bound)
  <1>1. TypeOK /\ StateInv /\ StackInv /\ close(client) = Idle
    BY CloseIsIdle DEF ClientInv
  <1>2. ASSUME client' = client, stack' = stack, reader'.bound <=> reader.bound, told' = told,
               \A m \in Attempts : sockets'[m].state = "none" <=> sockets[m].state = "none"
        PROVE  StackInv' /\ (\A m \in Attempts : AttemptAgrees(m)') /\ (connection_valid' => reader'.bound)
    <2>1. StackInv' /\ (Closing' <=> Closing)
      BY <1>1, <1>2 DEF StackInv, Closing, Running, Top
    <2>2. \A m \in Attempts : AttemptAgrees(m)'
      BY <1>2, <2>1 DEF ClientInv, AttemptAgrees
    <2> QED
      BY <1>2, <2>1, <2>2 DEF ClientInv, connection_valid
  <1>3. CASE Close \/ CloseConnection
    <2>1. client'.open = {} /\ told' = Left /\ UNCHANGED <<reader, stack, sockets>>
      <3>1. CASE Close
        BY <1>1, <3>1 DEF Close, Idle
      <3>2. CASE CloseConnection
        <4>1. client.open \ {client.fd} = {}
          BY <1>1, <3>2 DEF CloseConnection, connection_valid, StateInv, DescriptorsMatchState
        <4> QED
          BY <1>1, <3>2, <4>1 DEF CloseConnection, TypeOK, Members
      <3> QED
        BY <1>3, <3>1, <3>2
    <2>2. StackInv'
      BY <1>1, <2>1 DEF StackInv, Running, Top
    <2>3. \A m \in Attempts : AttemptAgrees(m)'
      BY <1>1, <2>1, LeftEffect, GivenUp DEF ClientInv
    <2>4. ~ connection_valid'
      BY <2>1 DEF StateInv, DescriptorsMatchState, connection_valid
    <2> QED
      BY <2>2, <2>3, <2>4
  <1>4. CASE BufferBytes
    <2>1. /\ client' = client /\ stack' = stack /\ told' = told /\ (reader'.bound <=> reader.bound)
          /\ client.fd \in Attempts /\ sockets' = [sockets EXCEPT ![client.fd].input = Tail(@)]
      BY <1>1, <1>4 DEF BufferBytes, Take, readable, connection_valid, TypeOK, Members, Fds
    <2>2. \A m \in Attempts : sockets'[m].state = sockets[m].state
      BY <1>1, <2>1 DEF TypeOK
    <2> QED
      BY <1>2, <2>1, <2>2
  <1>5. CASE EmitLine
    <2>1. /\ client' = client /\ reader' = reader /\ told' = told /\ Running("reading")
          /\ Call("on_line", client.fd, FALSE)
          /\ client.fd \in Attempts /\ sockets' = [sockets EXCEPT ![client.fd].input = Tail(@)]
      BY <1>1, <1>5 DEF EmitLine, Take, readable, connection_valid, TypeOK, Members, Fds
    <2>2. PICK n \in Attempts : n = client.fd
      BY <2>1
    <2>3. StackInv' /\ ~ Closing' /\ ~ Closing
      BY <1>1, <2>1, <2>2, NoEndRuns, Pushed DEF Callbacks, Ends
    <2>4. \A m \in Attempts : sockets'[m].state = sockets[m].state
      BY <1>1, <2>1 DEF TypeOK
    <2>5. \A m \in Attempts : AttemptAgrees(m)'
      BY <2>1, <2>3, <2>4 DEF ClientInv, AttemptAgrees
    <2> QED
      BY <2>1, <2>3, <2>5 DEF ClientInv, connection_valid
  <1>6. CASE ReadingEnds
    <2>1. StackInv' /\ ~ Closing'
      BY <1>1, <1>6, Popped DEF ReadingEnds, Running
    <2>2. ~ Closing
      BY <1>1, <1>6, NoEndRuns DEF ReadingEnds, Running
    <2>3. \A m \in Attempts : AttemptAgrees(m)'
      BY <1>6, <2>1, <2>2 DEF ReadingEnds, ClientInv, AttemptAgrees
    <2> QED
      BY <1>6, <2>1, <2>3 DEF ReadingEnds, ClientInv, connection_valid
  <1>7. CASE CallbackReturns
    <2>1. StackInv' /\ ~ Closing' /\ told' = told /\ sockets' = sockets
      BY <1>1, <1>7, Popped DEF CallbackReturns
    <2>2. CASE Closing
      <3>1. client' = Idle
        BY <1>1, <1>7, <2>2 DEF CallbackReturns, Closing
      <3>2. client'.open = {} /\ ~ connection_valid'
        BY <3>1 DEF Idle, connection_valid
      <3>3. \A m \in Attempts : AttemptAgrees(m)'
        BY <2>1, <2>2, <3>2 DEF ClientInv, AttemptAgrees
      <3> QED
        BY <2>1, <3>2, <3>3
    <2>3. CASE ~ Closing
      <3>1. client' = client
        BY <1>7, <2>3 DEF CallbackReturns, Closing
      <3>2. \A m \in Attempts : AttemptAgrees(m)'
        BY <2>1, <2>3, <3>1 DEF ClientInv, AttemptAgrees
      <3>3. connection_valid => Top.at \notin Ends
        <4>1. connection_valid => client.open # {}
          BY <1>1, OneOpen DEF connection_valid
        <4> QED
          BY <1>1, <1>7, <2>3, <4>1 DEF CallbackReturns, StackInv, Running, Closing, Ends
      <3>4. connection_valid' => reader'.bound
        BY <1>1, <1>7, <3>1, <3>3 DEF CallbackReturns, ClientInv, TypeOK, connection_valid, Ends
      <3> QED
        BY <2>1, <3>2, <3>4
    <2> QED
      BY <2>2, <2>3
  <1>8. ASSUME NEW n \in Attempts, ConnectResolves(n) \/ PeerSends(n) \/ PeerEnds(n)
        PROVE  StackInv' /\ (\A m \in Attempts : AttemptAgrees(m)') /\ (connection_valid' => reader'.bound)
    <2>1. sockets[n].state # "none" /\ sockets'[n].state # "none"
      BY <1>1, <1>8 DEF ConnectResolves, PeerSends, PeerEnds, TypeOK
    <2>2. \A m \in Attempts : m # n => sockets'[m] = sockets[m]
      BY <1>1, <1>8 DEF ConnectResolves, PeerSends, PeerEnds, TypeOK
    <2> QED
      BY <1>2, <1>8, <2>1, <2>2 DEF ConnectResolves, PeerSends, PeerEnds
  <1>9. CASE UNCHANGED vars
    BY <1>2, <1>9 DEF vars
  <1> QED
    BY <1>3, <1>4, <1>5, <1>6, <1>7, <1>8, <1>9 DEF Continue

-----------------------------------------------------------------------------
LEMMA ClientInvInit == Init => ClientInv
  <1> SUFFICES ASSUME Init PROVE ClientInv
    OBVIOUS
  <1>1. TypeOK /\ StateInv
    BY ClientInit
  <1>2. /\ Len(stack) = 0 /\ stack = <<>> /\ client.open = {} /\ client.fd = NoFd
        /\ \A n \in Attempts : /\ sockets[n].state = "none" /\ told[n].ends = 0
                               /\ told[n].connects = 0 /\ ~ told[n].left
    BY DEF Init, Idle
  <1> QED
    BY <1>1, <1>2 DEF ClientInv, StackInv, Running, AttemptAgrees, connection_valid

LEMMA ClientInvStep == AppUse = "careful" /\ ClientInv /\ [Next]_vars => ClientInv'
  <1> SUFFICES ASSUME AppUse = "careful", ClientInv, [Next]_vars PROVE ClientInv'
    OBVIOUS
  <1>1. TypeOK' /\ StateInv'
    BY ClientStep DEF ClientInv
  <1>2. StackInv' /\ (\A m \in Attempts : AttemptAgrees(m)') /\ (connection_valid' => reader'.bound)
    <2>1. ASSUME NEW n \in Attempts, ConnectFails(n) \/ ConnectInProgress(n) \/ ConnectAtOnce(n)
          PROVE  StackInv' /\ (\A m \in Attempts : AttemptAgrees(m)') /\ (connection_valid' => reader'.bound)
      BY <1>1, <2>1, ConnectStep
    <2>2. ASSUME NEW n \in Attempts, Poll(n)
          PROVE  StackInv' /\ (\A m \in Attempts : AttemptAgrees(m)') /\ (connection_valid' => reader'.bound)
      BY <1>1, <2>2, PollStep
    <2>3. CASE \/ Close \/ CloseConnection \/ Continue
               \/ \E n \in Attempts : ConnectResolves(n) \/ PeerSends(n) \/ PeerEnds(n)
               \/ UNCHANGED vars
      BY <1>1, <2>3, OtherStep
    <2> QED
      BY <2>1, <2>2, <2>3 DEF Next
  <1> QED
    BY <1>1, <1>2 DEF ClientInv

(* The types: a descriptor is always one of an attempt that was begun.      *)
THEOREM ClientTypeCorrect == Spec => []TypeOK
  <1>1. Init => TypeOK /\ StateInv
    BY ClientInit
  <1>2. TypeOK /\ StateInv /\ [Next]_vars => (TypeOK /\ StateInv)'
    BY ClientStep
  <1> QED
    BY <1>1, <1>2, PTL DEF Spec

(* However connect() and close() are called and nested, no descriptor is    *)
(* leaked and the loop watches the one that is under way.                   *)
THEOREM ClientDescriptors == Spec => []DescriptorsMatchState
  <1>1. Init => TypeOK /\ StateInv
    BY ClientInit
  <1>2. TypeOK /\ StateInv /\ [Next]_vars => (TypeOK /\ StateInv)'
    BY ClientStep
  <1>3. StateInv => DescriptorsMatchState
    BY DEF StateInv
  <1> QED
    BY <1>1, <1>2, <1>3, PTL DEF Spec

(* The client, the line handler and the application's knowledge of every    *)
(* attempt agree, when nothing connects in on_close() and on_error().       *)
THEOREM ClientSafety == AppUse = "careful" /\ Spec => []ClientInv
  <1> SUFFICES ASSUME AppUse = "careful" PROVE Spec => []ClientInv
    OBVIOUS
  <1>1. ClientInv /\ [Next]_vars => ClientInv'
    BY ClientInvStep
  <1> QED
    BY ClientInvInit, <1>1, PTL DEF Spec

(* Every attempt that is over was reported to the application once, or was  *)
(* given up by it.                                                          *)
THEOREM ClientAttemptReported == AppUse = "careful" /\ Spec => []AttemptReported
  <1>1. ClientInv => AttemptReported
    BY DEF ClientInv, AttemptReported, AttemptAgrees, Closing
  <1> QED
    BY <1>1, ClientSafety, PTL

(* The line handler is bound as long as there is a connection to read.      *)
THEOREM ClientBound == AppUse = "careful" /\ Spec => []BoundWhileConnected
  <1>1. ClientInv => BoundWhileConnected
    BY DEF ClientInv, BoundWhileConnected
  <1> QED
    BY <1>1, ClientSafety, PTL

(* A callback is only made for an attempt that is under way and has not     *)
(* ended: none follows close(), a new connect(), on_close() or on_error().  *)
THEOREM ClientNothingAfterTheEnd == AppUse = "careful" /\ Spec => NothingAfterTheEnd
  <1> DEFINE calls == Len(stack') > Len(stack) =>
                        LET n == Head(stack').attempt IN ~ told[n].left /\ told[n].ends = 0
  <1>1. ClientInv /\ [Next]_vars => [calls]_vars
    <2> SUFFICES ASSUME ClientInv, Next PROVE calls
      OBVIOUS
    <2>1. TypeOK /\ StateInv /\ StackInv
      BY DEF ClientInv
    <2>2. ASSUME NEW at \in Callbacks \cup {"reading"}, NEW n \in Attempts, NEW closes \in BOOLEAN,
                 Call(at, n, closes), ~ told[n].left, told[n].ends = 0
          PROVE  calls
      <3>1. Head(stack') = [at |-> at, attempt |-> n, closes |-> closes]
        BY <2>1, <2>2, CallTyping
      <3>2. Head(stack').attempt = n
        BY <3>1
      <3> QED
        BY <2>2, <3>2
    <2>3. ASSUME stack' = stack \/ (stack # <<>> /\ stack' = Tail(stack)) PROVE calls
      <3>1. Len(stack') <= Len(stack) /\ Len(stack') \in Nat /\ Len(stack) \in Nat
        BY <2>1, <2>3, PopFrame, LenProperties DEF TypeOK
      <3> QED
        BY <3>1
    <2>4. ASSUME NEW n \in Attempts, ConnectFails(n) \/ ConnectAtOnce(n) PROVE calls
      <3>1. ~ told[n].left /\ told[n].ends = 0
        BY <2>4 DEF ConnectFails, ConnectAtOnce, MayConnect, ClientInv, AttemptAgrees
      <3>2. \E at \in {"on_error", "on_connect"} : Call(at, n, FALSE)
        BY <2>4 DEF ConnectFails, ConnectAtOnce
      <3> QED
        BY <2>2, <3>1, <3>2 DEF Callbacks
    <2>5. ASSUME NEW n \in Attempts, Poll(n) PROVE calls
      <3>1. stack = <<>> /\ n \in client.open
        BY <2>5 DEF Poll, Polled, PollConnects, PollRefused, PollFailed, PollReadable, PollEnded
      <3>2. ~ told[n].left /\ told[n].ends = 0
        BY <3>1 DEF ClientInv, AttemptAgrees, Closing
      <3>3. \E at \in Callbacks \cup {"reading"}, closes \in BOOLEAN : Call(at, n, closes)
        BY <2>5 DEF Poll, PollConnects, PollRefused, PollFailed, PollReadable, PollEnded, Callbacks
      <3> QED
        BY <2>2, <3>2, <3>3
    <2>6. CASE EmitLine
      <3>1. client.fd \in Attempts /\ client.fd \in client.open /\ Call("on_line", client.fd, FALSE)
        BY <2>1, <2>6, OneOpen DEF EmitLine, readable, connection_valid, TypeOK, Members, Fds
      <3>2. ~ Closing
        BY <2>1, <2>6, NoEndRuns DEF EmitLine
      <3>3. ~ told[client.fd].left /\ told[client.fd].ends = 0
        BY <3>1, <3>2 DEF ClientInv, AttemptAgrees
      <3> QED
        BY <2>2, <3>1, <3>3 DEF Callbacks
    <2>7. CASE \/ \E n \in Attempts : ConnectInProgress(n) \/ ConnectResolves(n) \/ PeerSends(n) \/ PeerEnds(n)
               \/ Close \/ CloseConnection \/ BufferBytes \/ ReadingEnds \/ CallbackReturns
      BY <2>3, <2>7 DEF ConnectInProgress, ConnectResolves, PeerSends, PeerEnds, Close, CloseConnection,
                        BufferBytes, ReadingEnds, CallbackReturns, Running
    <2> QED
      BY <2>4, <2>5, <2>6, <2>7 DEF Next, Continue
  <1>2. [][calls]_vars => NothingAfterTheEnd
    BY PTL DEF NothingAfterTheEnd
  <1> QED
    BY <1>1, <1>2, ClientSafety, PTL DEF Spec

=============================================================================
