--------------------------- MODULE TcpServerProofs ---------------------------
(* TLAPS proofs about TcpLineServer: for every number of slots, addresses   *)
(* and clients, of an application that closes connections and the server    *)
(* only where the handler looks afterwards.                                 *)
EXTENDS TcpLineServer, FiniteSetTheorems, TLAPS

(* One check leaves a monitor a monitor, and a triggered monitor reports    *)
(* once. *)
LEMMA MonitorTyping ==
    ASSUME NEW m \in Monitor, NEW n \in Nat
    PROVE  /\ reset \in Monitor
           /\ Counted(m, n) \in Monitor
           /\ Checked(m, n) \in Monitor
  <1>1. reset \in Monitor
    BY PollsAssumption DEF reset, Monitor
  <1>2. Counted(m, n) \in Monitor
    BY <1>1, PollsAssumption DEF Counted, Monitor
  <1>3. Checked(m, n) \in Monitor
    BY <1>2 DEF Checked, Reports, Monitor
  <1> QED
    BY <1>1, <1>2, <1>3

LEMMA MonitorReports ==
    ASSUME NEW m \in Monitor, NEW n \in Nat, m.over_high_polls >= trigger_polls => m.reported
    PROVE  /\ reset.over_high_polls < trigger_polls /\ ~ reset.reported
           /\ Checked(m, n).over_high_polls >= trigger_polls => Checked(m, n).reported
           /\ Reports(m, n) => n > HighWater /\ ~ m.reported /\ Checked(m, n).reported
           /\ ~ Reports(m, n) /\ m.reported /\ n > LowWater => Checked(m, n).reported
  <1>1. trigger_polls \in Nat \ {0} /\ HighWater \in Nat /\ LowWater \in Nat /\ LowWater <= HighWater
    BY PollsAssumption, WaterMarksAssumption DEF trigger_polls
  <1>2. reset.over_high_polls = 0 /\ ~ reset.reported
    BY DEF reset
  <1>3. Counted(m, n) \in Monitor
    BY MonitorTyping
  <1>4. /\ n > HighWater => Counted(m, n).reported = m.reported
        /\ n <= LowWater => Counted(m, n) = reset
        /\ n > LowWater /\ n <= HighWater => Counted(m, n) = m
    BY <1>1 DEF Counted, Monitor
  <1>5. /\ Checked(m, n).over_high_polls = Counted(m, n).over_high_polls
        /\ Checked(m, n).reported = (Counted(m, n).reported \/ Reports(m, n))
    BY <1>3 DEF Checked, Monitor
  <1>6. Reports(m, n) <=> Counted(m, n).over_high_polls >= trigger_polls /\ ~ Counted(m, n).reported
    BY DEF Reports
  <1> HIDE DEF trigger_polls, Counted, Checked, Reports, reset
  <1>7. Reports(m, n) => n > HighWater
    <2>1. CASE n <= LowWater
      BY <1>1, <1>2, <1>4, <1>6, <2>1
    <2>2. CASE n > LowWater /\ n <= HighWater
      BY <1>4, <1>6, <2>2
    <2> QED
      BY <1>1, <2>1, <2>2
  <1>8. Reports(m, n) => ~ m.reported /\ Checked(m, n).reported
    BY <1>4, <1>5, <1>6, <1>7
  <1>9. ~ Reports(m, n) /\ m.reported /\ n > LowWater => Checked(m, n).reported
    <2>1. n > LowWater => Counted(m, n).reported = m.reported
      <3>1. n > HighWater \/ n <= HighWater
        BY <1>1
      <3> QED
        BY <1>4, <3>1
    <2> QED
      BY <1>5, <2>1
  <1>10. Checked(m, n).over_high_polls >= trigger_polls => Checked(m, n).reported
    BY <1>5, <1>6
  <1> QED
    BY <1>1, <1>2, <1>7, <1>8, <1>9, <1>10

(* The parameters of the model. *)
LEMMA Sizes ==
    /\ MaxSlots \in Nat \ {0} /\ MaxOutput \in Nat /\ MaxChunk \in Nat
    /\ IsFiniteSet(Addrs) /\ 0 \in Slots /\ NoConn \notin Addrs /\ NoClient \notin Clients
  BY ServerSizesAssumption, ServerNamesAssumption DEF Slots

(* A bound address has one slot, which acquire() and release() find. *)
LEMMA AcquiredBound ==
    ASSUME SlotsInv, NEW a \in Addrs, NEW s \in Slots, Bound(s, a)
    PROVE  AcquiredSlot(a) = {s} /\ (CHOOSE r \in AcquiredSlot(a) : TRUE) = s
  <1>1. \A r \in Slots : Bound(r, a) => r = s
    BY Sizes DEF SlotsInv, Bound
  <1>2. s \in Nat
    BY Sizes DEF Slots
  <1>3. AcquiredSlot(a) = {s}
    BY <1>1, <1>2 DEF AcquiredSlot, Slots
  <1> QED
    BY <1>3

(* What a connection's object is after close() and after a sweep. *)
LEMMA CloseEffect ==
    ASSUME NEW cs \in [Addrs -> Connection], NEW a \in Addrs
    PROVE  /\ close(cs, a) \in [Addrs -> Connection]
           /\ \A b \in Addrs : b # a => close(cs, a)[b] = cs[b]
           /\ cs[a].state # "none" => close(cs, a)[a].state = "closed"
           /\ cs[a].state = "none" => close(cs, a)[a].state = "none"
           /\ close(cs, a)[a].client = cs[a].client
           /\ ~ valid(close(cs, a), a)
  <1>1. CASE cs[a].state = "none"
    BY <1>1 DEF close, valid
  <1>2. CASE cs[a].state # "none"
    <2>1. close(cs, a) = [cs EXCEPT ![a] = [cs[a] EXCEPT !.state = "closed", !.output = 0]]
      BY <1>2 DEF close, Connection
    <2>2. [cs[a] EXCEPT !.state = "closed", !.output = 0] \in Connection
      <3>1. 0 \in 0 .. MaxOutput
        BY Sizes
      <3> QED
        BY <3>1 DEF Connection
    <2> QED
      BY <1>2, <2>1, <2>2 DEF valid, Connection
  <1> QED
    BY <1>1, <1>2

LEMMA SweepEffect ==
    ASSUME NEW cs \in [Addrs -> Connection], NEW a \in Addrs
    PROVE  /\ sweep_closed(cs) \in [Addrs -> Connection]
           /\ cs[a].state = "open" => sweep_closed(cs)[a] = cs[a]
           /\ cs[a].state # "open" => sweep_closed(cs)[a].state = "none"
  BY Sizes DEF sweep_closed, Connection, NoObject

LEMMA SweepNothing ==
    ASSUME TypeOK, SlotsInv, frame.at \notin {"checking", "on_backpressure", "on_close", "on_error"}
    PROVE  sweep_closed(conns) = conns
  BY DEF TypeOK, SlotsInv, sweep_closed

(* Changes to one field of a slot, an object or a client's record. *)
LEMMA FieldUpdates ==
    /\ \A t \in Slot : /\ \A a \in Addrs \cup {NoConn} : [t EXCEPT !.conn = a] \in Slot
                       /\ \A m \in Monitor : [t EXCEPT !.backpressure = m] \in Slot
                       /\ \A b \in SUBSET Clients : [t EXCEPT !.buffer = b] \in Slot
    /\ \A o \in Connection, n \in 0 .. MaxOutput : [o EXCEPT !.output = n] \in Connection
  BY DEF Slot, Connection

-----------------------------------------------------------------------------
(* A step that touches neither objects nor clients nor what the slots refer *)
(* to, between frames in which the end of no connection is at stake. *)
LEMMA QuietStep ==
    ASSUME SlotsInv, ClientsInv, MonitorsInv,
           UNCHANGED <<options, listening, conns, clients>>,
           \A s \in Slots : slots'[s].conn = slots[s].conn /\ slots'[s].backpressure = slots[s].backpressure,
           frame.at \in {"loop", "reading", "on_line"},
           frame'.at \in {"reading", "on_line", "checking"},
           frame.at = "loop" => listening
    PROVE  SlotsInv' /\ ClientsInv' /\ MonitorsInv'
  <1>1. SlotsInv'
    BY DEF SlotsInv, SlotRefers, Ending, Reporting, Bound
  <1>2. ClientsInv'
    BY DEF ClientsInv, ObjectAgrees, ClientAgrees, Ending, Reporting
  <1>3. MonitorsInv'
    BY DEF MonitorsInv, MonitorAgrees, ReportedOncePerOverrun
  <1> QED
    BY <1>1, <1>2, <1>3

(* The end of a callback, or of the check of one slot, that leaves the      *)
(* connections in state cs: what is closed is swept in the end, and nothing *)
(* must refer to it any more. *)
LEMMA CallbackEnds ==
    ASSUME NEW cs \in [Addrs -> Connection], frame \in Frame, slots' \in [Slots -> Slot], listening',
           NextCheck(cs) \/ Finish(cs),
           \A s \in Slots : slots'[s].conn # NoConn => valid(cs, slots'[s].conn),
           \A a \in Addrs : valid(cs, a) => \E s \in Slots : slots'[s].conn = a,
           \A r, s \in Slots : slots'[r].conn = slots'[s].conn /\ slots'[r].conn # NoConn => r = s,
           \A a \in Addrs : cs[a].state # "none" =>
              /\ cs[a].client \in Clients
              /\ clients'[cs[a].client].phase = "accepted"
              /\ clients'[cs[a].client].ends = IF cs[a].state = "closed" THEN 1 ELSE 0
              /\ \A b \in Addrs : cs[b].state # "none" /\ cs[b].client = cs[a].client => b = a,
           \A p \in Clients :
              /\ clients'[p].phase # "accepted" =>
                    clients'[p].ends = 0 /\ clients'[p].reports = 0 /\ ~ clients'[p].over
              /\ clients'[p].phase = "accepted" => clients'[p].ends = 1 \/ \E a \in Addrs :
                    cs[a].state # "none" /\ cs[a].client = p
              /\ clients'[p].reports <= 1 /\ (clients'[p].reports = 1 => clients'[p].over),
           \A s \in Slots : LET a == slots'[s].conn
                                m == slots'[s].backpressure
              IN  /\ m.over_high_polls >= trigger_polls => m.reported
                  /\ valid(cs, a) =>
                       /\ clients'[cs[a].client].reports = 1 => m.reported
                       /\ cs[a].output > HighWater => clients'[cs[a].client].over
                       /\ cs[a].output <= LowWater => ~ clients'[cs[a].client].over
    PROVE  SlotsInv' /\ ClientsInv' /\ MonitorsInv'
  <1>1. \A s \in Slots : slots'[s].conn # NoConn => slots'[s].conn \in Addrs
    BY DEF Slot
  <1>2. \A a \in Addrs : a # NoConn
    BY Sizes
  <1>3. /\ frame'.at \in {"loop", "checking"}
        /\ \A a \in Addrs : \/ conns'[a] = cs[a] /\ (frame'.at = "loop" => cs[a].state # "closed")
                            \/ cs[a].state = "closed" /\ conns'[a].state = "none" /\ frame'.at = "loop"
    <2>1. CASE Finish(cs)
      BY <2>1 DEF Finish, InLoop, sweep_closed, NoObject
    <2>2. CASE conns' = cs /\ frame' = [frame EXCEPT !.at = "checking", !.slot = @ + 1]
      BY <2>2 DEF Frame
    <2> QED
      BY <2>1, <2>2 DEF NextCheck
  <1>4. SlotsInv'
    <2>1. \A s \in Slots : SlotRefers(s)'
      BY <1>1, <1>3 DEF SlotRefers, valid
    <2>2. \A a \in Addrs : valid(conns, a)' => \E s \in Slots : Bound(s, a)'
      BY <1>3, <1>2 DEF Bound, valid
    <2>3. \A a \in Addrs : ~ Ending(a)'
      BY <1>3 DEF Ending
    <2> QED
      BY <1>3, <2>1, <2>2, <2>3 DEF SlotsInv
  <1>5. ClientsInv'
    BY <1>3 DEF ClientsInv, ObjectAgrees, ClientAgrees, Ending, Reporting
  <1>6. MonitorsInv'
    <2>1. ReportedOncePerOverrun'
      BY DEF ReportedOncePerOverrun
    <2>2. ASSUME NEW s \in Slots PROVE MonitorAgrees(s)'
      <3>1. CASE slots'[s].conn = NoConn
        BY <3>1 DEF MonitorAgrees, valid
      <3>2. CASE slots'[s].conn # NoConn
        <4>1. conns'[slots'[s].conn] = cs[slots'[s].conn] /\ valid(cs, slots'[s].conn)
          BY <1>1, <1>3, <3>2 DEF valid
        <4> QED
          BY <4>1 DEF MonitorAgrees
      <3> QED
        BY <3>1, <3>2
    <2> QED
      BY <2>1, <2>2 DEF MonitorsInv
  <1> QED
    BY <1>4, <1>5, <1>6

-----------------------------------------------------------------------------
(* Type correctness, which rests on open connections having a client. *)
LEMMA ServerTypeInit == Init => TypeOK
  <1> SUFFICES ASSUME Init PROVE TypeOK
    OBVIOUS
  <1>1. NoObject \in Connection
    BY Sizes DEF NoObject, Connection
  <1>2. [conn |-> NoConn, buffer |-> {}, backpressure |-> reset] \in Slot
    BY PollsAssumption DEF Slot, reset, Monitor
  <1>3. InLoop \in Frame
    BY Sizes DEF InLoop, Frame, AppFrames
  <1> QED
    BY <1>1, <1>2, <1>3 DEF Init, TypeOK

LEMMA OverrunTyping ==
    ASSUME TypeOK, NEW p \in Clients, NEW n \in Nat, Overrun(p, n)
    PROVE  /\ clients' \in [Clients -> [phase : {"new", "refused", "accepted"}, ends : Nat,
                                        over : BOOLEAN, reports : Nat]]
           /\ \A q \in Clients : q # p => clients'[q] = clients[q]
           /\ clients'[p].phase = clients[p].phase /\ clients'[p].ends = clients[p].ends
           /\ clients'[p].over <=> (n > HighWater \/ (clients[p].over /\ n > LowWater))
           /\ clients'[p].reports = IF n <= LowWater THEN 0 ELSE clients[p].reports
  BY DEF TypeOK, Overrun

(* Where a callback ends, and where the check of a slot does. *)
LEMMA FinishTyping ==
    ASSUME TypeOK, NEW cs \in [Addrs -> Connection], Finish(cs) \/ (frame.at # "loop" /\ NextCheck(cs))
    PROVE  conns' \in [Addrs -> Connection] /\ frame' \in Frame
  <1>1. InLoop \in Frame
    BY Sizes DEF InLoop, Frame, AppFrames
  <1>2. CASE Finish(cs)
    BY <1>1, <1>2, SweepEffect DEF Finish, sweep_closed, NoObject
  <1>3. CASE /\ frame.slot + 1 < MaxSlots
             /\ conns' = cs /\ frame' = [frame EXCEPT !.at = "checking", !.slot = @ + 1]
    <2>1. frame.slot + 1 \in Slots
      BY <1>3, Sizes DEF TypeOK, Frame, Slots
    <2> QED
      BY <1>3, <2>1 DEF TypeOK, Frame
  <1> QED
    BY <1>2, <1>3 DEF NextCheck

LEMMA ServerTypeStep == TypeOK /\ SlotsInv /\ ClientsInv /\ [Next]_vars => TypeOK'
  <1> SUFFICES ASSUME TypeOK, SlotsInv, ClientsInv, [Next]_vars PROVE TypeOK'
    OBVIOUS
  <1>0. InLoop \in Frame
    BY Sizes DEF InLoop, Frame, AppFrames
  <1>1. ASSUME NEW p \in Clients, TurnAway(p) PROVE TypeOK'
    <2>1. conns' \in [Addrs -> Connection]
      BY <1>1, SweepEffect DEF TurnAway, TypeOK, sweep_closed
    <2> QED
      BY <1>1, <2>1 DEF TurnAway, TypeOK
  <1>2. ASSUME NEW p \in Clients, Accept(p) PROVE TypeOK'
    <2>1. PICK a \in Addrs, s \in Slots :
            /\ conns' = [sweep_closed(conns) EXCEPT ![a] = [state |-> "open", client |-> p, output |-> 0]]
            /\ slots' = [slots EXCEPT ![s] = [acquire(s, a) EXCEPT !.backpressure = reset]]
            /\ frame' = [InLoop EXCEPT !.at = "on_accept", !.conn = a]
      BY <1>2 DEF Accept, AcquiredSlot
    <2>2. sweep_closed(conns) \in [Addrs -> Connection]
      BY SweepEffect DEF TypeOK, sweep_closed
    <2>3. [state |-> "open", client |-> p, output |-> 0] \in Connection
      <3>1. 0 \in 0 .. MaxOutput
        BY Sizes
      <3> QED
        BY <3>1 DEF Connection
    <2>4. reset \in Monitor
      BY PollsAssumption DEF reset, Monitor
    <2>5. acquire(s, a) \in Slot
      BY <2>4 DEF acquire, TypeOK, Slot
    <2>6. [acquire(s, a) EXCEPT !.backpressure = reset] \in Slot
      BY <2>4, <2>5, FieldUpdates
    <2>7. frame' \in Frame
      BY <1>0, <2>1 DEF Frame, AppFrames
    <2>8. clients' \in [Clients -> [phase : {"new", "refused", "accepted"}, ends : Nat,
                                    over : BOOLEAN, reports : Nat]]
      BY <1>2 DEF Accept, TypeOK
    <2> QED
      BY <1>2, <2>1, <2>2, <2>3, <2>6, <2>7, <2>8 DEF Accept, TypeOK
  <1>3. CASE AcceptReturns
    BY <1>3, FinishTyping DEF AcceptReturns, TypeOK
  <1>4. ASSUME NEW a \in Addrs, NEW chunk \in Chunks, ReadCallback(a, chunk) PROVE TypeOK'
    <2>1. PICK s \in Slots : Bound(s, a)
      BY <1>4 DEF ReadCallback, SlotsInv
    <2>2. AcquiredSlot(a) = {s}
      BY <2>1, AcquiredBound
    <2>3. /\ slots' = [slots EXCEPT ![s] = acquire(s, a)]
          /\ frame' = [at |-> "reading", conn |-> a, slot |-> s, input |-> chunk, all |-> TRUE]
          /\ UNCHANGED <<conns, options, listening, clients>>
      BY <1>4, <2>2 DEF ReadCallback
    <2>4. acquire(s, a) = slots[s]
      BY <2>1 DEF acquire
    <2>5. chunk \in Seq(Tokens)
      BY Sizes DEF Chunks
    <2> QED
      BY <2>3, <2>4, <2>5 DEF TypeOK, Frame
  <1>5. CASE BufferBytes
    <2> DEFINE s == frame.slot
               a == slots[s].conn
    <2>1. s \in Slots /\ a \in Addrs /\ valid(conns, a) /\ frame.input # <<>>
      BY <1>5 DEF BufferBytes, readable, valid, TypeOK, Frame, Slot
    <2>2. conns[a].client \in Clients
      BY <2>1 DEF ClientsInv, ObjectAgrees, valid
    <2>3. slots' \in [Slots -> Slot]
      <3>1. PICK b \in SUBSET Clients : slots' = [slots EXCEPT ![s].buffer = b]
        BY <1>5, <2>1, <2>2 DEF BufferBytes, TypeOK, Slot
      <3> QED
        BY <2>1, <3>1, FieldUpdates DEF TypeOK
    <2>4. Tail(frame.input) \in Seq(Tokens)
      BY <2>1 DEF TypeOK, Frame
    <2> QED
      BY <1>5, <2>3, <2>4 DEF BufferBytes, TypeOK, Frame
  <1>6. CASE EmitLine
    <2>1. Tail(frame.input) \in Seq(Tokens)
      BY <1>6 DEF EmitLine, readable, TypeOK, Frame
    <2> QED
      BY <1>6, <2>1 DEF EmitLine, TypeOK, Frame, AppFrames
  <1>7. CASE LineReturns
    BY <1>7, FieldUpdates DEF LineReturns, TypeOK, Frame
  <1>8. CASE ReadingEnds
    <2>1. <<>> \in Seq(Tokens)
      OBVIOUS
    <2>2. frame' \in Frame
      BY <1>8, <2>1, Sizes DEF ReadingEnds, TypeOK, Frame
    <2> QED
      BY <1>8, <2>2 DEF ReadingEnds, TypeOK
  <1>9. ASSUME NEW a \in Addrs, NEW n \in 0 .. MaxOutput, valid(conns, a),
               conns' = [conns EXCEPT ![a].output = n], Overrun(conns[a].client, n),
               UNCHANGED <<options, listening, slots>>, frame' \in Frame
        PROVE  TypeOK'
    <2>1. conns[a].client \in Clients /\ n \in Nat
      BY <1>9, Sizes DEF ClientsInv, ObjectAgrees, valid
    <2> QED
      BY <1>9, <2>1, OverrunTyping, FieldUpdates DEF TypeOK
  <1>10. ASSUME NEW a \in Addrs, NEW n \in 1 .. MaxOutput, OutputDrains(a, n) PROVE TypeOK'
    <2>1. n \in 0 .. MaxOutput
      BY Sizes
    <2> QED
      BY <1>9, <1>10, <2>1 DEF OutputDrains, TypeOK
  <1>11. ASSUME NEW a \in Addrs, WriteCallback(a) PROVE TypeOK'
    <2>1. PICK s \in Slots : Bound(s, a)
      BY <1>11 DEF WriteCallback, SlotsInv
    <2>2. /\ conns' = [conns EXCEPT ![a].output = 0]
          /\ frame' = [InLoop EXCEPT !.at = "checking", !.conn = a, !.slot = s]
      BY <1>11, <2>1, AcquiredBound DEF WriteCallback
    <2>3. frame' \in Frame
      BY <1>0, <2>2 DEF Frame, AppFrames
    <2>4. 0 \in 0 .. MaxOutput
      BY Sizes
    <2> QED
      BY <1>9, <1>11, <2>2, <2>3, <2>4 DEF WriteCallback
  <1>12. ASSUME NEW s \in Slots, NEW n \in Nat,
                slots' = [slots EXCEPT ![s].backpressure = Checked(slots[s].backpressure, n)]
         PROVE  slots' \in [Slots -> Slot]
    <2>1. slots[s] \in Slot /\ Checked(slots[s].backpressure, n) \in Monitor
      BY MonitorTyping DEF TypeOK, Slot
    <2> QED
      BY <1>12, <2>1, FieldUpdates DEF TypeOK
  <1>13. frame.slot \in Slots /\ \A a \in Addrs : conns[a].output \in Nat
    BY Sizes DEF TypeOK, Frame, Connection
  <1>14. CASE CheckSlot
    <2>1. slots' \in [Slots -> Slot]
      BY <1>12, <1>13, <1>14, ZenonT(30) DEF CheckSlot, valid, TypeOK, Slot
    <2> QED
      BY <1>14, <2>1, FinishTyping DEF CheckSlot, TypeOK
  <1>15. CASE CheckReports
    <2>1. slots[frame.slot].conn \in Addrs
      BY <1>13, <1>15, ZenonT(30) DEF CheckReports, valid, TypeOK, Slot
    <2>2. slots' \in [Slots -> Slot]
      BY <1>12, <1>13, <1>15, <2>1, ZenonT(30) DEF CheckReports
    <2>3. frame' \in Frame
      BY <1>15 DEF CheckReports, TypeOK, Frame, AppFrames
    <2>4. clients' \in [Clients -> [phase : {"new", "refused", "accepted"}, ends : Nat,
                                    over : BOOLEAN, reports : Nat]]
      <3> DEFINE q == conns[slots[frame.slot].conn].client
      <3>1. q \in Clients
        BY <1>15, <2>1, ZenonT(30) DEF CheckReports, ClientsInv, ObjectAgrees, valid
      <3> DEFINE ends == IF options.close_on_limit THEN clients[q].ends + 1 ELSE clients[q].ends
                 next == [clients[q] EXCEPT !.reports = clients[q].reports + 1, !.ends = ends]
      <3>2. clients' = [clients EXCEPT ![q] = next]
        BY <1>15, <3>1 DEF CheckReports, TypeOK
      <3>3. ends \in Nat /\ clients[q].reports + 1 \in Nat
        BY <3>1 DEF TypeOK
      <3> HIDE DEF ends, q
      <3>4. next \in [phase : {"new", "refused", "accepted"}, ends : Nat, over : BOOLEAN, reports : Nat]
        BY <3>1, <3>3 DEF TypeOK
      <3> QED
        BY <3>2, <3>4 DEF TypeOK
    <2> QED
      BY <1>15, <2>2, <2>3, <2>4 DEF CheckReports, TypeOK
  <1>16. ASSUME NEW s \in Slots PROVE unbind(s) \in [Slots -> Slot]
    <2>1. reset \in Monitor
      BY PollsAssumption DEF reset, Monitor
    <2>2. [[slots[s] EXCEPT !.conn = NoConn] EXCEPT !.backpressure = reset] \in Slot
      BY <2>1, FieldUpdates DEF TypeOK
    <2> QED
      BY <2>2 DEF unbind, TypeOK, Slot
  <1>17. CASE BackpressureReturns
    <2> DEFINE a == slots[frame.slot].conn
               cs == IF options.close_on_limit THEN close(conns, a) ELSE conns
    <2>1. a \in Addrs
      BY <1>13, <1>17 DEF BackpressureReturns, SlotsInv, TypeOK, Slot
    <2>2. cs \in [Addrs -> Connection]
      BY <2>1, CloseEffect DEF TypeOK
    <2>3. slots' \in [Slots -> Slot]
      BY <1>13, <1>16, <1>17 DEF BackpressureReturns, TypeOK
    <2>4. frame.at # "loop" /\ NextCheck(cs) /\ UNCHANGED <<options, listening, clients>>
      BY <1>17 DEF BackpressureReturns
    <2> QED
      BY <2>2, <2>3, <2>4, FinishTyping DEF TypeOK
  <1>18. ASSUME NEW a \in Addrs, NEW at \in {"on_close", "on_error"}, EventCallback(a, at) PROVE TypeOK'
    <2>1. frame' \in Frame
      BY <1>0, <1>18 DEF EventCallback, Frame, AppFrames
    <2>2. conns[a].client \in Clients
      BY <1>18 DEF EventCallback, ClientsInv, ObjectAgrees, valid
    <2>3. clients' = [clients EXCEPT ![conns[a].client] =
                        [clients[conns[a].client] EXCEPT !.ends = clients[conns[a].client].ends + 1]]
      BY <1>18 DEF EventCallback
    <2> QED
      BY <1>18, <2>1, <2>2, <2>3 DEF EventCallback, TypeOK
  <1>19. CASE EventReturns
    <2>1. frame.conn \in Addrs
      BY <1>19 DEF EventReturns, SlotsInv
    <2>2. close(conns, frame.conn) \in [Addrs -> Connection]
      BY <2>1, CloseEffect DEF TypeOK
    <2>3. slots' \in [Slots -> Slot]
      <3>1. PICK s \in Slots : Bound(s, frame.conn)
        BY <1>19, <2>1 DEF EventReturns, SlotsInv, Ending
      <3>2. release(frame.conn) = unbind(s)
        BY <2>1, <3>1, AcquiredBound DEF release
      <3> QED
        BY <1>16, <1>19, <3>2 DEF EventReturns
    <2> QED
      BY <1>19, <2>2, <2>3, FinishTyping DEF EventReturns, TypeOK
  <1>20. ASSUME NEW a \in Addrs, write(a) PROVE TypeOK'
    <2>1. conns[a].output + 1 \in 0 .. MaxOutput
      BY <1>13, <1>20, Sizes DEF write
    <2>2. conns' = [conns EXCEPT ![a].output = conns[a].output + 1]
      BY <1>20 DEF write
    <2> QED
      BY <1>9, <1>20, <2>1, <2>2 DEF write, TypeOK
  <1>21. ASSUME NEW a \in Addrs, AppClose(a) PROVE TypeOK'
    <2>1. conns[a].client \in Clients
      BY <1>21 DEF AppClose, ClientsInv, ObjectAgrees, valid
    <2>2. clients' \in [Clients -> [phase : {"new", "refused", "accepted"}, ends : Nat,
                                    over : BOOLEAN, reports : Nat]]
      BY <1>21, <2>1 DEF AppClose, TypeOK
    <2> QED
      BY <1>21, <2>2, CloseEffect DEF AppClose, TypeOK
  <1>22. CASE CloseServer \/ listen
    <2>1. NoObject \in Connection
      BY Sizes DEF NoObject, Connection
    <2> QED
      BY <1>22, <2>1 DEF CloseServer, listen, TypeOK
  <1>23. CASE UNCHANGED vars
    BY <1>23 DEF vars, TypeOK
  <1>24. ASSUME NEW p \in Clients, AcceptAtLimit(p) \/ AcceptWithoutBufferevent(p) \/ AcceptWithoutSlot(p)
         PROVE  TurnAway(p)
    BY <1>24 DEF AcceptAtLimit, AcceptWithoutBufferevent, AcceptWithoutSlot
  <1> QED
    BY <1>1, <1>2, <1>3, <1>4, <1>5, <1>6, <1>7, <1>8, <1>10, <1>11, <1>14, <1>15, <1>17, <1>18,
       <1>19, <1>20, <1>21, <1>22, <1>23, <1>24
    DEF Next, Continue

-----------------------------------------------------------------------------
(* What the invariant says of the frames at work. *)
LEMMA LoopFacts ==
    ASSUME TypeOK, SlotsInv, frame.at \notin {"on_backpressure", "on_close", "on_error"}
    PROVE  /\ \A a \in Addrs : ~ Ending(a) /\ ~ Reporting(a)
           /\ \A s \in Slots : slots[s].conn # NoConn => slots[s].conn \in Addrs /\ valid(conns, slots[s].conn)
           /\ frame.at # "checking" => \A a \in Addrs : conns[a].state \in {"none", "open"}
  BY DEF TypeOK, SlotsInv, SlotRefers, Ending, Reporting, Slot, Connection

(* Output that grows or drains is counted as the monitors count it. *)
LEMMA OutputStep ==
    ASSUME TypeOK, SlotsInv, ClientsInv, MonitorsInv,
           NEW a \in Addrs, NEW n \in 0 .. MaxOutput, valid(conns, a),
           conns' = [conns EXCEPT ![a].output = n], Overrun(conns[a].client, n),
           UNCHANGED <<options, listening, slots>>,
           frame' = frame \/ (frame.at = "loop" /\ frame'.at = "checking")
    PROVE  SlotsInv' /\ ClientsInv' /\ MonitorsInv'
  <1> DEFINE p == conns[a].client
  <1>1. p \in Clients /\ n \in Nat /\ listening
    BY Sizes DEF ClientsInv, ObjectAgrees, SlotsInv, valid
  <1>2. /\ \A b \in Addrs : conns'[b].state = conns[b].state /\ conns'[b].client = conns[b].client
        /\ \A b \in Addrs : b # a => conns'[b] = conns[b]
        /\ conns'[a].output = n
    BY DEF TypeOK, Connection
  <1>3. /\ \A q \in Clients : clients'[q].phase = clients[q].phase /\ clients'[q].ends = clients[q].ends
        /\ \A q \in Clients : q # p => clients'[q] = clients[q]
        /\ clients'[p].over <=> (n > HighWater \/ (clients[p].over /\ n > LowWater))
        /\ clients'[p].reports = IF n <= LowWater THEN 0 ELSE clients[p].reports
    BY <1>1, OverrunTyping
  <1>4. HighWater \in Nat /\ LowWater \in Nat /\ LowWater <= HighWater
    BY WaterMarksAssumption
  <1>5. SlotsInv'
    BY <1>1, <1>2 DEF SlotsInv, SlotRefers, Ending, Reporting, Bound, valid, TypeOK, Slot
  <1>6. ClientsInv'
    <2>1. \A b \in Addrs : ObjectAgrees(b)'
      BY <1>2, <1>3 DEF ClientsInv, ObjectAgrees, Ending, Reporting
    <2>2. \A q \in Clients : ClientAgrees(q)'
      <3>1. clients[p].phase = "accepted"
        BY DEF ClientsInv, ObjectAgrees, valid
      <3> QED
        BY <1>2, <1>3, <3>1 DEF ClientsInv, ClientAgrees
    <2> QED
      BY <2>1, <2>2 DEF ClientsInv
  <1>7. MonitorsInv'
    <2>1. ReportedOncePerOverrun'
      <3>1. n <= LowWater \/ n > LowWater
        BY <1>1, <1>4
      <3>2. clients'[p].reports <= 1 /\ (clients'[p].reports = 1 => clients'[p].over)
        BY <1>1, <1>3, <3>1 DEF MonitorsInv, ReportedOncePerOverrun
      <3>3. ASSUME NEW q \in Clients, q # p
            PROVE  clients'[q].reports <= 1 /\ (clients'[q].reports = 1 => clients'[q].over)
        BY <1>3, <3>3 DEF MonitorsInv, ReportedOncePerOverrun
      <3> QED
        BY <3>2, <3>3 DEF ReportedOncePerOverrun
    <2>2. ASSUME NEW s \in Slots PROVE MonitorAgrees(s)'
      <3>1. slots'[s] = slots[s] /\ MonitorAgrees(s)
        BY DEF MonitorsInv
      <3>2. CASE slots[s].conn = a
        <4>1. /\ clients[p].reports = 1 => slots[s].backpressure.reported
              /\ slots[s].backpressure.over_high_polls >= trigger_polls => slots[s].backpressure.reported
          BY <3>1, <3>2 DEF MonitorAgrees
        <4>2. clients'[p].reports = 1 => clients[p].reports = 1
          BY <1>3
        <4>3. /\ n > HighWater => clients'[p].over
              /\ n <= LowWater => ~ clients'[p].over
          BY <1>1, <1>3, <1>4
        <4> QED
          BY <1>2, <3>1, <3>2, <4>1, <4>2, <4>3 DEF MonitorAgrees, valid
      <3>3. CASE slots[s].conn # a /\ valid(conns, slots[s].conn)
        <4>1. slots[s].conn \in Addrs /\ conns[slots[s].conn].client \in Clients \ {p}
          BY <3>3 DEF TypeOK, Slot, valid, ClientsInv, ObjectAgrees
        <4> QED
          BY <1>2, <1>3, <3>1, <3>3, <4>1 DEF MonitorAgrees, valid
      <3>4. CASE slots[s].conn # a /\ ~ valid(conns, slots[s].conn)
        BY <1>2, <3>1, <3>4 DEF MonitorAgrees, valid, TypeOK, Slot
      <3> QED
        BY <3>2, <3>3, <3>4
    <2> QED
      BY <2>1, <2>2 DEF MonitorsInv
  <1> QED
    BY <1>5, <1>6, <1>7

(* An application that closes a connection in the callback that reports its *)
(* end or its backpressure. *)
LEMMA AppCloseStep ==
    ASSUME TypeOK, SlotsInv, ClientsInv, MonitorsInv, NEW a \in Addrs, AppClose(a), AppUse = "careful"
    PROVE  SlotsInv' /\ ClientsInv' /\ MonitorsInv'
  <1> DEFINE p == conns[a].client
  <1>1. /\ valid(conns, a) /\ (Ending(a) \/ Reporting(a))
        /\ UNCHANGED <<options, listening, slots, frame>>
        /\ conns' = close(conns, a)
    BY DEF AppClose, HandlerLooksAgain, Ending, Reporting
  <1>2. /\ conns'[a].state = "closed" /\ conns'[a].client = p
        /\ \A b \in Addrs : b # a => conns'[b] = conns[b]
    BY <1>1, CloseEffect DEF TypeOK, valid
  <1>3. p \in Clients /\ clients[p].phase = "accepted" /\ clients[p].ends \in {0, 1}
    BY <1>1 DEF ClientsInv, ObjectAgrees, valid
  <1>4. /\ \A q \in Clients : q # p => clients'[q] = clients[q]
        /\ clients'[p].ends = 1 /\ clients'[p].phase = "accepted"
        /\ clients'[p].reports = clients[p].reports /\ clients'[p].over = clients[p].over
    BY <1>3 DEF AppClose, TypeOK
  <1>5. SlotsInv'
    BY <1>1, <1>2 DEF SlotsInv, SlotRefers, Ending, Reporting, Bound, valid, TypeOK, Slot
  <1>6. ClientsInv'
    <2>1. \A b \in Addrs : ObjectAgrees(b)'
      BY <1>1, <1>2, <1>3, <1>4 DEF ClientsInv, ObjectAgrees, Ending, Reporting, valid
    <2>2. \A q \in Clients : ClientAgrees(q)'
      BY <1>2, <1>3, <1>4 DEF ClientsInv, ClientAgrees
    <2> QED
      BY <2>1, <2>2 DEF ClientsInv
  <1>7. MonitorsInv'
    <2>1. ReportedOncePerOverrun'
      BY <1>3, <1>4 DEF MonitorsInv, ReportedOncePerOverrun
    <2>2. ASSUME NEW s \in Slots PROVE MonitorAgrees(s)'
      <3>1. slots'[s] = slots[s] /\ MonitorAgrees(s)
        BY <1>1 DEF MonitorsInv
      <3>2. CASE slots[s].conn = a
        BY <1>2, <3>1, <3>2 DEF MonitorAgrees, valid
      <3>3. CASE slots[s].conn # a /\ valid(conns, slots[s].conn)
        <4>1. slots[s].conn \in Addrs /\ conns[slots[s].conn].client \in Clients \ {p}
          BY <1>1, <3>3 DEF TypeOK, Slot, valid, ClientsInv, ObjectAgrees
        <4> QED
          BY <1>2, <1>4, <3>1, <3>3, <4>1 DEF MonitorAgrees, valid
      <3>4. CASE slots[s].conn # a /\ ~ valid(conns, slots[s].conn)
        BY <1>2, <3>1, <3>4 DEF MonitorAgrees, valid, TypeOK, Slot
      <3> QED
        BY <3>2, <3>3, <3>4
    <2> QED
      BY <2>1, <2>2 DEF MonitorsInv
  <1> QED
    BY <1>5, <1>6, <1>7

-----------------------------------------------------------------------------
(* A client that is turned away, and one that is given an object and a slot *)
(* with a monitor of its own. *)
LEMMA TurnAwayStep ==
    ASSUME TypeOK, SlotsInv, ClientsInv, MonitorsInv, NEW p \in Clients, TurnAway(p)
    PROVE  SlotsInv' /\ ClientsInv' /\ MonitorsInv'
  <1>1. UNCHANGED <<options, listening, conns, slots, frame>>
    BY SweepNothing DEF TurnAway
  <1>2. /\ \A q \in Clients : q # p => clients'[q] = clients[q]
        /\ clients'[p] = [clients[p] EXCEPT !.phase = "refused"]
        /\ clients[p].phase = "new"
    BY DEF TurnAway, TypeOK
  <1>3. /\ clients'[p].phase = "refused" /\ clients'[p].ends = 0
        /\ clients'[p].reports = 0 /\ ~ clients'[p].over
    <2>1. clients[p].ends = 0 /\ clients[p].reports = 0 /\ ~ clients[p].over
      BY <1>2 DEF ClientsInv, ClientAgrees
    <2> QED
      BY <1>2, <2>1 DEF TypeOK
  <1>4. \A a \in Addrs : conns[a].state # "none" => conns[a].client \in Clients \ {p}
    BY <1>2 DEF ClientsInv, ObjectAgrees
  <1>5. SlotsInv'
    BY <1>1 DEF SlotsInv, SlotRefers, Ending, Reporting, Bound, valid
  <1>6. ClientsInv'
    <2>1. \A a \in Addrs : ObjectAgrees(a)'
      BY <1>1, <1>2, <1>4 DEF ClientsInv, ObjectAgrees, Ending, Reporting
    <2>2. \A q \in Clients : ClientAgrees(q)'
      <3>1. ClientAgrees(p)'
        BY <1>3 DEF ClientAgrees
      <3>2. ASSUME NEW q \in Clients, q # p PROVE ClientAgrees(q)'
        BY <1>1, <1>2, <3>2 DEF ClientsInv, ClientAgrees
      <3> QED
        BY <3>1, <3>2
    <2> QED
      BY <2>1, <2>2 DEF ClientsInv
  <1>7. MonitorsInv'
    <2>1. ReportedOncePerOverrun'
      <3>1. clients'[p].reports <= 1 /\ clients'[p].reports # 1
        BY <1>3
      <3>2. ASSUME NEW q \in Clients, q # p
            PROVE  clients'[q].reports <= 1 /\ (clients'[q].reports = 1 => clients'[q].over)
        BY <1>2, <3>2 DEF MonitorsInv, ReportedOncePerOverrun
      <3> QED
        BY <3>1, <3>2 DEF ReportedOncePerOverrun
    <2>2. ASSUME NEW s \in Slots PROVE MonitorAgrees(s)'
      <3>1. MonitorAgrees(s) /\ slots'[s] = slots[s]
        BY <1>1 DEF MonitorsInv
      <3>2. valid(conns, slots[s].conn) => conns[slots[s].conn].client \in Clients \ {p}
        BY <1>4 DEF valid, TypeOK, Slot
      <3> QED
        BY <1>1, <1>2, <3>1, <3>2 DEF MonitorAgrees, valid
    <2> QED
      BY <2>1, <2>2 DEF MonitorsInv
  <1> QED
    BY <1>5, <1>6, <1>7

LEMMA AcceptStep ==
    ASSUME TypeOK, SlotsInv, ClientsInv, MonitorsInv, NEW p \in Clients, Accept(p)
    PROVE  SlotsInv' /\ ClientsInv' /\ MonitorsInv'
  <1>1. sweep_closed(conns) = conns
    BY SweepNothing DEF Accept
  <1>2. PICK a \in Addrs, s \in Slots :
          /\ s \in AcquiredSlot(a) /\ conns[a].state = "none"
          /\ conns' = [conns EXCEPT ![a] = [state |-> "open", client |-> p, output |-> 0]]
          /\ slots' = [slots EXCEPT ![s] = [acquire(s, a) EXCEPT !.backpressure = reset]]
          /\ frame' = [InLoop EXCEPT !.at = "on_accept", !.conn = a]
    BY <1>1 DEF Accept, AcquiredSlot
  <1>3. /\ frame.at = "loop" /\ listening /\ clients[p].phase = "new"
        /\ clients' = [clients EXCEPT ![p].phase = "accepted"]
        /\ UNCHANGED <<options, listening>>
    BY DEF Accept
  <1>4. /\ \A b \in Addrs : conns[b].state \in {"none", "open"} /\ ~ Ending(b) /\ ~ Reporting(b)
        /\ \A t \in Slots : slots[t].conn # NoConn => slots[t].conn \in Addrs \ {a} /\ valid(conns, slots[t].conn)
    BY <1>2, <1>3, LoopFacts DEF valid
  <1>5. slots[s].conn = NoConn
    BY <1>2, <1>4, Sizes DEF AcquiredSlot, Bound
  <1>6. /\ slots'[s].conn = a /\ slots'[s].backpressure = reset
        /\ \A t \in Slots : t # s => slots'[t] = slots[t]
    BY <1>2, <1>5, Sizes DEF acquire, Bound, TypeOK, Slot
  <1>7. /\ conns'[a].state = "open" /\ conns'[a].client = p /\ conns'[a].output = 0
        /\ \A b \in Addrs : b # a => conns'[b] = conns[b]
        /\ frame'.at = "on_accept"
    BY <1>2 DEF TypeOK, InLoop
  <1>8. /\ \A q \in Clients : q # p => clients'[q] = clients[q]
        /\ clients'[p].phase = "accepted" /\ clients'[p].ends = 0 /\ clients'[p].reports = 0
        /\ ~ clients'[p].over
    <2>1. clients[p].ends = 0 /\ clients[p].reports = 0 /\ ~ clients[p].over
      BY <1>3 DEF ClientsInv, ClientAgrees
    <2>2. clients' = [clients EXCEPT ![p] = [clients[p] EXCEPT !.phase = "accepted"]]
      BY <1>3
    <2> QED
      BY <2>1, <2>2 DEF TypeOK
  <1>9. \A b \in Addrs : b # a /\ conns[b].state # "none" => conns[b].client \in Clients \ {p}
    BY <1>3 DEF ClientsInv, ObjectAgrees
  <1>10. SlotsInv'
    <2>1. \A t \in Slots : SlotRefers(t)'
      BY <1>4, <1>5, <1>6, <1>7, Sizes DEF SlotRefers, valid
    <2>2. \A b \in Addrs : valid(conns, b)' \/ Ending(b)' => \E t \in Slots : Bound(t, b)'
      <3>1. ASSUME NEW b \in Addrs, b # a, valid(conns, b)' PROVE \E t \in Slots : Bound(t, b)'
        <4>1. PICK t \in Slots : slots[t].conn = b
          BY <1>7, <3>1 DEF SlotsInv, Bound, valid
        <4>2. t # s
          BY <1>5, <4>1, Sizes
        <4> QED
          BY <1>6, <4>1, <4>2 DEF Bound
      <3> QED
        BY <1>5, <1>6, <1>7, <3>1 DEF Bound, Ending
    <2>3. \A r, t \in Slots : slots'[r].conn = slots'[t].conn /\ slots'[r].conn # NoConn => r = t
      BY <1>4, <1>5, <1>6 DEF SlotsInv
    <2> QED
      BY <1>3, <1>4, <1>7, <2>1, <2>2, <2>3 DEF SlotsInv
  <1>11. ClientsInv'
    <2>1. \A b \in Addrs : ObjectAgrees(b)'
      BY <1>3, <1>4, <1>7, <1>8, <1>9 DEF ClientsInv, ObjectAgrees, Ending, Reporting
    <2>2. \A q \in Clients : ClientAgrees(q)'
      BY <1>2, <1>7, <1>8 DEF ClientsInv, ClientAgrees
    <2> QED
      BY <2>1, <2>2 DEF ClientsInv
  <1>12. MonitorsInv'
    <2>1. ReportedOncePerOverrun'
      BY <1>8 DEF MonitorsInv, ReportedOncePerOverrun
    <2>2. ASSUME NEW t \in Slots PROVE MonitorAgrees(t)'
      <3>1. CASE t = s
        <4>1. /\ reset.over_high_polls < trigger_polls /\ reset.over_high_polls = 0 /\ trigger_polls \in Nat
              /\ HighWater \in Nat
          BY PollsAssumption, WaterMarksAssumption DEF reset, trigger_polls
        <4> QED
          BY <1>6, <1>7, <1>8, <3>1, <4>1 DEF MonitorAgrees, valid
      <3>2. CASE t # s /\ slots[t].conn = NoConn
        BY <1>6, <3>2 DEF MonitorsInv, MonitorAgrees, valid
      <3>3. CASE t # s /\ slots[t].conn # NoConn
        <4>1. conns'[slots[t].conn] = conns[slots[t].conn]
          BY <1>4, <1>7, <3>3
        <4>2. conns[slots[t].conn].client \in Clients \ {p}
          BY <1>4, <1>9, <3>3 DEF valid
        <4> QED
          BY <1>6, <1>8, <3>3, <4>1, <4>2 DEF MonitorsInv, MonitorAgrees, valid
      <3> QED
        BY <3>1, <3>2, <3>3
    <2> QED
      BY <2>1, <2>2 DEF MonitorsInv
  <1> QED
    BY <1>10, <1>11, <1>12

(* A backpressure report, and the report of a connection's end. *)
LEMMA CheckReportsStep ==
    ASSUME TypeOK, SlotsInv, ClientsInv, MonitorsInv, CheckReports
    PROVE  SlotsInv' /\ ClientsInv' /\ MonitorsInv'
  <1>0. PICK s, a, m, p : s = frame.slot /\ a = slots[s].conn /\ m = slots[s].backpressure
                          /\ p = conns[a].client
    OBVIOUS
  <1>1. /\ frame.at = "checking" /\ valid(conns, a) /\ Reports(m, conns[a].output)
        /\ slots' = [slots EXCEPT ![s].backpressure = Checked(m, conns[a].output)]
        /\ frame' = [frame EXCEPT !.at = "on_backpressure"]
        /\ UNCHANGED <<options, listening, conns>>
    BY <1>0 DEF CheckReports
  <1>2. s \in Slots /\ a \in Addrs /\ m \in Monitor /\ conns[a].output \in Nat /\ a # NoConn
    BY <1>0, <1>1, Sizes DEF TypeOK, Frame, Slot, valid, Connection
  <1>3. /\ conns[a].output > HighWater /\ ~ m.reported
        /\ Checked(m, conns[a].output).reported
    BY <1>0, <1>1, <1>2, MonitorReports DEF MonitorsInv, MonitorAgrees
  <1>4. p \in Clients /\ clients[p].phase = "accepted" /\ clients[p].ends = 0
    BY <1>0, <1>1, <1>2 DEF ClientsInv, ObjectAgrees, valid, Ending, Reporting
  <1>5. clients[p].reports = 0 /\ clients[p].over
    <2>1. clients[p].reports # 1 /\ clients[p].over
      BY <1>0, <1>1, <1>2, <1>3 DEF MonitorsInv, MonitorAgrees
    <2>2. clients[p].reports <= 1 /\ clients[p].reports \in Nat
      BY <1>4 DEF MonitorsInv, ReportedOncePerOverrun, TypeOK
    <2> QED
      BY <2>1, <2>2
  <1>6. /\ slots'[s].conn = a /\ slots'[s].backpressure.reported
        /\ \A t \in Slots : slots'[t].conn = slots[t].conn
        /\ \A t \in Slots : t # s => slots'[t] = slots[t]
    BY <1>0, <1>1, <1>2, <1>3 DEF TypeOK, Slot
  <1>7. frame'.at = "on_backpressure" /\ frame'.slot = s
    BY <1>0, <1>1 DEF TypeOK, Frame
  <1>8. /\ \A q \in Clients : q # p => clients'[q] = clients[q]
        /\ clients'[p].phase = "accepted"
        /\ clients'[p].ends = IF options.close_on_limit THEN 1 ELSE 0
        /\ clients'[p].reports = 1 /\ clients'[p].over
    <2>1. clients' = [clients EXCEPT ![p].reports = clients[p].reports + 1,
                                     ![p].ends = IF options.close_on_limit THEN clients[p].ends + 1
                                                 ELSE clients[p].ends]
      BY <1>0, <1>4 DEF CheckReports
    <2>2. clients[p] \in [phase : {"new", "refused", "accepted"}, ends : Nat, over : BOOLEAN, reports : Nat]
      BY <1>4 DEF TypeOK
    <2>3. clients'[p] = [[clients[p] EXCEPT !.reports = clients[p].reports + 1]
                            EXCEPT !.ends = IF options.close_on_limit THEN clients[p].ends + 1
                                            ELSE clients[p].ends]
      BY <1>4, <2>1 DEF TypeOK
    <2>4. \A q \in Clients : q # p => clients'[q] = clients[q]
      BY <1>4, <2>1 DEF TypeOK
    <2> QED
      BY <1>4, <1>5, <2>2, <2>3, <2>4
  <1>9. \A b \in Addrs : b # a /\ conns[b].state # "none" => conns[b].client \in Clients \ {p}
    BY <1>0, <1>1, <1>2 DEF ClientsInv, ObjectAgrees, valid
  <1>10. SlotsInv'
    BY <1>0, <1>1, <1>2, <1>6, <1>7 DEF SlotsInv, SlotRefers, Ending, Reporting, Bound
  <1>11. ClientsInv'
    <2>1. \A b \in Addrs : ~ Ending(b) /\ ~ Reporting(b) /\ ~ Ending(b)' /\ (Reporting(b)' <=> b = a)
      BY <1>1, <1>6, <1>7 DEF Ending, Reporting
    <2>2. ObjectAgrees(a)'
      BY <1>0, <1>1, <1>2, <1>4, <1>8, <2>1, ZenonT(30) DEF ClientsInv, ObjectAgrees, valid
    <2>3. ASSUME NEW b \in Addrs, b # a PROVE ObjectAgrees(b)'
      BY <1>1, <1>8, <1>9, <2>1, <2>3 DEF ClientsInv, ObjectAgrees
    <2>4. \A q \in Clients : ClientAgrees(q)'
      <3>1. ClientAgrees(p)'
        BY <1>0, <1>1, <1>2, <1>8 DEF ClientAgrees, valid
      <3>2. ASSUME NEW q \in Clients, q # p PROVE ClientAgrees(q)'
        BY <1>1, <1>8, <3>2 DEF ClientsInv, ClientAgrees
      <3> QED
        BY <3>1, <3>2
    <2> QED
      BY <2>2, <2>3, <2>4 DEF ClientsInv
  <1>12. MonitorsInv'
    <2>1. ReportedOncePerOverrun'
      <3>1. ASSUME NEW q \in Clients, q # p
            PROVE  clients'[q].reports <= 1 /\ (clients'[q].reports = 1 => clients'[q].over)
        BY <1>8, <3>1 DEF MonitorsInv, ReportedOncePerOverrun
      <3> QED
        BY <1>8, <3>1 DEF ReportedOncePerOverrun
    <2>2. MonitorAgrees(s)'
      <3>1. HighWater \in Nat /\ LowWater \in Nat /\ LowWater <= HighWater
        BY WaterMarksAssumption
      <3> QED
        <4>1. ~ (conns[a].output <= LowWater)
          BY <1>2, <1>3, <3>1
        <4>2. conns'[a] = conns[a] /\ conns'[a].client = p
          BY <1>0, <1>1
        <4> QED
          BY <1>6, <1>8, <4>1, <4>2 DEF MonitorAgrees
    <2>3. ASSUME NEW t \in Slots, t # s PROVE MonitorAgrees(t)'
      <3>1. valid(conns, slots[t].conn) => conns[slots[t].conn].client \in Clients \ {p}
        BY <1>0, <1>2, <1>9, <2>3 DEF SlotsInv, valid, TypeOK, Slot
      <3> QED
        BY <1>1, <1>6, <1>8, <2>3, <3>1 DEF MonitorsInv, MonitorAgrees
    <2> QED
      BY <2>1, <2>2, <2>3 DEF MonitorsInv
  <1> QED
    BY <1>10, <1>11, <1>12

LEMMA EventCallbackStep ==
    ASSUME TypeOK, SlotsInv, ClientsInv, MonitorsInv,
           NEW a \in Addrs, NEW at \in {"on_close", "on_error"}, EventCallback(a, at)
    PROVE  SlotsInv' /\ ClientsInv' /\ MonitorsInv'
  <1> DEFINE p == conns[a].client
  <1>1. /\ frame.at = "loop" /\ valid(conns, a)
        /\ frame'.at = at /\ frame'.conn = a
        /\ UNCHANGED <<options, listening, conns, slots>>
    BY DEF EventCallback, InLoop
  <1>2. /\ \A b \in Addrs : ~ Ending(b) /\ ~ Reporting(b) /\ ~ Reporting(b)' /\ (Ending(b)' <=> b = a)
        /\ \A s \in Slots : slots[s].conn # NoConn => slots[s].conn \in Addrs /\ valid(conns, slots[s].conn)
    <2>1. \A b \in Addrs : ~ Reporting(b)' /\ (Ending(b)' <=> b = a)
      BY <1>1 DEF Ending, Reporting
    <2> QED
      BY <1>1, <2>1, LoopFacts
  <1>3. p \in Clients /\ clients[p].phase = "accepted" /\ clients[p].ends = 0
    BY <1>1, <1>2 DEF ClientsInv, ObjectAgrees, valid
  <1>4. /\ \A q \in Clients : /\ q # p => clients'[q] = clients[q]
                              /\ clients'[q].phase = clients[q].phase
                              /\ clients'[q].reports = clients[q].reports
                              /\ clients'[q].over = clients[q].over
        /\ clients'[p].ends = 1
    BY <1>3 DEF EventCallback, TypeOK
  <1>5. SlotsInv'
    <2>1. \A s \in Slots : SlotRefers(s)'
      BY <1>1, <1>2 DEF SlotRefers
    <2>2. \A b \in Addrs : valid(conns, b)' \/ Ending(b)' => \E s \in Slots : Bound(s, b)'
      BY <1>1, <1>2 DEF SlotsInv, Bound
    <2>3. listening
      BY <1>1 DEF SlotsInv, valid
    <2> QED
      BY <1>1, <2>1, <2>2, <2>3 DEF SlotsInv
  <1>6. ClientsInv'
    <2>1. ObjectAgrees(a)'
      BY <1>1, <1>2, <1>3, <1>4 DEF ClientsInv, ObjectAgrees, valid
    <2>2. ASSUME NEW b \in Addrs, b # a PROVE ObjectAgrees(b)'
      BY <1>1, <1>2, <1>4, <2>2 DEF ClientsInv, ObjectAgrees, valid
    <2>3. \A q \in Clients : ClientAgrees(q)'
      BY <1>1, <1>3, <1>4 DEF ClientsInv, ClientAgrees
    <2> QED
      BY <2>1, <2>2, <2>3 DEF ClientsInv
  <1>7. MonitorsInv'
    <2>1. ReportedOncePerOverrun'
      BY <1>4 DEF MonitorsInv, ReportedOncePerOverrun
    <2>2. ASSUME NEW s \in Slots PROVE MonitorAgrees(s)'
      <3>1. valid(conns, slots[s].conn) => conns[slots[s].conn].client \in Clients
        BY DEF ClientsInv, ObjectAgrees, valid, TypeOK, Slot
      <3> QED
        BY <1>1, <1>4, <3>1 DEF MonitorsInv, MonitorAgrees
    <2> QED
      BY <2>1, <2>2 DEF MonitorsInv
  <1> QED
    BY <1>5, <1>6, <1>7

-----------------------------------------------------------------------------
(* The callbacks that end, and the checks of a slot that report nothing:    *)
(* what the slots and the clients' records are, as CallbackEnds asks. *)
LEMMA RecordsAgree ==
    ASSUME TypeOK, SlotsInv, ClientsInv, MonitorsInv
    PROVE  /\ \A a \in Addrs : conns[a].state # "none" =>
                /\ conns[a].client \in Clients
                /\ clients[conns[a].client].phase = "accepted"
                /\ ~ Ending(a) /\ ~ (Reporting(a) /\ options.close_on_limit) =>
                     clients[conns[a].client].ends = IF conns[a].state = "closed" THEN 1 ELSE 0
                /\ Ending(a) \/ (Reporting(a) /\ options.close_on_limit) =>
                     clients[conns[a].client].ends = 1
                /\ \A b \in Addrs : conns[b].state # "none" /\ conns[b].client = conns[a].client => b = a
           /\ \A p \in Clients :
                /\ clients[p].phase # "accepted" =>
                     clients[p].ends = 0 /\ clients[p].reports = 0 /\ ~ clients[p].over
                /\ clients[p].phase = "accepted" => clients[p].ends = 1 \/ \E a \in Addrs :
                     conns[a].state # "none" /\ conns[a].client = p
                /\ clients[p].reports <= 1 /\ (clients[p].reports = 1 => clients[p].over)
  BY DEF ClientsInv, ObjectAgrees, ClientAgrees, MonitorsInv, ReportedOncePerOverrun

LEMMA NothingEnds ==
    ASSUME TypeOK, SlotsInv, ClientsInv, MonitorsInv, listening, NextCheck(conns) \/ Finish(conns),
           UNCHANGED <<options, listening, slots, clients>>,
           \A a \in Addrs : ~ Ending(a) /\ ~ (Reporting(a) /\ options.close_on_limit),
           \A s \in Slots : slots[s].conn # NoConn => valid(conns, slots[s].conn)
    PROVE  SlotsInv' /\ ClientsInv' /\ MonitorsInv'
  <1>1. listening' /\ slots' = slots /\ clients' = clients
    OBVIOUS
  <1>2. \A a \in Addrs : conns[a].state # "none" =>
              /\ conns[a].client \in Clients
              /\ clients'[conns[a].client].phase = "accepted"
              /\ clients'[conns[a].client].ends = IF conns[a].state = "closed" THEN 1 ELSE 0
              /\ \A b \in Addrs : conns[b].state # "none" /\ conns[b].client = conns[a].client => b = a
    BY <1>1, RecordsAgree
  <1>3. /\ \A a \in Addrs : valid(conns, a) => \E s \in Slots : slots[s].conn = a
        /\ \A r, s \in Slots : slots[r].conn = slots[s].conn /\ slots[r].conn # NoConn => r = s
    BY DEF SlotsInv, Bound
  <1>4. \A s \in Slots : LET a == slots[s].conn
                             m == slots[s].backpressure
          IN  /\ m.over_high_polls >= trigger_polls => m.reported
              /\ valid(conns, a) =>
                   /\ clients[conns[a].client].reports = 1 => m.reported
                   /\ conns[a].output > HighWater => clients[conns[a].client].over
                   /\ conns[a].output <= LowWater => ~ clients[conns[a].client].over
    BY DEF MonitorsInv, MonitorAgrees
  <1>5. conns \in [Addrs -> Connection] /\ frame \in Frame /\ slots \in [Slots -> Slot]
    BY DEF TypeOK
  <1> QED
    BY <1>1, <1>2, <1>3, <1>4, <1>5, RecordsAgree, CallbackEnds

LEMMA AcceptReturnsStep ==
    ASSUME TypeOK, SlotsInv, ClientsInv, MonitorsInv, AcceptReturns
    PROVE  SlotsInv' /\ ClientsInv' /\ MonitorsInv'
  <1>1. /\ frame.at = "on_accept" /\ listening /\ Finish(conns)
        /\ UNCHANGED <<options, listening, slots, clients>>
    BY DEF AcceptReturns, SlotsInv
  <1> QED
    BY <1>1, LoopFacts, NothingEnds

LEMMA CheckSlotStep ==
    ASSUME TypeOK, SlotsInv, ClientsInv, MonitorsInv, CheckSlot, slots' \in [Slots -> Slot]
    PROVE  SlotsInv' /\ ClientsInv' /\ MonitorsInv'
  <1>0. PICK s, a, m : s = frame.slot /\ a = slots[s].conn /\ m = slots[s].backpressure
    OBVIOUS
  <1>1. /\ frame.at = "checking" /\ listening /\ NextCheck(conns)
        /\ UNCHANGED <<options, listening, clients>>
        /\ ~ (valid(conns, a) /\ Reports(m, conns[a].output))
        /\ s \in Slots /\ m \in Monitor
    BY <1>0 DEF CheckSlot, SlotsInv, TypeOK, Frame, Slot
  <1>2. /\ \A b \in Addrs : ~ Ending(b) /\ ~ Reporting(b)
        /\ \A t \in Slots : slots[t].conn # NoConn => valid(conns, slots[t].conn)
    BY <1>1, LoopFacts
  <1>3. /\ \A b \in Addrs : valid(conns, b) => \E t \in Slots : slots[t].conn = b
        /\ \A r, t \in Slots : slots[r].conn = slots[t].conn /\ slots[r].conn # NoConn => r = t
    BY DEF SlotsInv, Bound
  <1>4. /\ \A t \in Slots : t # s => slots'[t] = slots[t]
        /\ slots'[s].conn = a
        /\ slots'[s].backpressure = IF valid(conns, a) THEN Checked(m, conns[a].output) ELSE m
    BY <1>0, <1>1 DEF CheckSlot, TypeOK, Slot
  <1>5. \A t \in Slots : slots'[t].conn = slots[t].conn
    BY <1>0, <1>4
  <1>6. \A t \in Slots : LET b == slots[t].conn
                             k == slots[t].backpressure
          IN  /\ k.over_high_polls >= trigger_polls => k.reported
              /\ valid(conns, b) =>
                   /\ clients[conns[b].client].reports = 1 => k.reported
                   /\ conns[b].output > HighWater => clients[conns[b].client].over
                   /\ conns[b].output <= LowWater => ~ clients[conns[b].client].over
    BY DEF MonitorsInv, MonitorAgrees
  <1>7. /\ slots'[s].backpressure.over_high_polls >= trigger_polls => slots'[s].backpressure.reported
        /\ valid(conns, a) /\ clients[conns[a].client].reports = 1 => slots'[s].backpressure.reported
    <2>1. CASE ~ valid(conns, a)
      BY <1>0, <1>1, <1>4, <1>6, <2>1
    <2>2. CASE valid(conns, a)
      <3>1. a \in Addrs /\ conns[a].output \in Nat /\ conns[a].client \in Clients
        <4>1. a \in Addrs
          BY <1>0, <1>1, <2>2 DEF valid, TypeOK, Slot
        <4> QED
          BY <2>2, <4>1, Sizes DEF valid, TypeOK, Connection, ClientsInv, ObjectAgrees
      <3>2. m.over_high_polls >= trigger_polls => m.reported
        BY <1>0, <1>1, <1>6
      <3>3. /\ Checked(m, conns[a].output).over_high_polls >= trigger_polls =>
                 Checked(m, conns[a].output).reported
            /\ m.reported /\ conns[a].output > LowWater => Checked(m, conns[a].output).reported
        BY <1>1, <2>2, <3>1, <3>2, MonitorReports
      <3>4. clients[conns[a].client].reports = 1 => m.reported /\ ~ (conns[a].output <= LowWater)
        BY <1>0, <1>1, <1>6, <2>2, <3>1 DEF MonitorsInv, ReportedOncePerOverrun
      <3>5. conns[a].output <= LowWater \/ conns[a].output > LowWater
        BY <3>1, WaterMarksAssumption
      <3> QED
        BY <1>4, <2>2, <3>3, <3>4, <3>5
    <2> QED
      BY <2>1, <2>2
  <1>8. \A t \in Slots : LET b == slots'[t].conn
                             k == slots'[t].backpressure
          IN  /\ k.over_high_polls >= trigger_polls => k.reported
              /\ valid(conns, b) =>
                   /\ clients[conns[b].client].reports = 1 => k.reported
                   /\ conns[b].output > HighWater => clients[conns[b].client].over
                   /\ conns[b].output <= LowWater => ~ clients[conns[b].client].over
    <2>1. ASSUME NEW t \in Slots, t # s
          PROVE  slots'[t].conn = slots[t].conn /\ slots'[t].backpressure = slots[t].backpressure
      BY <1>4, <2>1
    <2>2. /\ valid(conns, a) => /\ conns[a].output > HighWater => clients[conns[a].client].over
                                /\ conns[a].output <= LowWater => ~ clients[conns[a].client].over
      BY <1>0, <1>1, <1>6
    <2> QED
      BY <1>4, <1>6, <1>7, <2>1, <2>2
  <1>9. conns \in [Addrs -> Connection] /\ frame \in Frame /\ listening'
    BY <1>1 DEF TypeOK
  <1>10. /\ \A t \in Slots : slots'[t].conn # NoConn => valid(conns, slots'[t].conn)
         /\ \A b \in Addrs : valid(conns, b) => \E t \in Slots : slots'[t].conn = b
         /\ \A r, t \in Slots : slots'[r].conn = slots'[t].conn /\ slots'[r].conn # NoConn => r = t
    BY <1>2, <1>3, <1>5
  <1> QED
    BY <1>1, <1>2, <1>8, <1>9, <1>10, RecordsAgree, CallbackEnds

(* The callback that ends a connection closes it and unbinds its slot. *)
LEMMA ConnectionEnds ==
    ASSUME TypeOK, SlotsInv, ClientsInv, MonitorsInv, NEW a \in Addrs, NEW s \in Slots, Bound(s, a),
           slots' = unbind(s), slots' \in [Slots -> Slot],
           NEW cs \in {conns, close(conns, a)}, cs[a].state = "closed", NextCheck(cs) \/ Finish(cs),
           UNCHANGED <<options, listening, clients>>, listening,
           Ending(a) \/ Reporting(a), clients[conns[a].client].ends = 1,
           \A b \in Addrs : Ending(b) \/ Reporting(b) => b = a
    PROVE  SlotsInv' /\ ClientsInv' /\ MonitorsInv'
  <1>1. /\ cs \in [Addrs -> Connection]
        /\ \A b \in Addrs : b # a => cs[b] = conns[b]
        /\ cs[a].state = "closed" /\ cs[a].client = conns[a].client /\ ~ valid(cs, a)
        /\ conns[a].state # "none"
    <2>1. conns[a].state # "none"
      BY Sizes DEF SlotsInv, SlotRefers, Bound, valid
    <2> QED
      BY <2>1, CloseEffect DEF TypeOK, valid
  <1>2. /\ \A t \in Slots : t # s => slots'[t] = slots[t]
        /\ slots'[s].conn = NoConn /\ slots'[s].backpressure = reset
    BY DEF unbind, TypeOK, Slot
  <1>3. \A t \in Slots : t # s /\ slots[t].conn # NoConn =>
          slots[t].conn \in Addrs \ {a} /\ valid(conns, slots[t].conn) /\ valid(cs, slots[t].conn)
    <2>1. ASSUME NEW t \in Slots, t # s, slots[t].conn # NoConn PROVE slots[t].conn \in Addrs \ {a}
      BY <2>1 DEF SlotsInv, Bound, TypeOK, Slot
    <2>2. ASSUME NEW t \in Slots, t # s, slots[t].conn # NoConn PROVE valid(conns, slots[t].conn)
      BY <2>1, <2>2 DEF SlotsInv, SlotRefers
    <2> QED
      BY <1>1, <2>1, <2>2 DEF valid
  <1>4. \A t \in Slots : slots'[t].conn # NoConn => valid(cs, slots'[t].conn)
    BY <1>2, <1>3
  <1>5. \A b \in Addrs : valid(cs, b) => \E t \in Slots : slots'[t].conn = b
    <2>1. ASSUME NEW b \in Addrs, valid(cs, b) PROVE \E t \in Slots : slots'[t].conn = b
      <3>1. b # a /\ valid(conns, b)
        BY <1>1, <2>1 DEF valid
      <3>2. PICK t \in Slots : slots[t].conn = b
        BY <3>1 DEF SlotsInv, Bound
      <3> QED
        BY <1>2, <3>1, <3>2 DEF Bound
    <2> QED
      BY <2>1
  <1>6. \A r, t \in Slots : slots'[r].conn = slots'[t].conn /\ slots'[r].conn # NoConn => r = t
    BY <1>2 DEF SlotsInv
  <1>7. \A b \in Addrs : cs[b].state # "none" =>
          /\ cs[b].client \in Clients
          /\ clients'[cs[b].client].phase = "accepted"
          /\ clients'[cs[b].client].ends = IF cs[b].state = "closed" THEN 1 ELSE 0
          /\ \A c \in Addrs : cs[c].state # "none" /\ cs[c].client = cs[b].client => c = b
    <2>1. \A b \in Addrs : (cs[b].state # "none" <=> conns[b].state # "none") /\ cs[b].client = conns[b].client
      BY <1>1
    <2>2. ASSUME NEW b \in Addrs, cs[b].state # "none"
          PROVE  clients[conns[b].client].ends = IF cs[b].state = "closed" THEN 1 ELSE 0
      BY <1>1, <2>1, <2>2, RecordsAgree
    <2> QED
      BY <2>1, <2>2, RecordsAgree
  <1>8. \A p \in Clients :
          /\ clients'[p].phase # "accepted" =>
                clients'[p].ends = 0 /\ clients'[p].reports = 0 /\ ~ clients'[p].over
          /\ clients'[p].phase = "accepted" => clients'[p].ends = 1 \/ \E b \in Addrs :
                cs[b].state # "none" /\ cs[b].client = p
          /\ clients'[p].reports <= 1 /\ (clients'[p].reports = 1 => clients'[p].over)
    BY <1>1, RecordsAgree
  <1>9. \A t \in Slots : LET b == slots'[t].conn
                             k == slots'[t].backpressure
          IN  /\ k.over_high_polls >= trigger_polls => k.reported
              /\ valid(cs, b) =>
                   /\ clients'[cs[b].client].reports = 1 => k.reported
                   /\ cs[b].output > HighWater => clients'[cs[b].client].over
                   /\ cs[b].output <= LowWater => ~ clients'[cs[b].client].over
    <2>1. ASSUME NEW t \in Slots, t # s
          PROVE  LET b == slots'[t].conn
                     k == slots'[t].backpressure
                 IN  /\ k.over_high_polls >= trigger_polls => k.reported
                     /\ valid(cs, b) =>
                          /\ clients'[cs[b].client].reports = 1 => k.reported
                          /\ cs[b].output > HighWater => clients'[cs[b].client].over
                          /\ cs[b].output <= LowWater => ~ clients'[cs[b].client].over
      <3>1. valid(cs, slots[t].conn) => cs[slots[t].conn] = conns[slots[t].conn] /\ valid(conns, slots[t].conn)
        BY <1>1, <1>3, <2>1 DEF valid
      <3> QED
        BY <1>2, <2>1, <3>1 DEF MonitorsInv, MonitorAgrees
    <2>2. /\ reset.over_high_polls = 0 /\ trigger_polls \in Nat \ {0} /\ ~ valid(cs, NoConn)
      BY PollsAssumption DEF reset, trigger_polls, valid
    <2> QED
      BY <1>2, <2>1, <2>2
  <1>10. frame \in Frame /\ listening' /\ (NextCheck(cs) \/ Finish(cs))
    BY DEF TypeOK
  <1> QED
    BY <1>1, <1>4, <1>5, <1>6, <1>7, <1>8, <1>9, <1>10, CallbackEnds

LEMMA BackpressureReturnsStep ==
    ASSUME TypeOK, SlotsInv, ClientsInv, MonitorsInv, BackpressureReturns, slots' \in [Slots -> Slot]
    PROVE  SlotsInv' /\ ClientsInv' /\ MonitorsInv'
  <1>0. PICK s, a : s = frame.slot /\ a = slots[s].conn
    OBVIOUS
  <1>1. /\ frame.at = "on_backpressure" /\ listening
        /\ s \in Slots /\ a \in Addrs /\ Reporting(a) /\ Bound(s, a)
        /\ \A b \in Addrs : ~ Ending(b) /\ (Reporting(b) => b = a)
    BY <1>0 DEF BackpressureReturns, SlotsInv, TypeOK, Frame, Slot, Reporting, Ending, Bound
  <1>2. conns[a].state # "none" /\ conns[a].client \in Clients
    BY <1>0, <1>1, Sizes DEF SlotsInv, SlotRefers, valid, ClientsInv, ObjectAgrees
  <1>3. CASE options.close_on_limit
    <2>1. ~ valid(close(conns, a), a) /\ close(conns, a)[a].state = "closed"
      BY <1>1, <1>2, CloseEffect DEF TypeOK
    <2>2. slots' = unbind(s) /\ NextCheck(close(conns, a)) /\ UNCHANGED <<options, listening, clients>>
      BY <1>0, <1>3, <2>1 DEF BackpressureReturns
    <2>3. clients[conns[a].client].ends = 1
      BY <1>1, <1>2, <1>3 DEF ClientsInv, ObjectAgrees
    <2> QED
      BY <1>1, <2>1, <2>2, <2>3, ConnectionEnds
  <1>4. CASE ~ options.close_on_limit /\ ~ valid(conns, a)
    <2>1. conns[a].state = "closed"
      BY <1>0, <1>1, <1>4, Sizes DEF SlotsInv, SlotRefers
    <2>2. clients[conns[a].client].ends = 1
      BY <1>1, <2>1 DEF ClientsInv, ObjectAgrees
    <2>3. slots' = unbind(s) /\ NextCheck(conns) /\ UNCHANGED <<options, listening, clients>>
      BY <1>0, <1>4 DEF BackpressureReturns
    <2> QED
      BY <1>1, <2>1, <2>2, <2>3, ConnectionEnds
  <1>5. CASE ~ options.close_on_limit /\ valid(conns, a)
    <2>1. NextCheck(conns) /\ UNCHANGED <<options, listening, slots, clients>>
      BY <1>0, <1>5 DEF BackpressureReturns
    <2>2. \A t \in Slots : slots[t].conn # NoConn => valid(conns, slots[t].conn)
      <3>1. ASSUME NEW t \in Slots, slots[t].conn # NoConn PROVE valid(conns, slots[t].conn)
        BY <1>1, <1>5, <3>1 DEF SlotsInv, SlotRefers, TypeOK, Slot
      <3> QED
        BY <3>1
    <2> QED
      BY <1>1, <1>5, <2>1, <2>2, NothingEnds
  <1> QED
    BY <1>3, <1>4, <1>5

LEMMA EventReturnsStep ==
    ASSUME TypeOK, SlotsInv, ClientsInv, MonitorsInv, EventReturns, slots' \in [Slots -> Slot]
    PROVE  SlotsInv' /\ ClientsInv' /\ MonitorsInv'
  <1>0. PICK a : a = frame.conn
    OBVIOUS
  <1>1. /\ frame.at \in {"on_close", "on_error"} /\ listening
        /\ a \in Addrs /\ Ending(a)
        /\ \A b \in Addrs : ~ Reporting(b) /\ (Ending(b) => b = a)
    BY <1>0 DEF EventReturns, SlotsInv, Reporting, Ending
  <1>2. PICK s \in Slots : Bound(s, a)
    BY <1>1 DEF SlotsInv
  <1>3. /\ slots' = unbind(s) /\ Finish(close(conns, a))
        /\ UNCHANGED <<options, listening, clients>>
    BY <1>0, <1>1, <1>2, AcquiredBound DEF EventReturns, release
  <1>4. conns[a].state # "none" /\ clients[conns[a].client].ends = 1
    BY <1>1, <1>2, Sizes DEF SlotsInv, SlotRefers, Bound, valid, ClientsInv, ObjectAgrees
  <1>5. close(conns, a)[a].state = "closed"
    BY <1>1, <1>4, CloseEffect DEF TypeOK
  <1> QED
    BY <1>1, <1>2, <1>3, <1>4, <1>5, ConnectionEnds

(* The server is closed, or listens again, when nothing is left open. *)
LEMMA CloseServerStep ==
    ASSUME TypeOK, SlotsInv, ClientsInv, MonitorsInv, CloseServer \/ listen, AppUse = "careful"
    PROVE  SlotsInv' /\ ClientsInv' /\ MonitorsInv'
  <1>1. /\ frame.at = "loop" /\ UNCHANGED <<options, slots, frame, clients>>
        /\ conns' = [a \in Addrs |-> NoObject]
    BY DEF CloseServer, listen
  <1>2. \A a \in Addrs : conns[a].state = "none"
    <2>1. CASE listen
      BY <2>1 DEF listen, SlotsInv
    <2>2. CASE CloseServer
      <3>1. Cardinality({a \in Addrs : valid(conns, a)}) = 0
        BY <2>2 DEF CloseServer, connection_count
      <3>2. IsFiniteSet({a \in Addrs : valid(conns, a)})
        BY Sizes, FS_Subset
      <3>3. {a \in Addrs : valid(conns, a)} = {}
        BY <3>1, <3>2, FS_EmptySet
      <3>4. \A a \in Addrs : conns[a].state # "open"
        BY <3>3, Sizes DEF valid
      <3> QED
        BY <1>1, <3>4, LoopFacts
    <2> QED
      BY <2>1, <2>2
  <1>3. \A a \in Addrs : conns'[a].state = "none" /\ ~ valid(conns, a) /\ ~ valid(conns, a)'
    BY <1>1, <1>2 DEF NoObject, valid
  <1>4. \A s \in Slots : slots[s].conn = NoConn
    BY <1>1, <1>3, LoopFacts
  <1>5. SlotsInv'
    BY <1>1, <1>3, <1>4 DEF SlotsInv, SlotRefers, Ending, Reporting, Bound
  <1>6. ClientsInv'
    BY <1>1, <1>2, <1>3 DEF ClientsInv, ObjectAgrees, ClientAgrees
  <1>7. MonitorsInv'
    BY <1>1, <1>3, <1>4 DEF MonitorsInv, MonitorAgrees, ReportedOncePerOverrun, valid
  <1> QED
    BY <1>5, <1>6, <1>7

-----------------------------------------------------------------------------
(* The invariant of the server and the handler is inductive. *)
LEMMA ServerInvInit == Init => ServerInv
  <1> SUFFICES ASSUME Init PROVE ServerInv
    OBVIOUS
  <1>1. TypeOK
    BY ServerTypeInit
  <1>2. /\ \A s \in Slots : slots[s].conn = NoConn /\ slots[s].backpressure = reset
        /\ \A a \in Addrs : conns[a].state = "none"
        /\ frame.at = "loop"
        /\ \A p \in Clients : /\ clients[p].phase = "new" /\ clients[p].ends = 0
                              /\ clients[p].reports = 0 /\ ~ clients[p].over
    BY DEF Init, NoObject, InLoop
  <1>3. SlotsInv
    BY <1>2 DEF SlotsInv, SlotRefers, valid, Ending, Bound
  <1>4. ClientsInv
    BY <1>2 DEF ClientsInv, ObjectAgrees, ClientAgrees
  <1>5. reset.over_high_polls = 0 /\ trigger_polls \in Nat \ {0}
    BY PollsAssumption DEF reset, trigger_polls
  <1>6. MonitorsInv
    BY <1>2, <1>5 DEF MonitorsInv, MonitorAgrees, ReportedOncePerOverrun, valid
  <1> QED
    BY <1>1, <1>3, <1>4, <1>6 DEF ServerInv

LEMMA ServerInvStep == AppUse = "careful" /\ ServerInv /\ [Next]_vars => ServerInv'
  <1> SUFFICES ASSUME AppUse = "careful", TypeOK, SlotsInv, ClientsInv, MonitorsInv, [Next]_vars
               PROVE  SlotsInv' /\ ClientsInv' /\ MonitorsInv'
    BY ServerTypeStep DEF ServerInv
  <1>0. TypeOK' /\ slots' \in [Slots -> Slot]
    BY ServerTypeStep DEF TypeOK
  <1>1. ASSUME NEW p \in Clients, AcceptAtLimit(p) \/ AcceptWithoutBufferevent(p) \/ AcceptWithoutSlot(p)
        PROVE  SlotsInv' /\ ClientsInv' /\ MonitorsInv'
    <2>1. TurnAway(p)
      BY <1>1 DEF AcceptAtLimit, AcceptWithoutBufferevent, AcceptWithoutSlot
    <2> QED
      BY <2>1, TurnAwayStep
  <1>2. ASSUME NEW p \in Clients, Accept(p) PROVE SlotsInv' /\ ClientsInv' /\ MonitorsInv'
    BY <1>2, AcceptStep
  <1>3. CASE AcceptReturns
    BY <1>3, AcceptReturnsStep
  <1>4. ASSUME NEW a \in Addrs, NEW chunk \in Chunks, ReadCallback(a, chunk)
        PROVE  SlotsInv' /\ ClientsInv' /\ MonitorsInv'
    <2>1. PICK s \in Slots : Bound(s, a)
      BY <1>4 DEF ReadCallback, SlotsInv
    <2>2. AcquiredSlot(a) = {s} /\ acquire(s, a) = slots[s]
      BY <2>1, AcquiredBound DEF acquire
    <2>3. /\ slots' = slots /\ frame'.at = "reading" /\ frame.at = "loop" /\ listening
          /\ UNCHANGED <<options, listening, conns, clients>>
      BY <1>4, <2>2 DEF ReadCallback, SlotsInv, TypeOK, valid
    <2> QED
      BY <2>3, QuietStep
  <1>5. CASE BufferBytes
    <2>1. \A s \in Slots : slots'[s].conn = slots[s].conn /\ slots'[s].backpressure = slots[s].backpressure
      BY <1>5 DEF BufferBytes, TypeOK, Slot
    <2> QED
      BY <1>5, <2>1, QuietStep DEF BufferBytes, TypeOK, Frame
  <1>6. CASE EmitLine \/ ReadingEnds
    BY <1>6, QuietStep DEF EmitLine, ReadingEnds, TypeOK, Frame
  <1>7. CASE LineReturns
    <2>1. \A s \in Slots : slots'[s].conn = slots[s].conn /\ slots'[s].backpressure = slots[s].backpressure
      BY <1>7 DEF LineReturns, TypeOK, Slot
    <2> QED
      BY <1>7, <2>1, QuietStep DEF LineReturns, TypeOK, Frame
  <1>8. ASSUME NEW a \in Addrs, NEW n \in 1 .. MaxOutput, OutputDrains(a, n)
        PROVE  SlotsInv' /\ ClientsInv' /\ MonitorsInv'
    <2>1. n \in 0 .. MaxOutput
      BY Sizes
    <2> QED
      BY <1>8, <2>1, OutputStep DEF OutputDrains
  <1>9. ASSUME NEW a \in Addrs, WriteCallback(a) PROVE SlotsInv' /\ ClientsInv' /\ MonitorsInv'
    <2>1. PICK s \in Slots : Bound(s, a)
      BY <1>9 DEF WriteCallback, SlotsInv
    <2>2. /\ conns' = [conns EXCEPT ![a].output = 0] /\ Overrun(conns[a].client, 0)
          /\ frame.at = "loop" /\ frame'.at = "checking" /\ valid(conns, a)
          /\ UNCHANGED <<options, listening, slots>>
      BY <1>9, <2>1 DEF WriteCallback, InLoop
    <2>3. 0 \in 0 .. MaxOutput
      BY Sizes
    <2> QED
      BY <2>2, <2>3, OutputStep
  <1>10. CASE CheckSlot
    BY <1>0, <1>10, CheckSlotStep
  <1>11. CASE CheckReports
    BY <1>11, CheckReportsStep
  <1>12. CASE BackpressureReturns
    BY <1>0, <1>12, BackpressureReturnsStep
  <1>13. ASSUME NEW a \in Addrs, NEW at \in {"on_close", "on_error"}, EventCallback(a, at)
         PROVE  SlotsInv' /\ ClientsInv' /\ MonitorsInv'
    BY <1>13, EventCallbackStep
  <1>14. CASE EventReturns
    BY <1>0, <1>14, EventReturnsStep
  <1>15. ASSUME NEW a \in Addrs, write(a) PROVE SlotsInv' /\ ClientsInv' /\ MonitorsInv'
    <2>1. conns[a].output + 1 \in 0 .. MaxOutput
      BY <1>15, Sizes DEF write, TypeOK, Connection
    <2>2. conns' = [conns EXCEPT ![a].output = conns[a].output + 1]
      BY <1>15 DEF write
    <2>3. PICK n \in 0 .. MaxOutput : n = conns[a].output + 1
      BY <2>1
    <2> QED
      BY <1>15, <2>2, <2>3, OutputStep DEF write
  <1>16. ASSUME NEW a \in Addrs, AppClose(a) PROVE SlotsInv' /\ ClientsInv' /\ MonitorsInv'
    BY <1>16, AppCloseStep
  <1>17. CASE CloseServer \/ listen
    BY <1>17, CloseServerStep
  <1>18. CASE UNCHANGED vars
    <2>1. SlotsInv'
      BY <1>18 DEF vars, SlotsInv, SlotRefers, Ending, Reporting, Bound, valid
    <2>2. ClientsInv'
      BY <1>18 DEF vars, ClientsInv, ObjectAgrees, ClientAgrees, Ending, Reporting
    <2>3. MonitorsInv'
      BY <1>18 DEF vars, MonitorsInv, MonitorAgrees, ReportedOncePerOverrun, valid
    <2> QED
      BY <2>1, <2>2, <2>3
  <1> QED
    BY <1>1, <1>2, <1>3, <1>4, <1>5, <1>6, <1>7, <1>8, <1>9, <1>10, <1>11, <1>12, <1>13, <1>14,
       <1>15, <1>16, <1>17, <1>18
    DEF Next, Continue

(* Whatever the numbers of slots, addresses and clients, the state of the   *)
(* server, of the handler's slots and of the callback in progress agree, as *)
(* long as connections are closed where the handler looks at them again.    *)
THEOREM ServerSafety == AppUse = "careful" /\ Spec => []ServerInv
  <1> SUFFICES ASSUME AppUse = "careful" PROVE Spec => []ServerInv
    OBVIOUS
  <1>1. Init => ServerInv
    BY ServerInvInit
  <1>2. ServerInv /\ [Next]_vars => ServerInv'
    BY ServerInvStep
  <1> QED
    BY <1>1, <1>2, PTL DEF Spec

(* Types: every scan keeps to the slot table, every counter to its limit. *)
THEOREM ServerTypeCorrect == AppUse = "careful" /\ Spec => []TypeOK
  <1>1. ServerInv => TypeOK
    BY DEF ServerInv
  <1> QED
    BY <1>1, ServerSafety, PTL

(* acquire(), release() and sweep_closed() between them keep the slots in   *)
(* step with the connections: no slot refers to a destroyed object, none is *)
(* left bound after the callback, no connection has two or none.            *)
THEOREM ServerSlotsMirrorConnections == AppUse = "careful" /\ Spec => []SlotsMirrorConnections
  <1>1. ServerInv => SlotsMirrorConnections
    <2> SUFFICES ASSUME ServerInv PROVE SlotsMirrorConnections
      OBVIOUS
    <2>1. \A s \in Slots : slots[s].conn # NoConn => conns[slots[s].conn].state # "none"
      BY DEF ServerInv, SlotsInv, SlotRefers, valid
    <2>2. frame.at = "loop" => \A s \in Slots : slots[s].conn # NoConn => valid(conns, slots[s].conn)
      BY LoopFacts DEF ServerInv
    <2> QED
      BY <2>1, <2>2 DEF SlotsMirrorConnections, ServerInv, SlotsInv
  <1> QED
    BY <1>1, ServerSafety, PTL

(* notify_event() and the close on the limit between them tell the          *)
(* application of each connection's end once, and leave no open object.     *)
THEOREM ServerEndToldOnce == AppUse = "careful" /\ Spec => []EndToldOnce
  <1>1. ServerInv => EndToldOnce
    <2> SUFFICES ASSUME ServerInv, NEW p \in Clients
                 PROVE  /\ clients[p].ends <= 1
                        /\ clients[p].phase = "accepted" /\ Object(p) = {} => clients[p].ends = 1
                        /\ clients[p].ends = 1 /\ Object(p) # {} => frame.at # "loop"
      BY DEF EndToldOnce
    <2>1. \A a \in Addrs : a \in Object(p) <=> conns[a].state # "none" /\ conns[a].client = p
      BY DEF Object
    <2>2. \A a \in Object(p) : a \in Addrs /\ clients[p].ends \in {0, 1}
      BY <2>1 DEF Object, ServerInv, ClientsInv, ObjectAgrees
    <2>3. /\ clients[p].phase # "accepted" => clients[p].ends = 0
          /\ clients[p].phase = "accepted" => clients[p].ends = 1 \/ Object(p) # {}
      BY <2>1 DEF ServerInv, ClientsInv, ClientAgrees
    <2>4. ASSUME frame.at = "loop", NEW a \in Object(p) PROVE clients[p].ends = 0
      <3>1. a \in Addrs /\ conns[a].state = "open" /\ conns[a].client = p /\ ~ Ending(a) /\ ~ Reporting(a)
        BY <2>1, <2>2, <2>4, LoopFacts DEF ServerInv
      <3> QED
        BY <3>1 DEF ServerInv, ClientsInv, ObjectAgrees
    <2> QED
      BY <2>2, <2>3, <2>4
  <1> QED
    BY <1>1, ServerSafety, PTL

(* check_backpressure() reports an overrun once, however often it looks. *)
THEOREM ServerReportedOnce == AppUse = "careful" /\ Spec => []ReportedOncePerOverrun
  <1>1. ServerInv => ReportedOncePerOverrun
    BY DEF ServerInv, MonitorsInv
  <1> QED
    BY <1>1, ServerSafety, PTL

-----------------------------------------------------------------------------
(* Objects, open and closed, never outnumber max_connections_. *)
LEMMA ObjectsStep == ServerInv /\ ObjectsBounded /\ [Next]_vars => ObjectsBounded'
  <1> SUFFICES ASSUME ServerInv, ObjectsBounded, [Next]_vars PROVE ObjectsBounded'
    OBVIOUS
  <1> DEFINE objects(cs) == {a \in Addrs : cs[a].state # "none"}
  <1>1. \A cs : IsFiniteSet(objects(cs))
    BY Sizes, FS_Subset
  <1>2. options.max_connections \in Nat /\ Cardinality(objects(conns)) <= options.max_connections
    <2>1. options \in Options
      BY DEF ServerInv, TypeOK
    <2>2. Cardinality(Addrs) \in Nat
      BY Sizes, FS_CardinalityType
    <2> QED
      BY <2>1, <2>2, ServerSizesAssumption DEF ObjectsBounded
  <1>3. ASSUME NEW cs, objects(cs) \subseteq objects(conns)
        PROVE  Cardinality(objects(cs)) <= options.max_connections
    <2>1. Cardinality(objects(cs)) <= Cardinality(objects(conns))
      BY <1>1, <1>3, FS_Subset
    <2>2. Cardinality(objects(cs)) \in Nat /\ Cardinality(objects(conns)) \in Nat
      BY <1>1, FS_CardinalityType
    <2> QED
      BY <1>2, <2>1, <2>2
  <1>4. ASSUME NEW p \in Clients, Accept(p) PROVE ObjectsBounded'
    <2>1. sweep_closed(conns) = conns
      BY <1>4, SweepNothing DEF Accept, ServerInv
    <2>2. PICK a \in Addrs :
            conns' = [conns EXCEPT ![a] = [state |-> "open", client |-> p, output |-> 0]]
      BY <1>4, <2>1 DEF Accept
    <2>3. objects(conns') = objects(conns) \cup {a}
      BY <2>2 DEF ServerInv, TypeOK
    <2>4. objects(conns) = {b \in Addrs : valid(conns, b)}
      <3>1. \A b \in Addrs : b # NoConn /\ conns[b].state \in {"none", "open"}
        BY <1>4, LoopFacts, Sizes DEF Accept, ServerInv
      <3> QED
        BY <3>1 DEF valid
    <2>5. PICK S, T : S = objects(conns) /\ T = objects(conns')
      OBVIOUS
    <2>6. Cardinality(S) \in Nat /\ Cardinality(T) \in Nat /\ IsFiniteSet(S)
      BY <1>1, <2>5, FS_CardinalityType
    <2>7. ~ (Cardinality(S) >= options.max_connections)
      BY <1>4, <2>1, <2>4, <2>5 DEF Accept, AtLimit, connection_count
    <2>8. T = S \cup {a}
      BY <2>3, <2>5
    <2>9. Cardinality(T) <= Cardinality(S) + 1
      BY <2>6, <2>8, FS_AddElement
    <2>10. options' = options
      BY <1>4 DEF Accept
    <2> QED
      BY <1>2, <2>5, <2>6, <2>7, <2>9, <2>10 DEF ObjectsBounded
  <1>5. ASSUME options' = options, \A a \in Addrs : conns[a].state = "none" => conns'[a].state = "none"
        PROVE  ObjectsBounded'
    <2>1. objects(conns') \subseteq objects(conns)
      BY <1>5
    <2>2. Cardinality(objects(conns')) <= options.max_connections
      BY <1>3, <2>1
    <2> QED
      BY <1>5, <2>2 DEF ObjectsBounded
  <1>6. ASSUME NEW cs \in [Addrs -> Connection], Finish(cs) \/ NextCheck(cs), options' = options,
               \A a \in Addrs : conns[a].state = "none" => cs[a].state = "none"
        PROVE  ObjectsBounded'
    <2>1. conns' = cs \/ conns' = sweep_closed(cs)
      BY <1>6 DEF NextCheck, Finish
    <2>2. \A a \in Addrs : cs[a].state = "none" => sweep_closed(cs)[a].state = "none"
      BY <1>6, SweepEffect
    <2> QED
      BY <1>5, <1>6, <2>1, <2>2
  <1>7. /\ conns \in [Addrs -> Connection]
        /\ \A a \in Addrs : /\ close(conns, a) \in [Addrs -> Connection]
                            /\ \A b \in Addrs : conns[b].state = "none" => close(conns, a)[b].state = "none"
    <2>1. conns \in [Addrs -> Connection]
      BY DEF ServerInv, TypeOK
    <2>2. ASSUME NEW a \in Addrs, NEW b \in Addrs, conns[b].state = "none"
          PROVE  close(conns, a)[b].state = "none"
      BY <2>1, <2>2, CloseEffect
    <2> QED
      BY <2>1, <2>2, CloseEffect
  <1>8. ASSUME NEW p \in Clients, AcceptAtLimit(p) \/ AcceptWithoutBufferevent(p) \/ AcceptWithoutSlot(p)
        PROVE  ObjectsBounded'
    <2>1. conns' = sweep_closed(conns) /\ options' = options
      BY <1>8 DEF AcceptAtLimit, AcceptWithoutBufferevent, AcceptWithoutSlot, TurnAway
    <2> QED
      BY <1>5, <1>7, <2>1, SweepEffect
  <1>9. ASSUME NEW a \in Addrs, NEW chunk \in Chunks, ReadCallback(a, chunk) PROVE ObjectsBounded'
    <2>1. options' = options /\ (conns' = conns \/ Finish(close(conns, a)))
      BY <1>9 DEF ReadCallback
    <2> QED
      BY <1>5, <1>6, <1>7, <2>1
  <1>10. ASSUME NEW a \in Addrs, NEW n, options' = options, valid(conns, a),
                conns' = [conns EXCEPT ![a].output = n] \/ Finish([conns EXCEPT ![a].output = n])
         PROVE  ObjectsBounded'
    <2>1. \A b \in Addrs : conns[b].state = "none" => conns'[b].state = "none"
      BY <1>7, <1>10 DEF valid, Finish, sweep_closed, NoObject
    <2> QED
      BY <1>5, <1>10, <2>1
  <1>11. ASSUME NEW a \in Addrs, \/ \E n \in 1 .. MaxOutput : OutputDrains(a, n)
                                 \/ WriteCallback(a) \/ write(a) \/ AppClose(a)
                                 \/ \E at \in {"on_close", "on_error"} : EventCallback(a, at)
         PROVE  ObjectsBounded'
    <2>1. CASE \E n \in 1 .. MaxOutput : OutputDrains(a, n)
      BY <1>10, <2>1 DEF OutputDrains
    <2>2. CASE WriteCallback(a)
      <3>1. options' = options /\ valid(conns, a)
        BY <2>2 DEF WriteCallback
      <3>2. conns' = [conns EXCEPT ![a].output = 0] \/ Finish([conns EXCEPT ![a].output = 0])
        BY <2>2 DEF WriteCallback
      <3> QED
        BY <1>10, <3>1, <3>2
    <2>3. CASE write(a)
      <3>1. conns' = [conns EXCEPT ![a].output = conns[a].output + 1]
        BY <2>3 DEF write
      <3> QED
        BY <1>10, <2>3, <3>1 DEF write
    <2>4. CASE AppClose(a)
      BY <1>5, <1>7, <2>4 DEF AppClose
    <2>5. CASE \E at \in {"on_close", "on_error"} : EventCallback(a, at)
      BY <1>5, <2>5 DEF EventCallback
    <2> QED
      BY <1>11, <2>1, <2>2, <2>3, <2>4, <2>5
  <1>12. CASE CloseServer \/ listen
    BY <1>5, <1>12 DEF CloseServer, listen, NoObject
  <1>13. CASE AcceptReturns \/ CheckSlot
    BY <1>6, <1>7, <1>13 DEF AcceptReturns, CheckSlot
  <1>14. CASE BufferBytes \/ EmitLine \/ LineReturns \/ ReadingEnds \/ CheckReports \/ UNCHANGED vars
    BY <1>5, <1>14 DEF BufferBytes, EmitLine, LineReturns, ReadingEnds, CheckReports, vars
  <1>15. CASE BackpressureReturns
    <2>1. frame.at = "on_backpressure" /\ slots[frame.slot].conn \in Addrs
      BY <1>15 DEF BackpressureReturns, ServerInv, SlotsInv, TypeOK, Frame, Slot
    <2>2. options' = options /\ (NextCheck(conns) \/ NextCheck(close(conns, slots[frame.slot].conn)))
      BY <1>15 DEF BackpressureReturns
    <2> QED
      BY <1>6, <1>7, <2>1, <2>2
  <1>16. CASE EventReturns
    <2>1. frame.conn \in Addrs
      BY <1>16 DEF EventReturns, ServerInv, SlotsInv
    <2> QED
      BY <1>6, <1>7, <1>16, <2>1 DEF EventReturns
  <1> QED
    BY <1>4, <1>8, <1>9, <1>11, <1>12, <1>13, <1>14, <1>15, <1>16 DEF Next, Continue

(* accept_callback() counts open connections only, after a sweep: the       *)
(* objects it cannot see are gone by then.                                  *)
THEOREM ServerObjectsBounded == AppUse = "careful" /\ Spec => []ObjectsBounded
  <1> SUFFICES ASSUME AppUse = "careful" PROVE Spec => []ObjectsBounded
    OBVIOUS
  <1>1. Init => ObjectsBounded
    <2> SUFFICES ASSUME Init PROVE ObjectsBounded
      OBVIOUS
    <2>1. {a \in Addrs : conns[a].state # "none"} = {}
      BY DEF Init, NoObject
    <2>2. options.max_connections \in Nat
      BY ServerSizesAssumption, FS_CardinalityType DEF Init
    <2>3. PICK S : S = {a \in Addrs : conns[a].state # "none"}
      OBVIOUS
    <2>4. Cardinality(S) = 0
      BY <2>1, <2>3, FS_EmptySet
    <2> QED
      BY <2>2, <2>3, <2>4 DEF ObjectsBounded
  <1>2. ServerInv /\ ObjectsBounded /\ [Next]_vars => ObjectsBounded'
    BY ObjectsStep
  <1>3. Spec => []ServerInv
    BY ServerSafety
  <1> QED
    BY <1>1, <1>2, <1>3, PTL DEF Spec
=============================================================================
