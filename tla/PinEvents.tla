----------------------------- MODULE PinEvents -----------------------------
(***************************************************************************)
(* EventLoop::on_pin_event() on each of the pin event sources: a pass of   *)
(* the loop calls read_event() and the application's callback until there  *)
(* is no event left, while the pin changes and interrupts come at any      *)
(* moment.  The source is chosen in the initial state:                     *)
(*   "interrupt"  ArduinoInterruptPinEventSource; its read_event() is split *)
(*                in two steps, between which an interrupt waits as long as *)
(*                they are disabled;                                       *)
(*   "rising" ... ArduinoDigitalPinEventSource, by its event type;         *)
(*   "memory"     MemoryPinEventSource;                                    *)
(*   "gpiod"      LinuxGpiodPinEventSource, on a line of GpiodLine.        *)
(* On Arduino the pass begins with a reading of the clock, which extends   *)
(* the counter micros() that wraps at Wrap.                                *)
(***************************************************************************)
EXTENDS RingBuffer, GpiodLine, SequencesExt

CONSTANTS
    Kinds,       \* the sources to look at
    CountMax,    \* 0xffff in the code
    Wrap,        \* 2^32 in the code
    MaxTime,     \* bound: the time stops here
    MaxEvents,   \* bound: events of a line, and events pushed
    Kernel       \* external: events the kernel keeps for a line

ASSUME PinsAssumption ==
    /\ CountMax \in Nat \ {0} /\ Wrap \in Nat \ {0, 1} /\ MaxTime \in Nat
    /\ MaxEvents \in Nat /\ Kernel \in Nat \ {0}
    /\ Kinds \subseteq {"interrupt", "rising", "falling", "change", "high", "low", "memory", "gpiod"}

VARIABLES
    kind,      \* the source
    level,     \* of the pin
    now,       \* the time since the start
    clock,     \* Micros32Extender: [extended, last_raw], and ghost: when it was updated
    pc,        \* "idle", "read" (about to call read_event()), "copied", "callback"
    isr,       \* what the interrupt handler writes: [pending, dropped, timestamp, level]
    irq,       \* external: [masked, waiting], interrupts disabled, one is to come
    copy,      \* read_event()'s local variables
    last,      \* ArduinoDigitalPinEventSource: the last level, in a sequence of at most one
    ring,      \* MemoryPinEventSource: the events, by their numbers
    kernel,    \* external: the events of the line, [number, level], and how many there were
    sequence,  \* of LinuxGpiodPinEventSource in version 1
    event,     \* the last event that read_event() filled in, and last_info()
    ghost      \* what the source has seen and not told yet, and what was told last

sources == <<isr, irq, copy, last, ring, kernel, sequence, line>>
vars == <<kind, level, now, clock, pc, sources, event, ghost>>

Digital == {"rising", "falling", "change", "high", "low"}
Arduino == Digital \cup {"interrupt"}

NoEvent == [number |-> 0, level |-> FALSE, timestamp |-> 0, count |-> 0, dropped |-> 0]

raw == now % Wrap

Init ==
    /\ kind \in Kinds
    /\ level = FALSE /\ now = 0 /\ pc = "idle"
    /\ clock = [extended |-> 0, last_raw |-> 0, at |-> 0]
    /\ isr = [pending |-> 0, dropped |-> 0, timestamp |-> 0, level |-> FALSE]
    /\ irq = [masked |-> FALSE, waiting |-> FALSE]
    /\ copy = NoEvent
    /\ last = <<>>
    /\ ring = EmptyRing
    /\ kernel = [queue |-> <<>>, seen |-> 0]
    /\ sequence = 0
    /\ LineInit /\ (kind # "gpiod" => line = Closed(CHOOSE l \in Lines : TRUE))
    /\ event = NoEvent
    /\ ghost = [untold |-> <<>>, dropped |-> 0, told |-> <<>>]

-----------------------------------------------------------------------------
(* The pin, the time and the interrupts. *)

Advance ==
    /\ kind \in Arduino /\ now < MaxTime
    /\ now - clock.at < Wrap - 1
    /\ now' = now + 1
    /\ UNCHANGED <<kind, level, clock, pc, sources, event, ghost>>

(* External: the kernel numbers the edges of a requested line and keeps the *)
(* first ones in version 1, the last ones in version 2.                     *)
KernelSees ==
    LET e == [number |-> kernel.seen + 1, level |-> ~ level]
        full == Len(kernel.queue) = Kernel
    IN  /\ kernel.seen < MaxEvents
        /\ kernel' = [seen |-> kernel.seen + 1,
                      queue |-> CASE ~ full -> Append(kernel.queue, e)
                                  [] full /\ line.api = 1 -> kernel.queue
                                  [] OTHER -> Append(Tail(kernel.queue), e)]

Edge ==
    /\ level' = ~ level
    /\ \/ kind = "interrupt" /\ irq' = [irq EXCEPT !.waiting = TRUE] /\ UNCHANGED kernel
       \/ kind = "gpiod" /\ has_native_fd /\ KernelSees /\ UNCHANGED irq
       \/ kind \in Digital /\ UNCHANGED <<irq, kernel>>
    /\ UNCHANGED <<kind, now, clock, pc, isr, copy, last, ring, sequence, line, event, ghost>>

(* notify_from_isr(digitalRead(pin)); both counters have 16 bits. *)
notify_from_isr ==
    IF isr.pending = CountMax
    THEN /\ isr' = [isr EXCEPT !.dropped = (@ + 1) % (CountMax + 1)]
         /\ ghost' = [ghost EXCEPT !.dropped = (@ + 1) % (CountMax + 1)]
    ELSE /\ isr' = [isr EXCEPT !.pending = @ + 1, !.timestamp = raw, !.level = level]
         /\ ghost' = [ghost EXCEPT !.untold = Append(@, [timestamp |-> raw, level |-> level])]

Interrupt ==
    /\ irq.waiting /\ ~ irq.masked
    /\ irq' = [irq EXCEPT !.waiting = FALSE]
    /\ notify_from_isr
    /\ UNCHANGED <<kind, level, now, clock, pc, copy, last, ring, kernel, sequence, line, event>>

-----------------------------------------------------------------------------
(* A pass of the loop. *)

(* Seeded fault: the difference is taken of unbounded numbers. *)
update_NoWrap(c) == [extended |-> c.extended + (raw - c.last_raw), last_raw |-> raw, at |-> now]

(* Micros32Extender::update() *)
update(c) == [extended |-> c.extended + ((raw - c.last_raw) % Wrap), last_raw |-> raw, at |-> now]

(* run_once() calls the callback of a source without descriptor in every    *)
(* pass, and of one with a descriptor when it is readable.                  *)
Tick ==
    /\ pc = "idle"
    /\ kind = "gpiod" => /\ line.open /\ line.role = "events"
                         /\ has_native_fd => kernel.queue # <<>>
    /\ clock' = IF kind \in Arduino THEN update(clock) ELSE clock
    /\ pc' = "read"
    /\ UNCHANGED <<kind, level, now, sources, event, ghost>>

(* read_event() returns false: the pass is over. *)
Drained == pc' = "idle" /\ UNCHANGED <<event, ghost>>

Tell(e, g) == pc' = "callback" /\ event' = e /\ ghost' = g

CallbackReturns ==
    /\ pc = "callback"
    /\ pc' = "read"
    /\ event' = [NoEvent EXCEPT !.number = event.number]
    /\ ghost' = [ghost EXCEPT !.told = IF kind \in Digital THEN @ ELSE <<>>]
    /\ UNCHANGED <<kind, level, now, clock, sources>>

-----------------------------------------------------------------------------
(* ArduinoInterruptPinEventSource::read_event(): what the guard encloses is *)
(* the two steps, the second of which also fills in the event.              *)

(* Seeded fault: no guard. *)
CopyCounts_Unguarded ==
    /\ kind = "interrupt" /\ pc = "read"
    /\ IF isr.pending = 0
       THEN Drained /\ UNCHANGED copy
       ELSE /\ pc' = "copied"
            /\ copy' = [NoEvent EXCEPT !.count = isr.pending, !.dropped = isr.dropped]
            /\ UNCHANGED <<event, ghost>>
    /\ UNCHANGED <<kind, level, now, clock, isr, irq, last, ring, kernel, sequence, line>>

CopyCounts ==
    /\ kind = "interrupt" /\ pc = "read"
    /\ IF isr.pending = 0
       THEN Drained /\ UNCHANGED <<copy, irq>>
       ELSE /\ pc' = "copied"
            /\ copy' = [NoEvent EXCEPT !.count = isr.pending, !.dropped = isr.dropped]
            /\ irq' = [irq EXCEPT !.masked = TRUE]
            /\ UNCHANGED <<event, ghost>>
    /\ UNCHANGED <<kind, level, now, clock, isr, last, ring, kernel, sequence, line>>

(* The event counts the first interrupts that are untold, all there are. *)
TellCounted ==
    LET n == IF copy.count > Len(ghost.untold) THEN Len(ghost.untold) ELSE copy.count
    IN  Tell([copy EXCEPT !.timestamp = isr.timestamp, !.level = isr.level],
             [untold |-> SubSeq(ghost.untold, n + 1, Len(ghost.untold)),
              told |-> SubSeq(ghost.untold, 1, n),
              dropped |-> (ghost.dropped - copy.dropped) % (CountMax + 1)])

(* Seeded fault: the count is not taken back. *)
CopyRest_KeepsCount ==
    /\ kind = "interrupt" /\ pc = "copied"
    /\ isr' = [isr EXCEPT !.dropped = 0]
    /\ irq' = [irq EXCEPT !.masked = FALSE]
    /\ copy' = NoEvent
    /\ TellCounted
    /\ UNCHANGED <<kind, level, now, clock, last, ring, kernel, sequence, line>>

CopyRest ==
    /\ kind = "interrupt" /\ pc = "copied"
    /\ isr' = [isr EXCEPT !.pending = 0, !.dropped = 0]
    /\ irq' = [irq EXCEPT !.masked = FALSE]
    /\ copy' = NoEvent
    /\ TellCounted
    /\ UNCHANGED <<kind, level, now, clock, last, ring, kernel, sequence, line>>

(* ArduinoDigitalPinEventSource *)

matches(previous, current) ==
    CASE kind = "rising" -> ~ previous /\ current
      [] kind = "falling" -> previous /\ ~ current
      [] kind = "change" -> previous # current
      [] kind = "high" -> current
      [] kind = "low" -> ~ current

(* The first reading is only compared with the level of a level event. *)
IsEvent(current) ==
    IF last = <<>>
    THEN (kind = "high" /\ current) \/ (kind = "low" /\ ~ current)
    ELSE matches(last[1], current)

(* The samples since the last event, without repetitions. *)
Sampled == IF ghost.untold # <<>> /\ Last(ghost.untold) = level
           THEN ghost.untold ELSE Append(ghost.untold, level)

(* Seeded fault: the level is only remembered with an event. *)
ReadDigital_Forgets ==
    /\ kind \in Digital /\ pc = "read"
    /\ last' = IF last = <<>> \/ IsEvent(level) THEN <<level>> ELSE last
    /\ IF IsEvent(level)
       THEN Tell([NoEvent EXCEPT !.level = level, !.timestamp = raw],
                 [untold |-> <<level>>, told |-> Sampled, dropped |-> 0])
       ELSE pc' = "idle" /\ event' = event /\ ghost' = [ghost EXCEPT !.untold = Sampled]
    /\ UNCHANGED <<kind, level, now, clock, isr, irq, copy, ring, kernel, sequence, line>>

ReadDigital ==
    /\ kind \in Digital /\ pc = "read"
    /\ last' = <<level>>
    /\ IF IsEvent(level)
       THEN Tell([NoEvent EXCEPT !.level = level, !.timestamp = raw],
                 [untold |-> <<level>>, told |-> Sampled, dropped |-> 0])
       ELSE pc' = "idle" /\ event' = event /\ ghost' = [ghost EXCEPT !.untold = Sampled]
    /\ UNCHANGED <<kind, level, now, clock, isr, irq, copy, ring, kernel, sequence, line>>

(* MemoryPinEventSource *)

push(e) ==
    /\ kind = "memory" /\ pc \in {"idle", "callback"} /\ e \in 1 .. MaxEvents
    /\ IF ring.count >= Capacity
       THEN UNCHANGED <<ring, ghost>>
       ELSE ring' = put(ring, <<e>>) /\ ghost' = [ghost EXCEPT !.untold = Append(@, e)]
    /\ UNCHANGED <<kind, level, now, clock, pc, isr, irq, copy, last, kernel, sequence, line, event>>

clear ==
    /\ kind = "memory" /\ pc \in {"idle", "callback"}
    /\ ring' = cleared(ring) /\ ghost' = [ghost EXCEPT !.untold = <<>>]
    /\ UNCHANGED <<kind, level, now, clock, pc, isr, irq, copy, last, kernel, sequence, line, event>>

ReadMemory ==
    /\ kind = "memory" /\ pc = "read"
    /\ IF ring.count = 0
       THEN Drained /\ UNCHANGED ring
       ELSE /\ ring' = get(ring, 1)
            /\ Tell([NoEvent EXCEPT !.number = ring.cells[ring.head]],
                    [ghost EXCEPT !.untold = Tail(@), !.told = <<Head(ghost.untold)>>])
    /\ UNCHANGED <<kind, level, now, clock, isr, irq, copy, last, kernel, sequence, line>>

(* LinuxGpiodPinEventSource: libgpiod waits for an edge when there is none. *)
ReadLine ==
    /\ kind = "gpiod" /\ pc = "read"
    /\ \/ ~ valid /\ Drained /\ UNCHANGED <<kernel, sequence>>
       \/ /\ valid /\ kernel.queue # <<>>
          /\ kernel' = [kernel EXCEPT !.queue = Tail(@)]
          /\ sequence' = IF line.api = 1 THEN sequence + 1 ELSE sequence
          /\ LET e == Head(kernel.queue)
             IN  Tell([NoEvent EXCEPT !.level = e.level,
                                      !.number = IF line.api = 1 THEN sequence + 1 ELSE e.number],
                      [ghost EXCEPT !.told = <<event.number>>])
    /\ UNCHANGED <<kind, level, now, clock, isr, irq, copy, last, ring, line>>

(* External: the read fails. *)
ReadLineFails ==
    /\ kind = "gpiod" /\ pc = "read" /\ valid
    /\ Drained
    /\ UNCHANGED <<kind, level, now, clock, isr, irq, copy, last, ring, kernel, sequence, line>>

UseLine ==
    /\ kind = "gpiod" /\ pc = "idle"
    /\ \/ \E lost \in SUBSET Calls, initial \in BOOLEAN : Open(lost, initial) /\ UNCHANGED kernel
       \/ \E high \in BOOLEAN : Write(high) /\ UNCHANGED kernel
       \/ Close /\ kernel' = [queue |-> <<>>, seen |-> 0]
    /\ IF line.open /\ ~ line'.open
       THEN sequence' = 0 /\ event' = NoEvent /\ ghost' = [ghost EXCEPT !.told = <<>>]
       ELSE UNCHANGED <<sequence, event, ghost>>
    /\ UNCHANGED <<kind, level, now, clock, pc, isr, irq, copy, last, ring>>

-----------------------------------------------------------------------------
Step == CopyCounts \/ CopyRest \/ ReadDigital \/ ReadMemory \/ ReadLine \/ CallbackReturns

Next ==
    \/ Advance \/ Edge \/ Interrupt
    \/ Tick \/ Step \/ ReadLineFails
    \/ \E e \in 1 .. MaxEvents : push(e)
    \/ clear
    \/ UseLine

(* loop() is called over and over, and interrupts are served; a read need   *)
(* not fail.                                                                *)
Fairness == WF_vars(Tick) /\ WF_vars(Step) /\ WF_vars(Interrupt)

Spec == Init /\ [][Next]_vars
FairSpec == Spec /\ Fairness

-----------------------------------------------------------------------------
(* Every interrupt is counted in exactly one event or as dropped (modulo    *)
(* the 16 bits), and an event carries the time and the level of the last    *)
(* interrupt that it counts.                                                *)
InterruptsCounted ==
    kind = "interrupt" =>
        /\ isr.pending = Len(ghost.untold) /\ isr.dropped = ghost.dropped
        /\ isr.dropped > 0 => isr.pending = CountMax
        /\ pc = "callback" =>
             event.count = Len(ghost.told)
             /\ [timestamp |-> event.timestamp, level |-> event.level] = Last(ghost.told)

Rises(s) == \E i \in 1 .. Len(s) - 1 : ~ s[i] /\ s[i + 1]
Falls(s) == \E i \in 1 .. Len(s) - 1 : s[i] /\ ~ s[i + 1]

(* Between two events no condition that the source watches was sampled, and *)
(* an event means that it was; events pushed or numbered come in order.     *)
ConditionsReported ==
    LET quiet == ghost.untold
        told == ghost.told
        Never(l) == \A i \in 1 .. Len(quiet) : quiet[i] = l => i = 1 /\ told # <<>>
    IN  CASE kind = "rising" -> ~ Rises(quiet) /\ (told # <<>> => Rises(told) /\ Last(told))
          [] kind = "falling" -> ~ Falls(quiet) /\ (told # <<>> => Falls(told) /\ ~ Last(told))
          [] kind = "change" -> Len(quiet) <= 1 /\ (told # <<>> => Len(told) = 2)
          [] kind = "high" -> Never(TRUE) /\ (told # <<>> => Last(told))
          [] kind = "low" -> Never(FALSE) /\ (told # <<>> => ~ Last(told))
          [] kind = "memory" -> Content(ring) = quiet /\ (told # <<>> => told = <<event.number>>)
          [] kind = "gpiod" -> told # <<>> => event.number > told[1]
          [] OTHER -> TRUE

(* However often micros() wraps, the loop's clock does not, as long as the  *)
(* loop reads it once per turn of the counter.                              *)
ClockTracks == kind \in Arduino => clock.extended = clock.at

(* The loop gets out of a source once nothing new comes: an event is given  *)
(* out once.  Not so at a level source as long as the pin has the level, or *)
(* at a line, where the call for an event that is not there does not return. *)
Feeds == Edge \/ \E e \in 1 .. MaxEvents : push(e)

Holding == (kind = "high" /\ level) \/ (kind = "low" /\ ~ level) \/ kind = "gpiod"

DrainEnds == []<><<Feeds>>_vars \/ (pc # "idle" ~> pc = "idle" \/ Holding)

-----------------------------------------------------------------------------
(* Why: the inductive invariant, a part for each kind of source.            *)

(* What holds for all kinds. *)
StateInv ==
    /\ kind \in Kinds /\ level \in BOOLEAN /\ now \in Nat
    /\ pc \in {"idle", "read", "callback"} \/ (pc = "copied" /\ kind = "interrupt")
    /\ irq = [masked |-> irq.masked, waiting |-> irq.waiting]
    /\ irq.waiting => kind = "interrupt"
    /\ ghost = [untold |-> ghost.untold, dropped |-> ghost.dropped, told |-> ghost.told]

(* The clock was read less than a turn of the counter ago. *)
ClockAgrees ==
    kind \in Arduino =>
        /\ clock.at \in Nat /\ clock.at <= now /\ now - clock.at < Wrap
        /\ clock = [extended |-> clock.at, last_raw |-> clock.at % Wrap, at |-> clock.at]

Counted == [timestamp : Nat, level : BOOLEAN]

(* Interrupts wait while the counters are copied, so that what has been     *)
(* copied is what is taken back; time and level are of the last interrupt   *)
(* counted.                                                                 *)
CountsAgree ==
    kind = "interrupt" =>
        /\ isr.pending \in 0 .. CountMax /\ isr.dropped \in 0 .. CountMax
        /\ isr.timestamp \in Nat /\ isr.level \in BOOLEAN
        /\ isr = [pending |-> isr.pending, dropped |-> isr.dropped, timestamp |-> isr.timestamp,
                  level |-> isr.level]
        /\ irq.masked <=> pc = "copied"
        /\ ghost.untold \in Seq(Counted) /\ ghost.told \in Seq(Counted)
        /\ ghost.untold # <<>> =>
             Last(ghost.untold) = [timestamp |-> isr.timestamp, level |-> isr.level]
        /\ pc = "copied" =>
             /\ isr.pending > 0
             /\ copy = [NoEvent EXCEPT !.count = isr.pending, !.dropped = isr.dropped]

(* The level remembered is the last one sampled, and what an event told     *)
(* ends where the samples that follow begin.                                *)
SamplesAgree ==
    kind \in Digital =>
        /\ last = <<>> \/ \E b \in BOOLEAN : last = <<b>>
        /\ ghost.untold \in Seq(BOOLEAN) /\ ghost.told \in Seq(BOOLEAN)
        /\ last = <<>> <=> ghost.untold = <<>>
        /\ last = <<>> => ghost.told = <<>>
        /\ last # <<>> => Last(ghost.untold) = last[1]

MemoryAgrees ==
    kind = "memory" =>
        /\ RingOK(ring) /\ ring.cells \in [Cells -> (1 .. MaxEvents) \cup {Blank}]
        /\ ghost.untold \in Seq(1 .. MaxEvents)

KernelEvent == [number : Nat, level : BOOLEAN]

Ascending(queue, from, to) ==
    \A i \in 1 .. Len(queue) :
        /\ from < queue[i].number /\ queue[i].number <= to
        /\ \A j \in 1 .. i - 1 : queue[j].number < queue[i].number

(* The kernel's events come in the order of their numbers, after the one    *)
(* that was told last; in version 1 the source has its own.                 *)
NumbersAgree ==
    kind = "gpiod" =>
        /\ event.number \in Nat /\ sequence \in Nat /\ kernel.seen \in Nat
        /\ kernel = [queue |-> kernel.queue, seen |-> kernel.seen]
        /\ kernel.queue \in Seq(KernelEvent)
        /\ ghost.told \in Seq(Nat)
        /\ line.api = 1 => event.number = sequence
        /\ line.api = 2 =>
             event.number <= kernel.seen
             /\ Ascending(kernel.queue, event.number, kernel.seen)

PinsInv ==
    /\ StateInv /\ LineAgrees
    /\ ClockAgrees
    /\ CountsAgree /\ InterruptsCounted
    /\ SamplesAgree /\ MemoryAgrees /\ NumbersAgree /\ ConditionsReported
=============================================================================
