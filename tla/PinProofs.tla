----------------------------- MODULE PinProofs -----------------------------
(***************************************************************************)
(* Proofs about PinEvents and GpiodLine: PinsInv is an invariant, one part *)
(* of it at a time.                                                        *)
(***************************************************************************)
EXTENDS PinEvents, SequenceTheorems, TLAPS

(* Which actions touch what: the time and the clock, the line, and the rest *)
(* by the kind of the source.                                               *)
LEMMA Frames ==
    ASSUME [Next]_vars
    PROVE  /\ kind' = kind
           /\ Advance \/ Tick \/ UNCHANGED <<now, clock>>
           /\ UseLine \/ UNCHANGED line
<1>1. CASE Advance \/ Tick
  BY <1>1 DEF Advance, Tick, sources
<1>2. CASE Edge \/ Interrupt
  BY <1>2 DEF Edge, Interrupt
<1>3. CASE Step \/ ReadLineFails
  BY <1>3 DEF Step, CopyCounts, CopyRest, ReadDigital, ReadMemory, ReadLine, ReadLineFails,
              CallbackReturns, sources
<1>4. CASE \E e \in 1 .. MaxEvents : push(e)
  BY <1>4 DEF push
<1>5. CASE clear
  BY <1>5 DEF clear
<1>6. CASE UseLine
  BY <1>6 DEF UseLine
<1>7. CASE UNCHANGED vars
  BY <1>7 DEF vars, sources
<1>8. QED
  BY <1>1, <1>2, <1>3, <1>4, <1>5, <1>6, <1>7 DEF Next

LEMMA StateStep ==
    ASSUME StateInv, [Next]_vars
    PROVE  StateInv'
<1>1. CASE Advance \/ Tick \/ UNCHANGED vars
  BY <1>1 DEF Advance, Tick, vars, sources, StateInv
<1>2. CASE Edge
  BY <1>2 DEF Edge, StateInv
<1>3. CASE Interrupt
  BY <1>3 DEF Interrupt, notify_from_isr, StateInv
<1>4. CASE CopyCounts \/ CopyRest
  BY <1>4 DEF CopyCounts, CopyRest, Drained, TellCounted, Tell, StateInv
<1>5. CASE ReadDigital
  BY <1>5 DEF ReadDigital, Tell, StateInv
<1>6. CASE ReadMemory \/ ReadLine \/ ReadLineFails
  BY <1>6 DEF ReadMemory, ReadLine, ReadLineFails, Drained, Tell, StateInv
<1>7. CASE CallbackReturns
  BY <1>7 DEF CallbackReturns, StateInv, sources
<1>8. CASE (\E e \in 1 .. MaxEvents : push(e)) \/ clear
  BY <1>8 DEF push, clear, StateInv
<1>9. CASE UseLine
  BY <1>9 DEF UseLine, StateInv
<1>10. QED
  BY <1>1, <1>2, <1>3, <1>4, <1>5, <1>6, <1>7, <1>8, <1>9 DEF Next, Step

-----------------------------------------------------------------------------
(* The line. *)

(* What libgpiod has given out is the set X, each thing once. *)
Once(X) == [r \in Given |-> IF r \in X THEN 1 ELSE 0]

LEMMA MadeOnce ==
    ASSUME NEW X, NEW s, s.given = Once(X), NEW new, new \cap X = {}
    PROVE  /\ Made(s, new).given = Once(X \cup new)
           /\ Made(s, new).points = s.points \cup new
BY DEF Made, Once

LEMMA FreedOnce ==
    ASSUME NEW X, NEW s, s.given = Once(X), NEW old, old \cap Given \subseteq X
    PROVE  Freed(s, old) = Once(X \ old)
BY DEF Freed, Once

LEMMA OnceOfNothing == Once({}) = [r \in Given |-> 0] /\ \A X : Once(X) \in [Given -> Int]
BY DEF Once

(* Version 2: whichever calls fail, what is left are the members' own. *)
LEMMA MadeByV2Once ==
    ASSUME NEW s, s.given = Once({}), s.points = {},
           NEW role \in Roles, NEW lost \in SUBSET Calls,
           NEW made, made = MadeByV2(s, role, lost)
    PROVE  made.given = Once(made.points \cap Members(2))
<1> DEFINE chip == Made(s, {"chip"})
           setup == Made(chip, Setup \ lost)
           asked == lost \cap (Setup \cup {"add_line_settings", "request"}) = {}
           request == IF asked THEN Made(setup, {"request"}) ELSE setup
           X == {"chip"} \cup (Setup \ lost) \cup IF asked THEN {"request"} ELSE {}
           clean == cleanup_setup(request)
<1>1. chip.given = Once({"chip"}) /\ chip.points = {"chip"}
  BY MadeOnce
<1>2. setup.given = Once({"chip"} \cup (Setup \ lost)) /\ setup.points = {"chip"} \cup (Setup \ lost)
  <2>1. (Setup \ lost) \cap {"chip"} = {}
    BY DEF Setup
  <2>2. QED
    BY <1>1, <2>1, MadeOnce
<1>3. request.given = Once(X) /\ request.points = X
  <2>1. {"request"} \cap ({"chip"} \cup (Setup \ lost)) = {}
    BY DEF Setup
  <2>2. /\ Made(setup, {"request"}).given = Once({"chip"} \cup (Setup \ lost) \cup {"request"})
        /\ Made(setup, {"request"}).points = {"chip"} \cup (Setup \ lost) \cup {"request"}
    <3>1. PICK st, Y : st = setup /\ Y = {"chip"} \cup (Setup \ lost)
      OBVIOUS
    <3>2. st.given = Once(Y) /\ st.points = Y /\ {"request"} \cap Y = {}
      BY <1>2, <2>1, <3>1
    <3>3. /\ Made(st, {"request"}).given = Once(Y \cup {"request"})
          /\ Made(st, {"request"}).points = Y \cup {"request"}
      BY <3>2, MadeOnce
    <3>4. QED
      BY <3>1, <3>3
  <2>3. CASE asked
    BY <2>2, <2>3
  <2>4. CASE ~ asked
    BY <1>2, <2>4
  <2>5. QED
    BY <2>3, <2>4
<1>4. clean.given = Once(X \ Setup) /\ clean.points = X
  <2>1. PICK req : req = request
    OBVIOUS
  <2>2. Freed(req, X \cap Setup) = Once(X \ (X \cap Setup))
    BY <1>3, <2>1, FreedOnce
  <2>3. X \ (X \cap Setup) = X \ Setup
    OBVIOUS
  <2>4. QED
    BY <1>3, <2>1, <2>2, <2>3 DEF cleanup_setup, Made
<1>5. X \ Setup = X \cap {"chip", "request"} /\ "chip" \in X /\ "buffer" \notin X
  BY DEF Setup
<1>6. made = CASE "chip" \in lost -> s
               [] "chip" \notin lost /\ role = "events" ->
                    IF "request" \in clean.points THEN Made(clean, {"buffer"} \ lost) ELSE clean
               [] OTHER -> [given |-> Freed(clean, {"chip"}), points |-> clean.points \ {"chip"}]
  BY DEF MadeByV2
<1> HIDE DEF chip, setup, asked, request, clean, X
<1>7. CASE "chip" \in lost
  BY <1>6, <1>7
<1>8. CASE "chip" \notin lost /\ role = "events" /\ "request" \notin X
  <2>1. made = clean
    BY <1>4, <1>6, <1>8
  <2>2. X \cap Members(2) = X \ Setup
    BY <1>5 DEF Members
  <2>3. QED
    BY <1>4, <2>1, <2>2
<1>9. CASE "chip" \notin lost /\ role = "events" /\ "request" \in X
  <2>1. made = Made(clean, {"buffer"} \ lost)
    BY <1>4, <1>6, <1>9
  <2>2. ({"buffer"} \ lost) \cap (X \ Setup) = {}
    BY <1>5
  <2>3. /\ made.given = Once((X \ Setup) \cup ({"buffer"} \ lost))
        /\ made.points = X \cup ({"buffer"} \ lost)
    BY <1>4, <2>1, <2>2, MadeOnce
  <2>4. (X \cup ({"buffer"} \ lost)) \cap Members(2) = (X \ Setup) \cup ({"buffer"} \ lost)
    BY <1>5 DEF Members
  <2>5. QED
    BY <2>3, <2>4
<1>10. CASE "chip" \notin lost /\ role # "events"
  <2>1. made = [given |-> Freed(clean, {"chip"}), points |-> X \ {"chip"}]
    BY <1>4, <1>6, <1>10
  <2>2. Freed(clean, {"chip"}) = Once((X \ Setup) \ {"chip"})
    <3>1. {"chip"} \cap Given \subseteq X \ Setup
      BY <1>5
    <3>2. QED
      BY <1>4, <3>1, FreedOnce
  <2>3. (X \ {"chip"}) \cap Members(2) = (X \ Setup) \ {"chip"}
    BY <1>5 DEF Members
  <2>4. QED
    BY <2>1, <2>2, <2>3
<1>11. QED
  BY <1>7, <1>8, <1>9, <1>10

(* Version 1: all is there, or nothing. *)
LEMMA MadeByV1Once ==
    ASSUME NEW s, s.given = Once({}), s.points = {}, NEW lost \in SUBSET Calls,
           NEW made, made = MadeByV1(s, lost)
    PROVE  \/ made.given = Once({}) /\ made.points = {}
           \/ made.given = Once({"chip", "line", "request"}) /\ made.points = {"chip", "line"}
<1> DEFINE chip == Made(s, {"chip"})
           got == Made(chip, {"line"})
<1>1. chip.given = Once({"chip"}) /\ chip.points = {"chip"}
  BY MadeOnce
<1>2. got.given = Once({"chip", "line"}) /\ got.points = {"chip", "line"}
  <2>1. {"line"} \cap {"chip"} = {} /\ {"chip"} \cup {"line"} = {"chip", "line"}
    OBVIOUS
  <2>2. QED
    BY <1>1, <2>1, MadeOnce
<1>3. close(chip).given = Once({}) /\ close(chip).points = {}
  <2>1. Freed(chip, {"chip"}) = Once({"chip"} \ {"chip"})
    BY <1>1, FreedOnce
  <2>2. {"chip"} \ {"chip"} = {} /\ {"chip"} \cup {} = {"chip"}
    OBVIOUS
  <2>3. QED
    BY <1>1, <2>1, <2>2 DEF close
<1>4. close(got).given = Once({}) /\ close(got).points = {}
  <2>1. Freed(got, {"chip", "line"}) = Once({"chip", "line"} \ {"chip", "line"})
    BY <1>2, FreedOnce
  <2>2. {"chip", "line"} \ {"chip", "line"} = {} /\ {"chip", "line"} \cup {} = {"chip", "line"}
    OBVIOUS
  <2>3. ~ got.given["request"] > 0
    BY <1>2 DEF Once, Given
  <2>4. QED
    BY <1>2, <2>1, <2>2, <2>3 DEF close
<1>5. /\ RequestOf(got).given = Once({"chip", "line", "request"})
      /\ RequestOf(got).points = {"chip", "line"}
  <2>1. {"request"} \cap {"chip", "line"} = {}
        /\ {"chip", "line"} \cup {"request"} = {"chip", "line", "request"}
    OBVIOUS
  <2>2. Made(got, {"request"}).given = Once({"chip", "line", "request"})
    BY <1>2, <2>1, MadeOnce
  <2>3. QED
    BY <1>2, <2>2 DEF RequestOf, Made
<1>6. made \in {s, close(chip), close(got), RequestOf(got)}
  BY DEF MadeByV1
<1> HIDE DEF chip, got
<1>7. QED
  BY <1>3, <1>4, <1>5, <1>6

(* close() gives back all that there is. *)
LEMMA CloseOnce ==
    ASSUME LineAgrees
    PROVE  close([given |-> line.given, points |-> line.held]).given = Once({})
<1> DEFINE X == {r \in Given : Pointer(r) \in line.held}
           requested == "line" \in line.held /\ line.given["request"] > 0
           old == line.held \cup IF requested THEN {"request"} ELSE {}
<1>1. line.given = Once(X)
  BY DEF LineAgrees, Once
<1>2. old \cap Given \subseteq X /\ X \subseteq old
  <2>1. CASE line.api = 1
    <3>1. line.held \subseteq {"chip", "line"}
      BY <2>1 DEF LineAgrees, Members
    <3>2. "request" \in Given /\ "line" \notin Given
      BY DEF Given, Setup
    <3>3. "line" \in line.held <=> "request" \in X
      BY <2>1, <3>2 DEF Pointer
    <3>4. requested <=> "line" \in line.held
      BY <2>1, <3>2 DEF LineAgrees, Pointer
    <3>5. \A r \in Given : r # "request" => (r \in X <=> r \in line.held)
      BY DEF Pointer
    <3>6. QED
      BY <3>1, <3>2, <3>3, <3>4, <3>5
  <2>2. CASE line.api = 2
    <3>1. line.held \subseteq Given /\ "line" \notin line.held
      BY <2>2 DEF LineAgrees, Members, Given, Setup
    <3>2. X = line.held
      BY <2>2, <3>1 DEF Pointer
    <3>3. QED
      BY <3>1, <3>2
  <2>3. QED
    BY <2>1, <2>2 DEF LineAgrees
<1>3. PICK s : s = [given |-> line.given, points |-> line.held]
  OBVIOUS
<1>4. close(s).given = Freed(s, old)
  BY <1>3 DEF close
<1> HIDE DEF X, old
<1>5. Freed(s, old) = Once(X \ old) /\ X \ old = {}
  BY <1>1, <1>2, <1>3, FreedOnce
<1>6. QED
  BY <1>3, <1>4, <1>5

LEMMA LineStep ==
    ASSUME LineAgrees, [Next]_vars
    PROVE  LineAgrees'
<1>1. CASE UNCHANGED line
  BY <1>1 DEF LineAgrees, Pointer
<1>2. CASE UseLine
  <2>1. ASSUME NEW lost \in SUBSET Calls, NEW initial \in BOOLEAN, Open(lost, initial)
        PROVE  LineAgrees'
    <3>1. PICK s : s = [given |-> line.given, points |-> {}]
      OBVIOUS
    <3>2. PICK made : made = IF line.api = 2 THEN MadeByV2(s, line.role, lost) ELSE MadeByV1(s, lost)
      OBVIOUS
    <3>3. s.given = Once({}) /\ s.points = {}
      BY <2>1, <3>1 DEF LineAgrees, Once, Open
    <3>4. /\ line'.api = line.api /\ line'.role = line.role /\ line'.open = TRUE
          /\ line'.given = made.given /\ line'.held = made.points \cap Members(line.api)
          /\ line' = [api |-> line'.api, role |-> line'.role, open |-> line'.open,
                      given |-> line'.given, held |-> line'.held, value |-> line'.value]
      BY <2>1, <3>1, <3>2 DEF Open, LineAgrees
    <3>5. /\ made.given \in [Given -> Int]
          /\ \A r \in Given : made.given[r] =
                IF Pointer(r) \in made.points \cap Members(line.api) THEN 1 ELSE 0
      <4>1. CASE line.api = 2
        <5>1. made.given = Once(made.points \cap Members(2))
          BY <3>2, <3>3, <4>1, MadeByV2Once DEF LineAgrees
        <5>2. \A r \in Given : Pointer(r) = r
          BY <4>1 DEF Pointer
        <5>3. QED
          BY <4>1, <5>1, <5>2, OnceOfNothing DEF Once
      <4>2. CASE line.api = 1
        <5>1. \/ made.given = Once({}) /\ made.points = {}
              \/ made.given = Once({"chip", "line", "request"}) /\ made.points = {"chip", "line"}
          BY <3>2, <3>3, <4>2, MadeByV1Once
        <5>2. made.points \cap Members(line.api) = made.points
          BY <4>2, <5>1 DEF Members
        <5>3. "line" \notin Given
          BY DEF Given, Setup
        <5>4. \A r \in Given : Pointer(r) \in {"chip", "line"} <=> r \in {"chip", "line", "request"}
          BY <4>2, <5>3 DEF Pointer
        <5>5. QED
          BY <5>1, <5>2, <5>4, OnceOfNothing DEF Once
      <4>3. QED
        BY <4>1, <4>2 DEF LineAgrees
    <3>6. \A r : Pointer(r)' = Pointer(r)
      BY <3>4 DEF Pointer
    <3>7. QED
      BY <3>4, <3>5, <3>6 DEF LineAgrees
  <2>2. ASSUME NEW high \in BOOLEAN, Write(high) PROVE LineAgrees'
    BY <2>2 DEF Write, LineAgrees, Pointer
  <2>3. CASE Close
    <3>1. line' = [Closed(line) EXCEPT !.given = [r \in Given |-> 0]]
      BY <2>3, CloseOnce, OnceOfNothing DEF Close
    <3>2. /\ line'.api = line.api /\ line'.role = line.role /\ line'.held = {}
          /\ line'.given = [r \in Given |-> 0]
          /\ line' = [api |-> line'.api, role |-> line'.role, open |-> line'.open,
                      given |-> line'.given, held |-> line'.held, value |-> line'.value]
      BY <3>1 DEF Closed
    <3>3. QED
      BY <3>2 DEF LineAgrees
  <2>4. QED
    BY <1>2, <2>1, <2>2, <2>3 DEF UseLine
<1>3. QED
  BY <1>1, <1>2, Frames

LEMMA LineSafe == LineAgrees => NothingLeaks
<1> SUFFICES ASSUME LineAgrees PROVE NothingLeaks
  OBVIOUS
<1>1. "request" \in Given /\ (valid => Pointer("request") \in line.held)
  BY DEF Given, valid, Pointer, LineAgrees
<1>2. QED
  BY <1>1 DEF LineAgrees, NothingLeaks

-----------------------------------------------------------------------------
(* The clock. *)

(* Two readings of a counter that wraps give the time between them, if that *)
(* is less than a turn of it.                                               *)
LEMMA CounterDifference ==
    ASSUME NEW W \in Int, W > 0, NEW a \in Int, NEW d \in 0 .. W - 1
    PROVE  (((a + d) % W) - (a % W)) % W = d
<1>1. a = W * (a \div W) + (a % W) /\ a % W \in 0 .. W - 1
  OBVIOUS
<1>2. PICK q \in Int, r \in 0 .. W - 1 : a = W * q + r /\ r = a % W
  <2>1. a \div W \in Int
    OBVIOUS
  <2>2. QED
    BY <1>1, <2>1
<1>3. CASE r + d < W
  <2>1. (W * q + (r + d)) % W = r + d /\ a + d = W * q + (r + d)
    BY <1>2, <1>3
  <2>2. QED
    BY <1>2, <2>1
<1>4. CASE ~ r + d < W
  <2>1. PICK u \in Int, x \in 0 .. W - 1 : u = q + 1 /\ x = r + d - W
    BY <1>4
  <2>2. (W * u + x) % W = x
    OBVIOUS
  <2>3. a + d = W * u + x
    BY <1>2, <2>1
  <2>4. (d - W) % W = d
    OBVIOUS
  <2>5. QED
    BY <1>2, <2>1, <2>2, <2>3, <2>4
<1>5. QED
  BY <1>3, <1>4

LEMMA ClockStep ==
    ASSUME StateInv, ClockAgrees, [Next]_vars
    PROVE  ClockAgrees' /\ now' \in Nat
<1>1. kind' = kind /\ now \in Nat /\ Wrap \in Int /\ Wrap > 0
  BY Frames, PinsAssumption DEF StateInv
<1>2. CASE UNCHANGED <<now, clock>>
  BY <1>1, <1>2 DEF ClockAgrees
<1>3. CASE Advance
  BY <1>1, <1>3 DEF Advance, ClockAgrees
<1>4. CASE Tick
  <2>1. now' = now
    BY <1>4 DEF Tick
  <2>2. CASE kind \in Arduino
    <3>1. PICK a \in Nat, d \in 0 .. Wrap - 1 :
             now = a + d /\ clock = [extended |-> a, last_raw |-> a % Wrap, at |-> a]
      <4>1. clock.at \in Nat /\ now - clock.at \in 0 .. Wrap - 1
            /\ now = clock.at + (now - clock.at)
        BY <1>1, <2>2 DEF ClockAgrees
      <4>2. QED
        BY <2>2, <4>1 DEF ClockAgrees
    <3>2. (((a + d) % Wrap) - (a % Wrap)) % Wrap = d
      <4>1. Wrap \in Int /\ Wrap > 0 /\ a \in Int
        BY <1>1
      <4>2. QED
        BY <4>1, CounterDifference
    <3>3. (raw - clock.last_raw) % Wrap = d
      BY <3>1, <3>2 DEF raw
    <3>4. clock' = [extended |-> now, last_raw |-> now % Wrap, at |-> now]
      BY <1>4, <2>2, <3>1, <3>3 DEF Tick, update, raw
    <3>5. QED
      BY <1>1, <2>1, <3>4 DEF ClockAgrees
  <2>3. QED
    BY <1>1, <2>1, <2>2 DEF ClockAgrees
<1>5. QED
  BY <1>2, <1>3, <1>4, Frames

LEMMA ClockSafe == ClockAgrees => ClockTracks
BY DEF ClockAgrees, ClockTracks

-----------------------------------------------------------------------------
(* The interrupts. *)

(* Which actions an interrupt source takes, and what the others leave alone. *)
LEMMA CountFrames ==
    ASSUME kind = "interrupt", [Next]_vars
    PROVE  \/ Interrupt \/ CopyCounts \/ CopyRest \/ CallbackReturns
           \/ pc = "idle" /\ pc' = "read"
              /\ UNCHANGED <<isr, irq, copy, event, ghost>>
           \/ /\ UNCHANGED <<pc, isr, copy, event, ghost>>
              /\ (irq' = irq \/ irq' = [irq EXCEPT !.waiting = TRUE])
<1>1. CASE Advance \/ UNCHANGED vars
  BY <1>1 DEF Advance, vars, sources
<1>2. CASE Edge
  BY <1>2 DEF Edge, Digital
<1>3. CASE Tick
  BY <1>3 DEF Tick, sources
<1>4. CASE Step \/ ReadLineFails
  BY <1>4 DEF Step, ReadDigital, ReadMemory, ReadLine, ReadLineFails, Digital
<1>5. CASE (\E e \in 1 .. MaxEvents : push(e)) \/ clear \/ UseLine
  BY <1>5 DEF push, clear, UseLine
<1>6. QED
  BY <1>1, <1>2, <1>3, <1>4, <1>5 DEF Next

LEMMA LastOfAppend ==
    ASSUME NEW S, NEW s \in Seq(S), NEW e \in S
    PROVE  /\ Append(s, e) \in Seq(S) /\ Append(s, e) # <<>> /\ Last(Append(s, e)) = e
           /\ Len(Append(s, e)) = Len(s) + 1
BY DEF Last

LEMMA InterruptCounts ==
    ASSUME StateInv, ClockAgrees, CountsAgree, InterruptsCounted, kind = "interrupt", Interrupt
    PROVE  (CountsAgree /\ InterruptsCounted)'
<1>1. kind' = kind /\ pc' = pc /\ pc # "copied" /\ UNCHANGED <<event, copy>>
      /\ irq' = [irq EXCEPT !.waiting = FALSE]
  BY DEF Interrupt, CountsAgree
<1>2. CountMax \in Nat \ {0} /\ raw \in Nat /\ level \in BOOLEAN
  BY PinsAssumption DEF StateInv, raw
<1>3. irq' = [masked |-> irq.masked, waiting |-> FALSE]
  BY <1>1 DEF StateInv
<1>4. CASE isr.pending = CountMax
  <2>1. PICK d \in 0 .. CountMax : d = (isr.dropped + 1) % (CountMax + 1)
    BY <1>2 DEF CountsAgree
  <2>2. isr' = [isr EXCEPT !.dropped = d] /\ ghost' = [ghost EXCEPT !.dropped = d]
    BY <1>4, <2>1 DEF Interrupt, notify_from_isr, InterruptsCounted
  <2>3. isr' = [pending |-> isr.pending, dropped |-> d, timestamp |-> isr.timestamp,
                level |-> isr.level]
    BY <2>2 DEF CountsAgree
  <2>4. ghost' = [untold |-> ghost.untold, dropped |-> d, told |-> ghost.told]
    BY <2>2 DEF StateInv
  <2>5. CountsAgree'
    BY <1>1, <1>3, <2>3, <2>4 DEF CountsAgree
  <2>6. InterruptsCounted'
    BY <1>1, <1>4, <2>3, <2>4 DEF InterruptsCounted
  <2>7. QED
    BY <2>5, <2>6
<1>5. CASE isr.pending # CountMax
  <2>1. PICK e \in Counted : e = [timestamp |-> raw, level |-> level]
    BY <1>2 DEF Counted
  <2>2. /\ isr' = [isr EXCEPT !.pending = @ + 1, !.timestamp = raw, !.level = level]
        /\ ghost' = [ghost EXCEPT !.untold = Append(@, e)]
    BY <1>5, <2>1 DEF Interrupt, notify_from_isr
  <2>3. isr' = [pending |-> isr.pending + 1, dropped |-> isr.dropped, timestamp |-> raw,
                level |-> level]
    BY <2>2 DEF CountsAgree
  <2>4. ghost' = [untold |-> Append(ghost.untold, e), dropped |-> ghost.dropped,
                  told |-> ghost.told]
    BY <2>2 DEF StateInv
  <2>5. /\ Append(ghost.untold, e) \in Seq(Counted) /\ Last(Append(ghost.untold, e)) = e
        /\ Len(Append(ghost.untold, e)) = Len(ghost.untold) + 1
    BY LastOfAppend DEF CountsAgree
  <2>6. CountsAgree'
    <3>1. isr.pending + 1 \in 0 .. CountMax
      BY <1>2, <1>5 DEF CountsAgree
    <3>2. Last(ghost'.untold) = [timestamp |-> isr'.timestamp, level |-> isr'.level]
          /\ ghost'.untold \in Seq(Counted) /\ ghost'.told = ghost.told
      BY <2>1, <2>3, <2>4, <2>5
    <3>3. irq' = [masked |-> irq'.masked, waiting |-> irq'.waiting]
          /\ (irq'.masked <=> pc' = "copied")
      BY <1>1, <1>3 DEF CountsAgree
    <3>4. isr' = [pending |-> isr'.pending, dropped |-> isr'.dropped,
                  timestamp |-> isr'.timestamp, level |-> isr'.level]
          /\ isr'.pending \in 0 .. CountMax /\ isr'.dropped \in 0 .. CountMax
          /\ isr'.timestamp \in Nat /\ isr'.level \in BOOLEAN
      BY <1>2, <2>3, <3>1 DEF CountsAgree
    <3>5. QED
      BY <1>1, <3>2, <3>3, <3>4 DEF CountsAgree
  <2>7. InterruptsCounted'
    BY <1>1, <1>2, <1>5, <2>3, <2>4, <2>5 DEF InterruptsCounted, CountsAgree
  <2>8. QED
    BY <2>6, <2>7
<1>6. QED
  BY <1>4, <1>5

LEMMA CopyCountsCounts ==
    ASSUME StateInv, CountsAgree, InterruptsCounted, kind = "interrupt", CopyCounts
    PROVE  (CountsAgree /\ InterruptsCounted)'
<1>1. kind' = kind /\ pc = "read" /\ UNCHANGED <<isr, ghost, event>>
  BY DEF CopyCounts, Drained
<1>2. CASE isr.pending = 0
  <2>1. pc' = "idle" /\ UNCHANGED <<copy, irq>>
    BY <1>2 DEF CopyCounts, Drained
  <2>2. QED
    BY <1>1, <2>1 DEF CountsAgree, InterruptsCounted
<1>3. CASE isr.pending # 0
  <2>1. /\ pc' = "copied" /\ irq' = [irq EXCEPT !.masked = TRUE]
        /\ copy' = [NoEvent EXCEPT !.count = isr.pending, !.dropped = isr.dropped]
    BY <1>3 DEF CopyCounts
  <2>2. irq' = [masked |-> TRUE, waiting |-> irq.waiting]
    BY <2>1 DEF StateInv
  <2>3. isr.pending > 0
    BY <1>3 DEF CountsAgree
  <2>4. QED
    BY <1>1, <2>1, <2>2, <2>3 DEF CountsAgree, InterruptsCounted
<1>4. QED
  BY <1>2, <1>3

(* All the untold interrupts become the told ones. *)
LEMMA CopyRestCounts ==
    ASSUME StateInv, CountsAgree, InterruptsCounted, kind = "interrupt", CopyRest
    PROVE  (CountsAgree /\ InterruptsCounted)'
<1>1. kind' = kind /\ pc = "copied" /\ pc' = "callback"
  BY DEF CopyRest, TellCounted, Tell
<1>2. copy.count = isr.pending /\ copy.dropped = isr.dropped /\ isr.pending > 0
      /\ copy = [NoEvent EXCEPT !.count = isr.pending, !.dropped = isr.dropped]
  BY <1>1 DEF CountsAgree, NoEvent
<1>3. PICK s \in Seq(Counted) :
         /\ s = ghost.untold /\ Len(s) = isr.pending /\ s # <<>>
         /\ Last(s) = [timestamp |-> isr.timestamp, level |-> isr.level]
  BY <1>2 DEF CountsAgree, InterruptsCounted
<1>4. SubSeq(s, Len(s) + 1, Len(s)) = <<>> /\ SubSeq(s, 1, Len(s)) = s
  OBVIOUS
<1>5. (ghost.dropped - copy.dropped) % (CountMax + 1) = 0
  <2>1. ghost.dropped - copy.dropped = 0
    BY <1>2 DEF CountsAgree, InterruptsCounted
  <2>2. QED
    BY <2>1, PinsAssumption
<1>6. ghost' = [untold |-> <<>>, told |-> s, dropped |-> 0]
  BY <1>2, <1>3, <1>4, <1>5 DEF CopyRest, TellCounted, Tell
<1>7. event' = [copy EXCEPT !.timestamp = isr.timestamp, !.level = isr.level]
  BY DEF CopyRest, TellCounted, Tell
<1>8. event'.count = Len(s) /\ event'.timestamp = isr.timestamp /\ event'.level = isr.level
  BY <1>2, <1>3, <1>7 DEF NoEvent
<1>9. isr' = [pending |-> 0, dropped |-> 0, timestamp |-> isr.timestamp, level |-> isr.level]
  BY DEF CopyRest, CountsAgree
<1>10. irq' = [masked |-> FALSE, waiting |-> irq.waiting]
  BY DEF CopyRest, StateInv
<1>11. CountsAgree'
  BY <1>1, <1>3, <1>6, <1>9, <1>10, PinsAssumption DEF CountsAgree
<1>12. InterruptsCounted'
  BY <1>1, <1>3, <1>6, <1>8, <1>9 DEF InterruptsCounted
<1>13. QED
  BY <1>11, <1>12

LEMMA CountsStep ==
    ASSUME StateInv, ClockAgrees, CountsAgree, InterruptsCounted, [Next]_vars
    PROVE  (CountsAgree /\ InterruptsCounted)'
<1>1. kind' = kind
  BY Frames
<1>2. SUFFICES ASSUME kind = "interrupt" PROVE (CountsAgree /\ InterruptsCounted)'
  BY <1>1 DEF CountsAgree, InterruptsCounted
<1>3. CASE Interrupt
  BY <1>2, <1>3, InterruptCounts
<1>4. CASE CopyCounts
  BY <1>2, <1>4, CopyCountsCounts
<1>5. CASE CopyRest
  BY <1>2, <1>5, CopyRestCounts
<1>6. CASE CallbackReturns
  <2>1. pc' = "read" /\ pc = "callback" /\ UNCHANGED <<isr, irq>>
    BY <1>6 DEF CallbackReturns, sources
  <2>2. ghost' = [ghost EXCEPT !.told = <<>>]
    BY <1>2, <1>6 DEF CallbackReturns, Digital
  <2>3. ghost' = [untold |-> ghost.untold, dropped |-> ghost.dropped, told |-> <<>>]
    BY <2>2 DEF StateInv
  <2>4. QED
    BY <1>1, <2>1, <2>3 DEF CountsAgree, InterruptsCounted
<1>7. CASE pc = "idle" /\ pc' = "read" /\ UNCHANGED <<isr, irq, copy, event, ghost>>
  BY <1>1, <1>7 DEF CountsAgree, InterruptsCounted
<1>8. CASE /\ UNCHANGED <<pc, isr, copy, event, ghost>>
           /\ (irq' = irq \/ irq' = [irq EXCEPT !.waiting = TRUE])
  <2>1. irq' = [masked |-> irq.masked, waiting |-> irq'.waiting]
    BY <1>2, <1>8 DEF StateInv
  <2>2. QED
    BY <1>1, <1>8, <2>1 DEF CountsAgree, InterruptsCounted
<1>9. QED
  BY <1>2, <1>3, <1>4, <1>5, <1>6, <1>7, <1>8, CountFrames

-----------------------------------------------------------------------------
(* The digital sources. *)

LEMMA SampleFrames ==
    ASSUME StateInv, kind \in Digital, [Next]_vars
    PROVE  ReadDigital \/ UNCHANGED <<last, ghost>>
<1>1. CASE Advance \/ Tick \/ UNCHANGED vars
  BY <1>1 DEF Advance, Tick, vars, sources
<1>2. CASE Edge
  BY <1>2 DEF Edge
<1>3. CASE CallbackReturns
  BY <1>3 DEF CallbackReturns, StateInv, sources
<1>4. CASE Interrupt
  BY <1>4 DEF Interrupt, Digital, StateInv
<1>5. CASE Step \/ ReadLineFails
  BY <1>3, <1>5 DEF Step, CopyCounts, CopyRest, ReadMemory, ReadLine, ReadLineFails, Digital
<1>6. CASE (\E e \in 1 .. MaxEvents : push(e)) \/ clear \/ UseLine
  BY <1>6 DEF push, clear, UseLine, Digital
<1>7. QED
  BY <1>1, <1>2, <1>3, <1>4, <1>5, <1>6 DEF Next

(* A sample prolongs the sequence by the level, unless it ends with it. *)
LEMMA SampledIs ==
    ASSUME StateInv, SamplesAgree, kind \in Digital
    PROVE  /\ Sampled \in Seq(BOOLEAN) /\ Sampled # <<>> /\ Last(Sampled) = level
           /\ \/ ghost.untold # <<>> /\ last[1] = level /\ Sampled = ghost.untold
              \/ Sampled = Append(ghost.untold, level)
<1>1. ghost.untold \in Seq(BOOLEAN) /\ level \in BOOLEAN
  BY DEF StateInv, SamplesAgree
<1>2. CASE ghost.untold # <<>> /\ Last(ghost.untold) = level
  BY <1>1, <1>2 DEF Sampled, SamplesAgree
<1>3. CASE ~ (ghost.untold # <<>> /\ Last(ghost.untold) = level)
  <2>1. Sampled = Append(ghost.untold, level)
    BY <1>3 DEF Sampled
  <2>2. QED
    BY <1>1, <2>1, LastOfAppend
<1>4. QED
  BY <1>2, <1>3

(* What a reading does to the ghost and to the level remembered. *)
LEMMA ReadingIs ==
    ASSUME StateInv, SamplesAgree, ReadDigital
    PROVE  /\ last' = <<level>> /\ kind \in Digital
           /\ IF IsEvent(level)
              THEN ghost' = [untold |-> <<level>>, told |-> Sampled, dropped |-> 0]
              ELSE ghost' = [untold |-> Sampled, told |-> ghost.told, dropped |-> ghost.dropped]
BY DEF ReadDigital, Tell, StateInv

LEMMA ReadingAgrees ==
    ASSUME StateInv, SamplesAgree, ReadDigital
    PROVE  SamplesAgree'
<1>1. level \in BOOLEAN /\ kind \in Digital
  BY ReadingIs DEF StateInv
<1>2. Sampled \in Seq(BOOLEAN) /\ Sampled # <<>> /\ Last(Sampled) = level
  BY <1>1, SampledIs
<1>3. last' = <<level>> /\ last' # <<>> /\ last'[1] = level
  BY ReadingIs
<1>4. <<level>> \in Seq(BOOLEAN) /\ <<level>> # <<>> /\ Last(<<level>>) = level
  BY <1>1 DEF Last
<1>5. /\ ghost'.untold \in Seq(BOOLEAN) /\ ghost'.told \in Seq(BOOLEAN)
      /\ ghost'.untold # <<>> /\ Last(ghost'.untold) = level
  <2>1. CASE IsEvent(level)
    <3>1. ghost' = [untold |-> <<level>>, told |-> Sampled, dropped |-> 0]
      BY <2>1, ReadingIs
    <3>2. QED
      BY <1>2, <1>4, <3>1
  <2>2. CASE ~ IsEvent(level)
    <3>1. ghost' = [untold |-> Sampled, told |-> ghost.told, dropped |-> ghost.dropped]
      BY <2>2, ReadingIs
    <3>2. QED
      BY <1>1, <1>2, <3>1 DEF SamplesAgree
  <2>3. QED
    BY <2>1, <2>2
<1>6. kind' = kind
  BY DEF ReadDigital
<1>7. QED
  BY <1>1, <1>3, <1>5, <1>6 DEF SamplesAgree

(* A source for edges from the level u to the level ~ u tells of each. *)
Turns(u, s) == \E i \in 1 .. Len(s) - 1 : s[i] = u /\ s[i + 1] = ~ u

LEMMA TurnsAtEnd ==
    ASSUME NEW u \in BOOLEAN, NEW v \in BOOLEAN, NEW s \in Seq(BOOLEAN), s # <<>>
    PROVE  Turns(u, Append(s, v)) <=> Turns(u, s) \/ (Last(s) = u /\ v = ~ u)
<1> DEFINE t == Append(s, v)
<1>1. Len(s) \in Nat \ {0} /\ Len(t) = Len(s) + 1 /\ t[Len(s) + 1] = v
      /\ \A i \in 1 .. Len(s) : t[i] = s[i]
  OBVIOUS
<1> HIDE DEF t
<1>2. ASSUME Turns(u, t) PROVE Turns(u, s) \/ (Last(s) = u /\ v = ~ u)
  <2>1. PICK i \in 1 .. Len(s) : t[i] = u /\ t[i + 1] = ~ u
    BY <1>1, <1>2 DEF Turns
  <2>2. CASE i = Len(s)
    BY <1>1, <2>1, <2>2 DEF Last
  <2>3. CASE i # Len(s)
    <3>1. i \in 1 .. Len(s) - 1 /\ t[i] = s[i] /\ t[i + 1] = s[i + 1]
      BY <1>1, <2>3
    <3>2. QED
      BY <2>1, <3>1 DEF Turns
  <2>4. QED
    BY <2>2, <2>3
<1>3. ASSUME Turns(u, s) PROVE Turns(u, t)
  <2>1. PICK i \in 1 .. Len(s) - 1 : s[i] = u /\ s[i + 1] = ~ u
    BY <1>3 DEF Turns
  <2>2. i \in 1 .. Len(t) - 1 /\ t[i] = s[i] /\ t[i + 1] = s[i + 1]
    BY <1>1
  <2>3. QED
    BY <2>1, <2>2 DEF Turns
<1>4. ASSUME Last(s) = u, v = ~ u PROVE Turns(u, t)
  <2>1. Len(s) \in 1 .. Len(t) - 1 /\ t[Len(s)] = u /\ t[Len(s) + 1] = ~ u
    BY <1>1, <1>4 DEF Last
  <2>2. QED
    BY <2>1 DEF Turns
<1>5. QED
  BY <1>2, <1>3, <1>4 DEF t

LEMMA TurnsAreEdges ==
    ASSUME NEW s \in Seq(BOOLEAN)
    PROVE  /\ Turns(FALSE, s) <=> Rises(s)
           /\ Turns(TRUE, s) <=> Falls(s)
           /\ s # <<>> => Last(s) \in BOOLEAN
BY DEF Turns, Rises, Falls, Last

EdgesTold(u, quiet, told) ==
    /\ ~ Turns(u, quiet)
    /\ told # <<>> => Turns(u, told) /\ (Last(told) <=> ~ u)

LEMMA EdgesReported ==
    ASSUME StateInv, SamplesAgree, ConditionsReported, ReadDigital,
           NEW u \in BOOLEAN, kind = IF u THEN "falling" ELSE "rising"
    PROVE  ConditionsReported'
<1>1. kind' = kind /\ level \in BOOLEAN /\ kind \in Digital
  BY ReadingIs DEF ReadDigital, StateInv
<1>2. PICK q \in Seq(BOOLEAN), t \in Seq(BOOLEAN) : q = ghost.untold /\ t = ghost.told
  BY <1>1 DEF SamplesAgree
<1>3. EdgesTold(u, q, t)
  BY <1>1, <1>2, TurnsAreEdges DEF ConditionsReported, EdgesTold
<1>4. PICK s \in Seq(BOOLEAN) : s = Sampled
  BY <1>1, SampledIs
<1>5. /\ last = <<>> <=> q = <<>>
      /\ q # <<>> => last[1] = Last(q) /\ last[1] \in BOOLEAN
  BY <1>1, <1>2 DEF SamplesAgree
<1>6. IsEvent(level) <=> q # <<>> /\ Last(q) = u /\ level = ~ u
  BY <1>1, <1>5 DEF IsEvent, matches
<1>7. (q # <<>> /\ Last(q) = level /\ s = q) \/ s = Append(q, level)
  BY <1>1, <1>2, <1>4, <1>5, SampledIs
<1>8. Turns(u, Append(q, level)) <=> IsEvent(level)
  <2>1. CASE q = <<>>
    BY <1>1, <1>6, <2>1 DEF Turns
  <2>2. CASE q # <<>>
    BY <1>1, <1>3, <1>6, <2>2, TurnsAtEnd DEF EdgesTold
  <2>3. QED
    BY <2>1, <2>2
<1>9. CASE IsEvent(level)
  <2>1. ghost' = [untold |-> <<level>>, told |-> s, dropped |-> 0]
    BY <1>4, <1>9, ReadingIs
  <2>2. s = Append(q, level) /\ Turns(u, s) /\ Last(s) = level /\ level = ~ u
    BY <1>1, <1>4, <1>6, <1>7, <1>8, <1>9, SampledIs
  <2>3. <<level>> \in Seq(BOOLEAN) /\ ~ Turns(u, <<level>>)
    BY <1>1 DEF Turns
  <2>4. EdgesTold(u, <<level>>, s)
    BY <2>2, <2>3 DEF EdgesTold
  <2>5. QED
    BY <1>1, <2>1, <2>3, <2>4, TurnsAreEdges DEF ConditionsReported, EdgesTold
<1>10. CASE ~ IsEvent(level)
  <2>1. ghost' = [untold |-> s, told |-> t, dropped |-> ghost.dropped]
    BY <1>2, <1>4, <1>10, ReadingIs
  <2>2. EdgesTold(u, s, t)
    BY <1>3, <1>7, <1>8, <1>10 DEF EdgesTold
  <2>3. QED
    BY <1>1, <2>1, <2>2, TurnsAreEdges DEF ConditionsReported, EdgesTold
<1>11. QED
  BY <1>9, <1>10

LEMMA ChangesReported ==
    ASSUME StateInv, SamplesAgree, ConditionsReported, ReadDigital, kind = "change"
    PROVE  ConditionsReported'
<1>1. kind' = kind /\ level \in BOOLEAN /\ kind \in Digital
  BY ReadingIs DEF ReadDigital, StateInv
<1>2. PICK q \in Seq(BOOLEAN), t \in Seq(BOOLEAN) : q = ghost.untold /\ t = ghost.told
  BY <1>1 DEF SamplesAgree
<1>3. Len(q) <= 1 /\ (t # <<>> => Len(t) = 2)
  BY <1>1, <1>2 DEF ConditionsReported
<1>4. (last = <<>> <=> q = <<>>) /\ (q # <<>> => last[1] = Last(q) /\ last[1] \in BOOLEAN)
  BY <1>1, <1>2 DEF SamplesAgree
<1>5. IsEvent(level) <=> q # <<>> /\ Last(q) # level
  BY <1>1, <1>4 DEF IsEvent, matches
<1>6. PICK s \in Seq(BOOLEAN) :
         /\ s = Sampled
         /\ s = IF q # <<>> /\ Last(q) = level THEN q ELSE Append(q, level)
  <2>1. Sampled = IF q # <<>> /\ Last(q) = level THEN q ELSE Append(q, level)
    BY <1>2 DEF Sampled
  <2>2. QED
    BY <1>1, <2>1
<1>7. PICK n \in {0, 1} : Len(q) = n /\ (q = <<>> <=> n = 0)
  <2>1. q = <<>> <=> Len(q) = 0
    OBVIOUS
  <2>2. PICK m \in Nat : m = Len(q)
    OBVIOUS
  <2>3. m <= 1
    BY <1>3, <2>2
  <2>4. QED
    BY <2>1, <2>2, <2>3
<1>8. Len(Append(q, level)) = n + 1
  BY <1>1, <1>7
<1>9. CASE IsEvent(level)
  <2>1. s = Append(q, level) /\ q # <<>>
    BY <1>5, <1>6, <1>9
  <2>2. Len(s) = 2 /\ Len(<<level>>) = 1
    BY <1>7, <1>8, <2>1
  <2>3. ghost' = [untold |-> <<level>>, told |-> s, dropped |-> 0]
    BY <1>6, <1>9, ReadingIs
  <2>4. QED
    BY <1>1, <2>2, <2>3 DEF ConditionsReported
<1>10. CASE ~ IsEvent(level)
  <2>1. s = q \/ (s = Append(q, level) /\ q = <<>>)
    BY <1>5, <1>6, <1>10
  <2>2. Len(s) <= 1
    BY <1>7, <1>8, <2>1
  <2>3. ghost' = [untold |-> s, told |-> t, dropped |-> ghost.dropped]
    BY <1>2, <1>6, <1>10, ReadingIs
  <2>4. QED
    BY <1>1, <1>3, <2>2, <2>3 DEF ConditionsReported
<1>11. QED
  BY <1>9, <1>10

(* A source for the level u tells of every sample that has it. *)
LevelTold(u, quiet, told) ==
    /\ \A i \in 1 .. Len(quiet) : (quiet[i] <=> u) => i = 1 /\ told # <<>>
    /\ told # <<>> => (Last(told) <=> u)

LEMMA LevelsReported ==
    ASSUME StateInv, SamplesAgree, ConditionsReported, ReadDigital,
           NEW u \in BOOLEAN, kind = IF u THEN "high" ELSE "low"
    PROVE  ConditionsReported'
<1>1. kind' = kind /\ level \in BOOLEAN /\ kind \in Digital
  BY ReadingIs DEF ReadDigital, StateInv
<1>2. PICK q \in Seq(BOOLEAN), t \in Seq(BOOLEAN) : q = ghost.untold /\ t = ghost.told
  BY <1>1 DEF SamplesAgree
<1>3. LevelTold(u, q, t)
  BY <1>1, <1>2 DEF ConditionsReported, LevelTold
<1>4. IsEvent(level) <=> (level <=> u)
  BY <1>1 DEF IsEvent, matches
<1>5. PICK s \in Seq(BOOLEAN) :
         /\ s = Sampled /\ s # <<>> /\ Last(s) = level
         /\ s = q \/ s = Append(q, level)
  BY <1>1, <1>2, SampledIs
<1>6. CASE IsEvent(level)
  <2>1. LevelTold(u, <<level>>, s)
    BY <1>1, <1>4, <1>5, <1>6 DEF LevelTold
  <2>2. ghost' = [untold |-> <<level>>, told |-> s, dropped |-> 0]
    BY <1>5, <1>6, ReadingIs
  <2>3. QED
    BY <1>1, <2>1, <2>2 DEF ConditionsReported, LevelTold
<1>7. CASE ~ IsEvent(level)
  <2>1. LevelTold(u, Append(q, level), t)
    BY <1>1, <1>3, <1>4, <1>7 DEF LevelTold
  <2>2. LevelTold(u, s, t)
    BY <1>3, <1>5, <2>1
  <2>3. ghost' = [untold |-> s, told |-> t, dropped |-> ghost.dropped]
    BY <1>2, <1>5, <1>7, ReadingIs
  <2>4. QED
    BY <1>1, <2>2, <2>3 DEF ConditionsReported, LevelTold
<1>8. QED
  BY <1>6, <1>7

LEMMA SamplesStep ==
    ASSUME StateInv, SamplesAgree, kind \in Digital, ConditionsReported, [Next]_vars
    PROVE  (SamplesAgree /\ ConditionsReported)'
<1>1. kind' = kind
  BY Frames
<1>2. CASE ReadDigital
  <2>1. CASE kind = "rising" \/ kind = "falling"
    BY <1>2, <2>1, ReadingAgrees, EdgesReported
  <2>2. CASE kind = "change"
    BY <1>2, <2>2, ReadingAgrees, ChangesReported
  <2>3. CASE kind = "high" \/ kind = "low"
    BY <1>2, <2>3, ReadingAgrees, LevelsReported
  <2>4. QED
    BY <2>1, <2>2, <2>3 DEF Digital
<1>3. CASE UNCHANGED <<last, ghost>>
  BY <1>1, <1>3 DEF SamplesAgree, ConditionsReported, Digital
<1>4. QED
  BY <1>2, <1>3, SampleFrames

-----------------------------------------------------------------------------
(* The memory source puts and takes one event at a time; what that does to  *)
(* a ring is proved in ReaderProofs, where the readers play no part in it.    *)
Rings == INSTANCE ReaderProofs WITH
    Setups <- <<>>, FrameSize <- 1, HeaderSize <- 1, MaxPayload <- 0,
    payload_size_from_header <- <<>>, Literals <- {}, MaxChunk <- 0,
    setup <- 0, ring <- 0, reader <- 0, consumed <- <<>>, emitted <- <<>>, written <- <<>>

LEMMA SameRings ==
    ASSUME NEW r
    PROVE  /\ Rings!RingAssumption /\ Rings!SetupsAssumption
           /\ Rings!FramesAssumption /\ Rings!LiteralsAssumption
           /\ Rings!Cells = Cells /\ Rings!Content(r) = Content(r)
           /\ Rings!RingOK(r) <=> RingOK(r)
           /\ Rings!cleared(r) = cleared(r)
           /\ \A n : Rings!get(r, n) = get(r, n)
           /\ \A src : Rings!put(r, src) = put(r, src)
BY RingAssumption DEF Rings!RingAssumption, Rings!SetupsAssumption, Rings!FramesAssumption,
    Rings!LiteralsAssumption, Cells, Rings!Cells, Content, Rings!Content, RingOK,
    Rings!RingOK, cleared, Rings!cleared, get, Rings!get, put, Rings!put

(* A ring of items of S, and what it holds. *)
Holds(S, r, content) == RingOK(r) /\ r.cells \in [Cells -> S] /\ Content(r) = content

LEMMA PutOne ==
    ASSUME NEW S, NEW r, NEW q, Holds(S, r, q), r.count # Capacity, NEW e \in S
    PROVE  Holds(S, put(r, <<e>>), Append(q, e))
<1>1. Rings!RingOK(r) /\ r.cells \in [Rings!Cells -> S]
  BY SameRings DEF Holds
<1>2. PICK cells, h, c : Rings!Ring(S, cells, h, c) /\ r = Rings!RingAt(cells, h, c)
  BY <1>1, SameRings, Rings!RingParts DEF Rings!RingParts
<1>3. <<e>> \in Seq(S) /\ Len(<<e>>) = 1
  OBVIOUS
<1>4. Len(<<e>>) <= Capacity - c
  <2>1. Capacity \in Nat \ {0} /\ c \in 0 .. Capacity /\ c # Capacity
    BY <1>2, RingAssumption DEF Rings!Ring, Rings!RingAt
  <2>2. QED
    BY <1>3, <2>1
<1>5. Rings!PutIs(S, r, <<e>>)
  BY <1>2, <1>3, <1>4, SameRings, Rings!PutAppends DEF Rings!PutAppends
<1>6. q \in Seq(S)
  BY <1>2, SameRings, Rings!ContentAt DEF Rings!ContentAt, Holds
<1>7. QED
  BY <1>5, <1>6, SameRings, AppendIsConcat DEF Rings!PutIs, Holds

LEMMA GetOne ==
    ASSUME NEW S, NEW r, NEW q, Holds(S, r, q), r.count # 0
    PROVE  /\ q \in Seq(S) /\ q # <<>> /\ Holds(S, get(r, 1), Tail(q))
           /\ r.cells[r.head] = Head(q)
<1>1. Rings!RingOK(r) /\ r.cells \in [Rings!Cells -> S]
  BY SameRings DEF Holds
<1>2. PICK cells, h, c : Rings!Ring(S, cells, h, c) /\ r = Rings!RingAt(cells, h, c)
  BY <1>1, SameRings, Rings!RingParts DEF Rings!RingParts
<1>3. /\ Capacity \in Nat \ {0} /\ h \in 0 .. Capacity - 1 /\ c \in Nat /\ c > 0
      /\ r.cells = cells /\ r.head = h
  BY <1>2, RingAssumption DEF Rings!Ring, Rings!RingAt
<1>4. /\ Rings!RingOK(get(r, 1)) /\ get(r, 1).cells \in [Rings!Cells -> S]
      /\ Rings!Content(get(r, 1)) = Tail(Rings!Content(r))
  BY <1>2, <1>3, SameRings, Rings!GetTakes DEF Rings!GetTakes
<1>5. /\ q \in Seq(S) /\ Len(q) = c
      /\ \A i \in 1 .. c : q[i] = cells[(h + i - 1) % Capacity]
  BY <1>2, SameRings, Rings!ContentAt DEF Rings!ContentAt, Holds
<1>6. q # <<>> /\ q[1] = cells[h]
  <2>1. 1 \in 1 .. c /\ h % Capacity = h /\ h + 1 - 1 = h
    BY <1>3
  <2>2. q[1] = cells[(h + 1 - 1) % Capacity]
    BY <1>5, <2>1
  <2>3. q # <<>>
    BY <1>3, <1>5
  <2>4. QED
    BY <2>1, <2>2, <2>3
<1>7. QED
  BY <1>3, <1>4, <1>5, <1>6, SameRings DEF Holds

LEMMA ClearedHolds ==
    ASSUME NEW S, NEW r, NEW q, Holds(S, r, q)
    PROVE  Holds(S, cleared(r), <<>>)
<1>1. Rings!RingOK(r) /\ r.cells \in [Rings!Cells -> S]
  BY SameRings DEF Holds
<1>2. QED
  BY <1>1, SameRings, Rings!ClearedEmpty DEF Rings!ClearedEmpty, Holds

LEMMA MemoryStep ==
    ASSUME StateInv, MemoryAgrees, kind = "memory", ConditionsReported, [Next]_vars
    PROVE  (MemoryAgrees /\ ConditionsReported)'
<1>0. PICK S : S = (1 .. MaxEvents) \cup {Blank}
  OBVIOUS
<1>1. kind' = kind /\ kind \notin Digital
  BY Frames DEF Digital
<1>2. PICK q \in Seq(1 .. MaxEvents), t \in {ghost.told} : q = ghost.untold /\ t = ghost.told
  BY DEF MemoryAgrees
<1>3. /\ Holds(S, ring, q)
      /\ t # <<>> => t = <<event.number>>
  BY <1>0, <1>1, <1>2 DEF MemoryAgrees, ConditionsReported, Holds
<1>4. PICK d : ghost = [untold |-> q, told |-> t, dropped |-> d]
  BY <1>2 DEF StateInv
<1>5. ASSUME NEW p \in Seq(1 .. MaxEvents), Holds(S, ring', p), NEW u, u # <<>> => u = <<event'.number>>,
             ghost'.untold = p, ghost'.told = u
      PROVE  (MemoryAgrees /\ ConditionsReported)'
  BY <1>0, <1>1, <1>5 DEF MemoryAgrees, ConditionsReported, Holds
<1>6. ASSUME NEW e \in 1 .. MaxEvents, push(e) PROVE (MemoryAgrees /\ ConditionsReported)'
  <2>1. UNCHANGED event
    BY <1>6 DEF push
  <2>2. CASE ring.count >= Capacity
    BY <1>2, <1>3, <1>5, <1>6, <2>1, <2>2 DEF push
  <2>3. CASE ~ ring.count >= Capacity
    <3>1. ring' = put(ring, <<e>>) /\ ghost' = [ghost EXCEPT !.untold = Append(@, e)]
      BY <1>6, <2>3 DEF push
    <3>2. ring.count # Capacity /\ e \in S
      BY <1>0, <2>3, RingAssumption
    <3>3. Holds(S, ring', Append(q, e))
      BY <1>3, <3>1, <3>2, PutOne
    <3>4. ghost' = [untold |-> Append(q, e), told |-> t, dropped |-> d]
      BY <1>4, <3>1
    <3>5. Append(q, e) \in Seq(1 .. MaxEvents)
      OBVIOUS
    <3>6. QED
      BY <1>3, <1>5, <2>1, <3>3, <3>4, <3>5
  <2>4. QED
    BY <2>2, <2>3
<1>7. CASE clear
  <2>1. ring' = cleared(ring) /\ ghost' = [ghost EXCEPT !.untold = <<>>] /\ UNCHANGED event
    BY <1>7 DEF clear
  <2>2. Holds(S, ring', <<>>)
    BY <1>3, <2>1, ClearedHolds
  <2>3. ghost' = [untold |-> <<>>, told |-> t, dropped |-> d]
    BY <1>4, <2>1
  <2>4. PICK p \in Seq(1 .. MaxEvents) : p = <<>>
    <3>1. <<>> \in Seq(1 .. MaxEvents)
      OBVIOUS
    <3>2. QED
      BY <3>1
  <2>5. t # <<>> => t = <<event'.number>>
    BY <1>3, <2>1
  <2>6. QED
    BY <1>5, <2>2, <2>3, <2>4, <2>5
<1>8. CASE ReadMemory
  <2>1. CASE ring.count = 0
    <3>1. UNCHANGED <<ring, event, ghost>>
      BY <1>8, <2>1 DEF ReadMemory, Drained
    <3>2. QED
      BY <1>2, <1>3, <1>5, <3>1
  <2>2. CASE ring.count # 0
    <3>1. /\ ring' = get(ring, 1) /\ event' = [NoEvent EXCEPT !.number = ring.cells[ring.head]]
          /\ ghost' = [ghost EXCEPT !.untold = Tail(@), !.told = <<Head(ghost.untold)>>]
      BY <1>8, <2>2 DEF ReadMemory, Tell
    <3>2. Holds(S, ring', Tail(q)) /\ q # <<>> /\ ring.cells[ring.head] = Head(q)
      BY <1>3, <2>2, <3>1, GetOne
    <3>3. ghost' = [untold |-> Tail(q), told |-> <<Head(q)>>, dropped |-> d]
      BY <1>4, <3>1
    <3>4. event'.number = Head(q) /\ Tail(q) \in Seq(1 .. MaxEvents)
      BY <3>1, <3>2 DEF NoEvent
    <3>5. QED
      BY <1>5, <3>2, <3>3, <3>4
  <2>3. QED
    BY <2>1, <2>2
<1>9. CASE CallbackReturns
  <2>1. UNCHANGED ring /\ ghost' = [ghost EXCEPT !.told = <<>>]
    BY <1>1, <1>9 DEF CallbackReturns, sources
  <2>2. ghost' = [untold |-> q, told |-> <<>>, dropped |-> d]
    BY <1>4, <2>1
  <2>3. QED
    BY <1>3, <1>5, <2>1, <2>2
<1>10. CASE UNCHANGED <<ring, event, ghost>>
  BY <1>2, <1>3, <1>5, <1>10
<1>11. CASE Advance \/ Edge \/ Tick \/ UNCHANGED vars
  BY <1>10, <1>11 DEF Advance, Edge, Tick, vars, sources
<1>12. ~ Interrupt
  BY DEF Interrupt, StateInv
<1>13. CASE CopyCounts \/ CopyRest \/ ReadDigital \/ ReadLine \/ ReadLineFails \/ UseLine
  BY <1>1, <1>13 DEF CopyCounts, CopyRest, ReadDigital, ReadLine, ReadLineFails, UseLine
<1>14. QED
  BY <1>6, <1>7, <1>8, <1>9, <1>11, <1>12, <1>13 DEF Next, Step

-----------------------------------------------------------------------------
(* The line as an event source. *)

LEMMA AscendingAppend ==
    ASSUME NEW q \in Seq(KernelEvent), NEW from \in Nat, NEW to \in Nat, from <= to,
           Ascending(q, from, to), NEW e \in KernelEvent, e.number = to + 1
    PROVE  Ascending(Append(q, e), from, to + 1)
<1> DEFINE s == Append(q, e)
<1>1. /\ Len(s) = Len(q) + 1 /\ s[Len(q) + 1] = e /\ Len(q) \in Nat
      /\ \A i \in 1 .. Len(q) : s[i] = q[i] /\ q[i].number \in Nat
  <2>1. \A i \in 1 .. Len(q) : q[i] \in KernelEvent
    OBVIOUS
  <2>2. \A i \in 1 .. Len(q) : q[i].number \in Nat
    BY <2>1 DEF KernelEvent
  <2>3. QED
    BY <2>2, AppendProperties
<1> HIDE DEF s
<1>2. ASSUME NEW i \in 1 .. Len(s)
      PROVE  /\ from < s[i].number /\ s[i].number <= to + 1
             /\ \A j \in 1 .. i - 1 : s[j].number < s[i].number
  <2>1. CASE i = Len(q) + 1
    <3>1. s[i].number = to + 1
      BY <1>1, <2>1
    <3>2. \A j \in 1 .. i - 1 : s[j].number < to + 1
      <4> TAKE j \in 1 .. i - 1
      <4>1. j \in 1 .. Len(q)
        BY <1>1, <2>1
      <4>2. s[j].number <= to /\ s[j].number \in Nat
        BY <1>1, <4>1 DEF Ascending
      <4>3. QED
        BY <4>2
    <3>3. QED
      BY <3>1, <3>2
  <2>2. CASE i # Len(q) + 1
    <3>1. i \in 1 .. Len(q)
      BY <1>1, <2>2
    <3>2. \A j \in 1 .. i - 1 : j \in 1 .. Len(q)
      BY <1>1, <3>1
    <3>3. QED
      BY <1>1, <3>1, <3>2, SMTT(30) DEF Ascending
  <2>3. QED
    BY <2>1, <2>2
<1>3. QED
  BY <1>2 DEF Ascending, s

LEMMA AscendingTail ==
    ASSUME NEW q \in Seq(KernelEvent), q # <<>>, NEW from \in Nat, NEW to \in Nat,
           Ascending(q, from, to)
    PROVE  /\ Head(q) \in KernelEvent /\ Head(q).number \in Nat
           /\ from < Head(q).number /\ Head(q).number <= to
           /\ Tail(q) \in Seq(KernelEvent)
           /\ Ascending(Tail(q), Head(q).number, to) /\ Ascending(Tail(q), from, to)
<1>1. PICK t \in Seq(KernelEvent) :
         /\ t = Tail(q) /\ Len(q) \in Nat /\ Len(t) = Len(q) - 1
         /\ \A i \in 1 .. Len(t) : t[i] = q[i + 1]
  <2>1. /\ Tail(q) \in Seq(KernelEvent) /\ Len(q) \in Nat /\ Len(Tail(q)) = Len(q) - 1
        /\ \A i \in 1 .. Len(Tail(q)) : Tail(q)[i] = q[i + 1]
    BY HeadTailProperties
  <2>2. QED
    BY <2>1
<1>2. q[1] \in KernelEvent /\ Head(q) = q[1] /\ 1 \in 1 .. Len(q)
  OBVIOUS
<1>3. q[1].number \in Nat /\ from < q[1].number /\ q[1].number <= to
  BY <1>2 DEF Ascending, KernelEvent
<1>4. ASSUME NEW i \in 1 .. Len(t)
      PROVE  /\ q[1].number < t[i].number /\ from < t[i].number /\ t[i].number <= to
             /\ \A j \in 1 .. i - 1 : t[j].number < t[i].number
  <2>1. i + 1 \in 1 .. Len(q) /\ 1 \in 1 .. (i + 1) - 1 /\ t[i] = q[i + 1]
    BY <1>1
  <2>2. /\ from < q[i + 1].number /\ q[i + 1].number <= to
        /\ \A j \in 1 .. (i + 1) - 1 : q[j].number < q[i + 1].number
    BY <2>1 DEF Ascending
  <2>3. \A j \in 1 .. i - 1 : t[j] = q[j + 1] /\ j + 1 \in 1 .. (i + 1) - 1
    BY <1>1
  <2>4. QED
    BY <2>1, <2>2, <2>3
<1>5. QED
  BY <1>1, <1>2, <1>3, <1>4 DEF Ascending

(* The queue after an edge, in each version. *)
LEMMA KernelQueues ==
    ASSUME StateInv, NumbersAgree, kind = "gpiod", line.api \in {1, 2}, KernelSees
    PROVE  /\ kernel' = [queue |-> kernel'.queue, seen |-> kernel'.seen] /\ kernel'.seen \in Nat
           /\ kernel'.queue \in Seq(KernelEvent)
           /\ line.api = 2 => /\ event.number <= kernel'.seen
                              /\ Ascending(kernel'.queue, event.number, kernel'.seen)
<1>1. PICK q \in Seq(KernelEvent), n \in Nat, m \in Nat :
         kernel = [queue |-> q, seen |-> n] /\ m = event.number
  BY DEF NumbersAgree
<1>2. PICK e \in KernelEvent : e = [number |-> n + 1, level |-> ~ level]
  <2>1. (~ level) \in BOOLEAN /\ n + 1 \in Nat
    BY DEF StateInv
  <2>2. [number |-> n + 1, level |-> ~ level] \in KernelEvent
    BY <2>1 DEF KernelEvent
  <2>3. QED
    BY <2>2
<1>3. PICK p : kernel' = [seen |-> n + 1, queue |-> p]
               /\ p = CASE Len(q) # Kernel -> Append(q, e)
                        [] Len(q) = Kernel /\ line.api = 1 -> q
                        [] OTHER -> Append(Tail(q), e)
  BY <1>1, <1>2 DEF KernelSees
<1>4. Len(q) # Kernel \/ q # <<>>
  BY PinsAssumption
<1>5. p \in {q, Append(q, e)} \/ (q # <<>> /\ p = Append(Tail(q), e))
  BY <1>3, <1>4
<1>6. p \in Seq(KernelEvent)
  BY <1>5, HeadTailProperties
<1>7. ASSUME line.api = 2 PROVE m <= n + 1 /\ Ascending(p, m, n + 1)
  <2>1. m <= n /\ Ascending(q, m, n)
    BY <1>1, <1>7 DEF NumbersAgree
  <2>2. p = Append(q, e) \/ (q # <<>> /\ p = Append(Tail(q), e))
    BY <1>3, <1>4, <1>7
  <2>3. e.number = n + 1
    BY <1>2
  <2>4. CASE p = Append(q, e)
    BY <2>1, <2>3, <2>4, AscendingAppend
  <2>5. CASE q # <<>> /\ p = Append(Tail(q), e)
    <3>1. PICK t \in Seq(KernelEvent) : t = Tail(q) /\ Ascending(t, m, n)
      BY <2>1, <2>5, AscendingTail
    <3>2. Ascending(Append(t, e), m, n + 1)
      BY <2>1, <2>3, <3>1, AscendingAppend
    <3>3. QED
      BY <2>1, <2>5, <3>1, <3>2
  <2>6. QED
    BY <2>1, <2>2, <2>4, <2>5
<1>8. QED
  BY <1>1, <1>3, <1>6, <1>7

LEMMA NumbersStep ==
    ASSUME StateInv, LineAgrees, NumbersAgree, kind = "gpiod", ConditionsReported, [Next]_vars
    PROVE  (NumbersAgree /\ ConditionsReported)'
<1>1. kind' = kind /\ kind \notin Digital /\ line.api \in {1, 2}
  BY Frames DEF Digital, LineAgrees
<1>2. PICK t \in Seq(Nat), m \in Nat, n \in Nat :
         t = ghost.told /\ m = event.number /\ n = sequence
  BY DEF NumbersAgree
<1>3. PICK q \in Seq(KernelEvent), seen \in Nat : kernel = [queue |-> q, seen |-> seen]
  BY DEF NumbersAgree
<1>4. /\ t # <<>> => m > t[1]
      /\ line.api = 1 => m = n
      /\ line.api = 2 => m <= seen /\ Ascending(q, m, seen)
  BY <1>1, <1>2, <1>3 DEF NumbersAgree, ConditionsReported
<1>5. CASE UNCHANGED <<kernel, sequence, event, ghost>> /\ line'.api = line.api
  BY <1>1, <1>5 DEF NumbersAgree, ConditionsReported, Ascending
<1>6. CASE Advance \/ Tick \/ UNCHANGED vars
  BY <1>5, <1>6 DEF Advance, Tick, vars, sources
<1>7. CASE Edge
  <2>1. UNCHANGED <<sequence, line, event, ghost>> /\ KernelSees
    BY <1>1, <1>7 DEF Edge
  <2>2. QED
    BY <1>1, <2>1, KernelQueues DEF NumbersAgree, ConditionsReported
<1>8. CASE ReadLine
  <2>1. UNCHANGED line
    BY <1>8 DEF ReadLine
  <2>2. CASE UNCHANGED <<kernel, sequence>> /\ Drained
    BY <1>5, <2>1, <2>2 DEF Drained
  <2>3. CASE ~ (UNCHANGED <<kernel, sequence>> /\ Drained)
    <3>1. /\ q # <<>> /\ kernel' = [kernel EXCEPT !.queue = Tail(@)]
          /\ sequence' = IF line.api = 1 THEN n + 1 ELSE n
          /\ event' = [NoEvent EXCEPT !.level = Head(q).level,
                                      !.number = IF line.api = 1 THEN n + 1 ELSE Head(q).number]
          /\ ghost' = [ghost EXCEPT !.told = <<m>>]
      BY <1>2, <1>3, <1>8, <2>3 DEF ReadLine, Tell
    <3>2. kernel' = [queue |-> Tail(q), seen |-> seen]
      BY <1>3, <3>1
    <3>3. ghost'.told = <<m>>
      BY <3>1 DEF StateInv
    <3>4. event'.number = IF line.api = 1 THEN n + 1 ELSE Head(q).number
      BY <3>1 DEF NoEvent
    <3>5. Tail(q) \in Seq(KernelEvent) /\ Head(q) \in KernelEvent /\ Head(q).number \in Nat
      <4>1. Tail(q) \in Seq(KernelEvent) /\ Head(q) \in KernelEvent
        BY <3>1, HeadTailProperties
      <4>2. QED
        BY <4>1 DEF KernelEvent
    <3>6. event'.number \in Nat /\ event'.number > m
      <4>1. CASE line.api = 1
        BY <1>4, <3>4, <4>1
      <4>2. CASE line.api = 2
        <5>1. m < Head(q).number
          BY <1>4, <3>1, <4>2, AscendingTail
        <5>2. QED
          BY <3>4, <3>5, <4>2, <5>1
      <4>3. QED
        BY <1>1, <4>1, <4>2
    <3>7. line.api = 2 => event'.number <= seen /\ Ascending(Tail(q), event'.number, seen)
      <4>1. SUFFICES ASSUME line.api = 2
                     PROVE  event'.number <= seen /\ Ascending(Tail(q), event'.number, seen)
        OBVIOUS
      <4>2. Head(q).number <= seen /\ Ascending(Tail(q), Head(q).number, seen)
        BY <1>4, <3>1, <4>1, AscendingTail
      <4>3. QED
        BY <3>4, <4>1, <4>2
    <3>8. NumbersAgree'
      <4>1. ghost'.told \in Seq(Nat) /\ sequence' \in Nat
        BY <3>1, <3>3
      <4>2. line.api = 1 => event'.number = sequence'
        BY <3>1, <3>4
      <4>3. QED
        BY <1>1, <2>1, <3>2, <3>5, <3>6, <3>7, <4>1, <4>2 DEF NumbersAgree
    <3>9. ConditionsReported'
      BY <1>1, <3>3, <3>6 DEF ConditionsReported
    <3>10. QED
      BY <3>8, <3>9
  <2>4. QED
    BY <2>2, <2>3
<1>9. CASE CallbackReturns
  <2>1. /\ UNCHANGED <<kernel, sequence, line>>
        /\ event' = [NoEvent EXCEPT !.number = m]
        /\ ghost' = [ghost EXCEPT !.told = <<>>]
    BY <1>1, <1>2, <1>9 DEF CallbackReturns, sources
  <2>2. event'.number = m
    BY <2>1 DEF NoEvent
  <2>3. ghost'.told = <<>> /\ <<>> \in Seq(Nat)
    BY <2>1 DEF StateInv
  <2>4. QED
    BY <1>1, <1>2, <2>1, <2>2, <2>3 DEF NumbersAgree, ConditionsReported
<1>10. CASE UseLine
  <2>1. CASE line.open /\ ~ line'.open
    <3>1. ~ (\E lost \in SUBSET Calls, initial \in BOOLEAN : Open(lost, initial))
      BY <2>1 DEF Open
    <3>2. ~ (\E high \in BOOLEAN : Write(high))
      BY <2>1 DEF Write, LineAgrees
    <3>3. Close /\ kernel' = [queue |-> <<>>, seen |-> 0] /\ sequence' = 0
          /\ event' = NoEvent /\ ghost' = [ghost EXCEPT !.told = <<>>]
      BY <1>10, <2>1, <3>1, <3>2 DEF UseLine
    <3>4. event'.number = 0
      BY <3>3 DEF NoEvent
    <3>5. ghost'.told = <<>> /\ <<>> \in Seq(Nat)
      BY <3>3 DEF StateInv
    <3>6. <<>> \in Seq(KernelEvent) /\ Ascending(<<>>, 0, 0)
      BY DEF Ascending
    <3>7. QED
      BY <1>1, <3>3, <3>4, <3>5, <3>6 DEF NumbersAgree, ConditionsReported
  <2>2. CASE ~ (line.open /\ ~ line'.open)
    <3>1. ~ Close
      BY <2>2 DEF Close, Closed
    <3>2. UNCHANGED <<kernel, sequence, event, ghost>>
      BY <1>10, <2>2, <3>1 DEF UseLine
    <3>3. line'.api = line.api
      BY <1>10, <3>1 DEF UseLine, Open, Write, LineAgrees
    <3>4. QED
      BY <1>5, <3>2, <3>3
  <2>3. QED
    BY <2>1, <2>2
<1>11. ~ Interrupt
  BY DEF Interrupt, StateInv
<1>12. CASE CopyCounts \/ CopyRest \/ ReadDigital \/ ReadMemory
  BY <1>1, <1>12 DEF CopyCounts, CopyRest, ReadDigital, ReadMemory
<1>13. CASE (\E e \in 1 .. MaxEvents : push(e)) \/ clear
  BY <1>13 DEF push, clear
<1>14. CASE ReadLineFails
  BY <1>5, <1>14 DEF ReadLineFails, Drained
<1>15. QED
  BY <1>6, <1>7, <1>8, <1>9, <1>10, <1>11, <1>12, <1>13, <1>14 DEF Next, Step

-----------------------------------------------------------------------------
(* All together. *)

LEMMA EmptyRingHolds ==
    ASSUME NEW S, Blank \in S
    PROVE  Holds(S, EmptyRing, <<>>)
<1>1. [i \in Cells |-> Blank] \in [Cells -> S] /\ 0 \in Cells /\ (0 + 0) % Capacity = 0
  BY RingAssumption DEF Cells
<1>2. RingOK(EmptyRing) /\ EmptyRing.cells \in [Cells -> S]
  BY <1>1, RingAssumption DEF RingOK, EmptyRing
<1>3. Content(EmptyRing) = <<>>
  BY DEF Content, EmptyRing
<1>4. QED
  BY <1>2, <1>3 DEF Holds

LEMMA PinsInit == Init => PinsInv
<1> SUFFICES ASSUME Init PROVE PinsInv
  OBVIOUS
<1>1. CountMax \in Nat \ {0} /\ Wrap \in Int /\ Wrap > 0
  BY PinsAssumption
<1>2. StateInv
  BY DEF Init, StateInv
<1>3. LineAgrees
  <2>1. PICK l \in Lines : line = Closed(l)
    BY DEF Init, LineInit
  <2>2. l.api \in {1, 2} /\ l.role \in Roles
    BY LinesAssumption
  <2>3. QED
    BY <2>1, <2>2 DEF Closed, LineAgrees
<1>4. ClockAgrees
  BY <1>1 DEF Init, ClockAgrees
<1>5. CountsAgree /\ InterruptsCounted
  BY <1>1 DEF Init, CountsAgree, InterruptsCounted
<1>6. SamplesAgree
  BY DEF Init, SamplesAgree
<1>7. MemoryAgrees /\ Content(ring) = <<>>
  <2>1. Blank \in (1 .. MaxEvents) \cup {Blank}
    OBVIOUS
  <2>2. ring = EmptyRing /\ ghost.untold = <<>> /\ <<>> \in Seq(1 .. MaxEvents)
    BY DEF Init
  <2>3. PICK S : S = (1 .. MaxEvents) \cup {Blank}
    OBVIOUS
  <2>4. Holds(S, ring, <<>>)
    BY <2>1, <2>2, <2>3, EmptyRingHolds
  <2>5. QED
    BY <2>2, <2>3, <2>4 DEF MemoryAgrees, Holds
<1>8. NumbersAgree
  BY DEF Init, NumbersAgree, NoEvent, Ascending
<1>9. ConditionsReported
  BY <1>7 DEF Init, ConditionsReported, Rises, Falls
<1>10. QED
  BY <1>2, <1>3, <1>4, <1>5, <1>6, <1>7, <1>8, <1>9 DEF PinsInv

LEMMA PinsStep == PinsInv /\ [Next]_vars => PinsInv'
<1> SUFFICES ASSUME PinsInv, [Next]_vars PROVE PinsInv'
  OBVIOUS
<1>1. StateInv' /\ LineAgrees'
  BY StateStep, LineStep DEF PinsInv
<1>2. ClockAgrees'
  BY ClockStep DEF PinsInv
<1>3. (CountsAgree /\ InterruptsCounted)'
  BY CountsStep DEF PinsInv
<1>4. (SamplesAgree /\ MemoryAgrees /\ NumbersAgree /\ ConditionsReported)'
  <2>1. kind' = kind
    BY Frames
  <2>2. CASE kind \in Digital
    BY <2>1, <2>2, SamplesStep DEF PinsInv, Digital, MemoryAgrees, NumbersAgree
  <2>3. CASE kind = "memory"
    BY <2>1, <2>3, MemoryStep DEF PinsInv, Digital, SamplesAgree, NumbersAgree
  <2>4. CASE kind = "gpiod"
    BY <2>1, <2>4, NumbersStep DEF PinsInv, Digital, SamplesAgree, MemoryAgrees
  <2>5. CASE kind = "interrupt"
    BY <2>1, <2>5 DEF Digital, SamplesAgree, MemoryAgrees, NumbersAgree, ConditionsReported
  <2>6. kind \in Digital \/ kind \in {"memory", "gpiod", "interrupt"}
    BY PinsAssumption DEF PinsInv, StateInv, Digital
  <2>7. QED
    BY <2>2, <2>3, <2>4, <2>5, <2>6
<1>5. QED
  BY <1>1, <1>2, <1>3, <1>4 DEF PinsInv

LEMMA PinsInvariant == Spec => []PinsInv
BY PinsInit, PinsStep, PTL DEF Spec

(* No interrupt is lost or counted twice, and each event has the time and   *)
(* level of its last one, wherever an interrupt comes between the steps of  *)
(* ArduinoInterruptPinEventSource::read_event().                            *)
THEOREM PinInterruptsCounted == Spec => []InterruptsCounted
<1>1. PinsInv => InterruptsCounted
  BY DEF PinsInv
<1>2. QED
  BY <1>1, PinsInvariant, PTL

(* Every source's read_event() reports what was sampled, pushed or numbered *)
(* since its last event: nothing is missed, made up or out of order.        *)
THEOREM PinConditionsReported == Spec => []ConditionsReported
<1>1. PinsInv => ConditionsReported
  BY DEF PinsInv
<1>2. QED
  BY <1>1, PinsInvariant, PTL

(* Micros32Extender::update() follows the time through every turn of the    *)
(* counter.                                                                 *)
THEOREM PinClockTracks == Spec => []ClockTracks
<1>1. PinsInv => ClockTracks
  BY ClockSafe DEF PinsInv
<1>2. QED
  BY <1>1, PinsInvariant, PTL

(* Whichever calls to libgpiod fail while a line is opened, it holds all    *)
(* that it was given and no more, and close() gives it back.                *)
THEOREM LineNothingLeaks == Spec => []NothingLeaks
<1>1. PinsInv => NothingLeaks
  BY LineSafe DEF PinsInv
<1>2. QED
  BY <1>1, PinsInvariant, PTL

=============================================================================
