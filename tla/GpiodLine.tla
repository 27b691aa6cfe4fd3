----------------------------- MODULE GpiodLine -----------------------------
(***************************************************************************)
(* A line of a GPIO chip opened with libgpiod, in each version of its API: *)
(* as an event source (linux_gpiod_pin_event_source.hpp), and as an input  *)
(* or an output pin (linux_gpiod_pin_io.hpp).  Every call to libgpiod may  *)
(* fail; lost is the set of those that do.                                 *)
(*                                                                         *)
(* line.held are the members chip_, line_, request_ and buffer_ that are   *)
(* not null, line.given counts what libgpiod has given out less what it    *)
(* has got back: less than nothing when something is freed twice.          *)
(***************************************************************************)
EXTENDS Integers

CONSTANT Lines    \* the lines that may be opened: [api : {1, 2}, role : Roles]

Roles == {"events", "input", "output"}

ASSUME LinesAssumption == Lines \subseteq [api : {1, 2}, role : Roles]

VARIABLE line

Setup == {"settings", "line_config", "request_config"}

(* The calls that may fail, and what has to be given back.  A line of a     *)
(* chip in version 1 belongs to the chip; the request is the line's.        *)
Calls == Setup \cup {"chip", "line", "add_line_settings", "request", "buffer"}
Given == Setup \cup {"chip", "request", "buffer"}
Members(api) == IF api = 1 THEN {"chip", "line"} ELSE {"chip", "request", "buffer"}

Closed(l) == [api |-> l.api, role |-> l.role, open |-> FALSE, given |-> [r \in Given |-> 0],
              held |-> {}, value |-> FALSE]

LineInit == \E l \in Lines : line = Closed(l)

-----------------------------------------------------------------------------
(* While a line is opened: s.given as above, s.points are the pointers,     *)
(* local ones and members, that are not null.                               *)

Made(s, new) ==
    [given |-> [r \in Given |-> s.given[r] + (IF r \in new THEN 1 ELSE 0)],
     points |-> s.points \cup new]

Freed(s, old) == [r \in Given |-> s.given[r] - (IF r \in old THEN 1 ELSE 0)]

(* Seeded fault: a failure cleans up where it happens, and at the end again. *)
cleanup_setup_Twice(s) ==
    LET once == [s EXCEPT !.given = Freed(s, s.points \cap Setup)]
    IN  IF "request" \in s.points THEN once
        ELSE [once EXCEPT !.given = Freed(once, s.points \cap Setup)]

(* The local pointers keep their values. *)
cleanup_setup(s) == [s EXCEPT !.given = Freed(s, s.points \cap Setup)]

(* External: gpiod_line_release() gives up the request of a line, if any. *)
close(s) ==
    LET requested == "line" \in s.points /\ s.given["request"] > 0
    IN  [given |-> Freed(s, s.points \cup IF requested THEN {"request"} ELSE {}), points |-> {}]

(* Version 2, in the order of the calls: the three objects of Setup are all *)
(* made before any is looked at.  An event source keeps the chip and needs  *)
(* a buffer; a pin closes the chip and keeps the request.                   *)
MadeByV2(s, role, lost) ==
    LET chip == Made(s, {"chip"})
        setup == Made(chip, Setup \ lost)
        request == IF lost \cap (Setup \cup {"add_line_settings", "request"}) = {}
                   THEN Made(setup, {"request"}) ELSE setup
        clean == cleanup_setup(request)
    IN  CASE "chip" \in lost -> s
          [] "chip" \notin lost /\ role = "events" ->
               IF "request" \in clean.points THEN Made(clean, {"buffer"} \ lost) ELSE clean
          [] OTHER -> [given |-> Freed(clean, {"chip"}), points |-> clean.points \ {"chip"}]

(* Version 1: the request is not a pointer of its own. *)
RequestOf(s) == [s EXCEPT !.given = Made(s, {"request"}).given]

(* Seeded fault: a line that is not granted is not closed. *)
MadeByV1_NotClosed(s, lost) ==
    LET chip == Made(s, {"chip"})
        got == Made(chip, {"line"})
    IN  CASE "chip" \in lost -> s
          [] "chip" \notin lost /\ "line" \in lost -> close(chip)
          [] OTHER -> IF "request" \in lost THEN got ELSE RequestOf(got)

MadeByV1(s, lost) ==
    LET chip == Made(s, {"chip"})
        got == Made(chip, {"line"})
    IN  CASE "chip" \in lost -> s
          [] "chip" \notin lost /\ "line" \in lost -> close(chip)
          [] OTHER -> IF "request" \in lost THEN close(got) ELSE RequestOf(got)

Open(lost, initial) ==
    /\ ~ line.open /\ (initial => line.role = "output")
    /\ LET s == [given |-> line.given, points |-> {}]
           made == IF line.api = 2 THEN MadeByV2(s, line.role, lost) ELSE MadeByV1(s, lost)
       IN  line' = [line EXCEPT !.open = TRUE, !.given = made.given,
                                !.held = made.points \cap Members(line.api),
                                !.value = initial /\ made.given["request"] > 0]

(* close(), from the destructor. *)
Close ==
    /\ line.open
    /\ line' = [Closed(line) EXCEPT
                  !.given = close([given |-> line.given, points |-> line.held]).given]

-----------------------------------------------------------------------------
valid ==
    CASE line.api = 1 -> {"chip", "line"} \subseteq line.held
      [] line.api = 2 /\ line.role = "events" -> {"request", "buffer"} \subseteq line.held
      [] OTHER -> "request" \in line.held

(* native_fd() is not -1; only an event source has one. *)
has_native_fd == line.role = "events" /\ (IF line.api = 1 THEN "line" ELSE "request") \in line.held

(* write() of an output pin; gpiod may refuse it. *)
Write(high) ==
    /\ line.role = "output" /\ valid /\ line.value # high
    /\ line' = [line EXCEPT !.value = high]

-----------------------------------------------------------------------------
Pointer(r) == IF line.api = 1 /\ r = "request" THEN "line" ELSE r

(* Whichever calls fail: what libgpiod has given out and not got back is    *)
(* what a member of the object leads to, once, so that close() gives back   *)
(* everything and nothing twice; and what a read or a write of a line that  *)
(* is valid() uses is there.                                                *)
NothingLeaks ==
    /\ \A r \in Given : line.given[r] = IF Pointer(r) \in line.held THEN 1 ELSE 0
    /\ valid => line.given["request"] = 1

(* It is inductive when also the members are those of the version, and a    *)
(* line that is not open has nothing.                                       *)
LineAgrees ==
    /\ line = [api |-> line.api, role |-> line.role, open |-> line.open, given |-> line.given,
               held |-> line.held, value |-> line.value]
    /\ line.api \in {1, 2} /\ line.role \in Roles
    /\ line.given \in [Given -> Int] /\ line.held \subseteq Members(line.api)
    /\ \A r \in Given : line.given[r] = IF Pointer(r) \in line.held THEN 1 ELSE 0
    /\ ~ line.open => line.held = {}
=============================================================================
