--------------------------- MODULE ProtocolReaders ---------------------------
(***************************************************************************)
(* The protocol readers (protocol_reader.hpp) on a memory stream           *)
(* (memory_stream.hpp): a producer writes bytes, as many as fit, before,   *)
(* between and (from the reader's callback) within the reader's polls, and *)
(* a reader cuts what it reads into messages.                              *)
(*                                                                         *)
(* The reader is chosen in the initial state.  A byte is a string; "cr",   *)
(* "lf", "ws", "quote" and "escape" stand for those characters, "0" for    *)
(* the digit 0, "1" for every other digit.  Statistics other than the      *)
(* number of errors are left out.                                          *)
(***************************************************************************)
EXTENDS RingBuffer, SequencesExt

CONSTANTS
    Setups,       \* bound: for each setup, [reader, bytes, buffer, length]: the
                  \* reader, the bytes written, its BufferSize, and how many are written
    FrameSize,    \* options of the fixed-frame reader
    HeaderSize, MaxPayload, payload_size_from_header,   \* and of the header one
    Literals,     \* the literals of JSON
    MaxChunk      \* bound: bytes written at once

ASSUME SetupsAssumption ==
    \A x \in DOMAIN Setups :
        /\ Setups[x].reader \in {"line", "line_keep", "fixed", "header", "json"}
        /\ Setups[x].buffer \in Nat

(* Frames are not empty (checked by poll() and valid_options()). *)
ASSUME FramesAssumption ==
    /\ FrameSize \in Nat \ {0} /\ HeaderSize \in Nat \ {0} /\ MaxPayload \in Nat
    /\ \A x \in DOMAIN Setups : Setups[x].reader = "header" =>
          \A h \in [1 .. HeaderSize -> Setups[x].bytes] : payload_size_from_header[h] \in Nat

VARIABLES
    setup,     \* the setup: which reader, on what input
    ring,      \* the memory stream
    reader,    \* the members of the reader
    consumed,  \* ghost: all bytes read
    emitted,   \* ghost: all messages emitted
    written    \* ghost: all bytes written, but for those that were cleared

vars == <<setup, ring, reader, consumed, emitted, written>>

kind == Setups[setup].reader
BufferSize == Setups[setup].buffer

(* The members of all readers together; each kind uses its own. *)
Fresh == [buffer |-> <<>>, state |-> "Idle", stack |-> <<>>, in_string |-> FALSE,
          escape |-> FALSE, rest |-> <<>>, out |-> <<>>, errors |-> 0]

Init ==
    /\ setup \in DOMAIN Setups
    /\ ring = EmptyRing
    /\ reader = Fresh
    /\ consumed = <<>> /\ emitted = <<>> /\ written = <<>>

reset(r) == [Fresh EXCEPT !.errors = r.errors, !.out = r.out]
fail(r) == [reset(r) EXCEPT !.errors = r.errors + 1]
emit(r, message) == [reset(r) EXCEPT !.out = Append(r.out, message)]

-----------------------------------------------------------------------------
(* LineProtocolReader::consume(). *)

strip_cr(line) == IF line # <<>> /\ Last(line) = "cr" THEN Front(line) ELSE line

(* Seeded fault: the byte that did not fit begins the next line. *)
consume_line_KeepsByte(r, c, drop_overflow) ==
    CASE c = "lf" -> emit(r, strip_cr(r.buffer))
      [] c # "lf" /\ Len(r.buffer) >= BufferSize ->
           IF drop_overflow THEN [fail(r) EXCEPT !.buffer = <<c>>] ELSE [r EXCEPT !.errors = @ + 1]
      [] OTHER -> [r EXCEPT !.buffer = Append(@, c)]

consume_line(r, c, drop_overflow) ==
    CASE c = "lf" -> emit(r, strip_cr(r.buffer))
      [] c # "lf" /\ Len(r.buffer) >= BufferSize ->
           IF drop_overflow THEN fail(r) ELSE [r EXCEPT !.errors = @ + 1]
      [] OTHER -> [r EXCEPT !.buffer = Append(@, c)]

-----------------------------------------------------------------------------
(* FixedFrameProtocolReader and HeaderPayloadProtocolReader. *)

consume_fixed(r, c) ==
    LET frame == Append(r.buffer, c)
    IN  IF Len(frame) = FrameSize THEN emit(r, frame) ELSE [r EXCEPT !.buffer = frame]

expected_size(frame) ==
    HeaderSize + payload_size_from_header[SubSeq(frame, 1, HeaderSize)]

(* append() and try_emit(); no byte of the next frame is ever in the buffer, *)
(* since bytes are read one by one.                                          *)
consume_header(r, c) ==
    LET frame == Append(r.buffer, c)
    IN  IF Len(frame) < HeaderSize THEN [r EXCEPT !.buffer = frame]
        ELSE IF expected_size(frame) > HeaderSize + MaxPayload THEN fail(r)
        ELSE IF expected_size(frame) = Len(frame) THEN emit(r, frame)
        ELSE [r EXCEPT !.buffer = frame]

-----------------------------------------------------------------------------
(* JsonProtocolReader. *)

Digits == {"0", "1"}
NumberBytes == Digits \cup {"-", "+", ".", "e"}

(* The first byte tells which value begins. *)
ASSUME LiteralsAssumption ==
    /\ Literals \subseteq Seq(STRING) \ {<<>>}
    /\ \A k, l \in Literals : Head(k) = Head(l) => k = l
    /\ \A l \in Literals : Head(l) \notin Digits \cup {"-", "ws", "{", "[", "quote"}

(* The first position from i on that holds no digit. *)
AfterDigits(text, i) ==
    CHOOSE j \in i .. Len(text) + 1 :
        /\ j <= Len(text) => text[j] \notin Digits
        /\ \A k \in i .. j - 1 : text[k] \in Digits

At(text, i, bytes) == i <= Len(text) /\ text[i] \in bytes

(* The scan of valid_number(): where the integer, the fraction and the      *)
(* exponent end, 0 when one is malformed.                                   *)
IntegerEnd(text) ==
    LET i == IF At(text, 1, {"-"}) THEN 2 ELSE 1
    IN  CASE At(text, i, {"0"}) -> i + 1
          [] At(text, i, {"1"}) -> AfterDigits(text, i)
          [] OTHER -> 0

FractionEnd(text, i) ==
    CASE i = 0 \/ ~ At(text, i, {"."}) -> i
      [] OTHER -> IF At(text, i + 1, Digits) THEN AfterDigits(text, i + 1) ELSE 0

ExponentEnd(text, i) ==
    LET j == IF At(text, i + 1, {"+", "-"}) THEN i + 2 ELSE i + 1
    IN  CASE i = 0 \/ ~ At(text, i, {"e"}) -> i
          [] OTHER -> IF At(text, j, Digits) THEN AfterDigits(text, j) ELSE 0

valid_number(text) == ExponentEnd(text, FractionEnd(text, IntegerEnd(text))) = Len(text) + 1

(* append() of a byte, after which the state is next. *)
append(r, c, next) ==
    IF Len(r.buffer) >= BufferSize THEN fail(r) ELSE [next EXCEPT !.buffer = Append(r.buffer, c)]

consume_literal(r, c) ==
    IF r.rest = <<>> \/ Head(r.rest) # c \/ Len(r.buffer) >= BufferSize THEN fail(r)
    ELSE IF Len(r.rest) = 1 THEN emit(r, Append(r.buffer, c))
    ELSE [r EXCEPT !.buffer = Append(@, c), !.rest = Tail(@)]

consume_idle(r, c) ==
    CASE c = "ws" -> r
      [] c \in {"{", "["} -> append(r, c, [r EXCEPT !.state = "Container", !.stack = <<c>>])
      [] c = "quote" -> append(r, c, [r EXCEPT !.state = "StringValue"])
      [] c \in Digits \cup {"-"} -> append(r, c, [r EXCEPT !.state = "NumberValue"])
      [] \E l \in Literals : c = Head(l) ->
           consume_literal([r EXCEPT !.state = "LiteralValue",
                                     !.rest = CHOOSE l \in Literals : c = Head(l)], c)
      [] OTHER -> fail(r)

(* Inside a string the byte after an escape counts for nothing. *)
StringByte(r, c, closed) ==
    CASE r.escape -> [r EXCEPT !.escape = FALSE]
      [] ~ r.escape /\ c = "escape" -> [r EXCEPT !.escape = TRUE]
      [] ~ r.escape /\ c = "quote" -> closed
      [] OTHER -> r

Closing(c) == IF c = "{" THEN "}" ELSE "]"

(* Seeded fault: a bracket of either kind closes a container. *)
pop_container_AnyKind(r, c) ==
    IF Len(r.stack) = 1 THEN emit(r, r.buffer) ELSE [r EXCEPT !.stack = Front(@)]

pop_container(r, c) ==
    CASE Closing(Last(r.stack)) # c -> fail(r)
      [] Closing(Last(r.stack)) = c /\ Len(r.stack) = 1 -> emit(r, r.buffer)
      [] OTHER -> [r EXCEPT !.stack = Front(@)]

(* The stack is as large as the buffer, so it cannot overflow first. *)
consume_container(r, c) ==
    LET a == append(r, c, r)
    IN  CASE Len(r.buffer) >= BufferSize -> a
          [] Len(r.buffer) < BufferSize /\ r.in_string ->
               StringByte(a, c, [a EXCEPT !.in_string = FALSE])
          [] Len(r.buffer) < BufferSize /\ ~ r.in_string /\ c = "quote" ->
               [a EXCEPT !.in_string = TRUE]
          [] Len(r.buffer) < BufferSize /\ ~ r.in_string /\ c \in {"{", "["} ->
               [a EXCEPT !.stack = Append(@, c)]
          [] Len(r.buffer) < BufferSize /\ ~ r.in_string /\ c \in {"}", "]"} ->
               pop_container(a, c)
          [] OTHER -> a

consume_string(r, c) ==
    LET a == append(r, c, r)
    IN  IF Len(r.buffer) >= BufferSize THEN a ELSE StringByte(a, c, emit(a, a.buffer))

(* A number ends with the byte that follows it. *)
consume_number(r, c) ==
    CASE c \in NumberBytes -> append(r, c, r)
      [] OTHER -> consume_idle(IF valid_number(r.buffer) THEN emit(r, r.buffer) ELSE fail(r), c)

consume_json(r, c) ==
    CASE r.state = "Idle" -> consume_idle(r, c)
      [] r.state = "Container" -> consume_container(r, c)
      [] r.state = "StringValue" -> consume_string(r, c)
      [] r.state = "NumberValue" -> consume_number(r, c)
      [] r.state = "LiteralValue" -> consume_literal(r, c)

-----------------------------------------------------------------------------
consume(r, c) ==
    CASE kind = "line" -> consume_line(r, c, TRUE)
      [] kind = "line_keep" -> consume_line(r, c, FALSE)
      [] kind = "fixed" -> consume_fixed(r, c)
      [] kind = "header" -> consume_header(r, c)
      [] kind = "json" -> consume_json(r, c)

(* One round of the loop of poll(): read() of one byte, and consume().  The *)
(* callback runs in the middle; what it writes is written before or after.  *)
PollByte ==
    /\ ring.count > 0
    /\ LET c == Head(Content(ring))
           r == consume(reader, c)
       IN  /\ reader' = [r EXCEPT !.out = <<>>]
           /\ emitted' = emitted \o r.out
           /\ consumed' = Append(consumed, c)
    /\ ring' = get(ring, 1)
    /\ UNCHANGED <<setup, written>>

(* write(): the bytes that fit. *)
write(src) ==
    /\ Len(written) + Len(src) <= Setups[setup].length
    /\ ring' = put(ring, Fitting(ring, src))
    /\ written' = written \o Fitting(ring, src)
    /\ UNCHANGED <<setup, reader, consumed, emitted>>

clear ==
    /\ ring.count > 0
    /\ ring' = cleared(ring)
    /\ written' = consumed
    /\ UNCHANGED <<setup, reader, consumed, emitted>>

Chunks == UNION {[1 .. n -> Setups[setup].bytes] : n \in 1 .. MaxChunk}

Next ==
    \/ PollByte
    \/ \E src \in Chunks : write(src)
    \/ clear

Spec == Init /\ [][Next]_vars

-----------------------------------------------------------------------------
(* The stream gives out what was written, in order, through every wrap of   *)
(* its indices and after clear().                                           *)
StreamInOrder == written = consumed \o Content(ring)
=============================================================================
