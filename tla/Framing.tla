------------------------------ MODULE Framing ------------------------------
(***************************************************************************)
(* What the messages of a stream are, said of the stream alone, and what   *)
(* the readers promise of them.  A stream is cut at the first place where  *)
(* what lies open since the last cut is whole, and so on: lines end with   *)
(* their delimiter, a frame is as long as its header says, and a JSON      *)
(* value is what the grammar says (quotes and escapes, brackets that       *)
(* match, a number in three parts).                                        *)
(***************************************************************************)
EXTENDS ProtocolReaders

(* Of a line that does not fit, the reader either starts again with the     *)
(* byte after each one that does not fit, or keeps what does.               *)
Kept(x, line) ==
    IF Setups[x].reader = "line"
    THEN SubSeq(line, Len(line) - (Len(line) % (Setups[x].buffer + 1)) + 1, Len(line))
    ELSE SubSeq(line, 1, IF Len(line) < Setups[x].buffer THEN Len(line) ELSE Setups[x].buffer)

FixedFrames(s) ==
    [k \in 1 .. Len(s) \div FrameSize |-> SubSeq(s, (k - 1) * FrameSize + 1, k * FrameSize)]

(* A header that announces too much is skipped. *)
TooLong(frame) == expected_size(frame) > HeaderSize + MaxPayload

IsFrame(p) ==
    /\ Len(p) >= HeaderSize
    /\ Len(p) = IF TooLong(p) THEN HeaderSize ELSE expected_size(p)

-----------------------------------------------------------------------------
(* The grammar of JSON, as far as the reader checks it. *)

(* m[i .. j] are digits, one at least. *)
DigitsAt(m, i, j) == i <= j /\ \A k \in i .. j : m[k] \in Digits

IsNumber(m) ==
    LET first == IF m[1] = "-" THEN 2 ELSE 1
    IN  \E i \in first .. Len(m) : \E j \in i .. Len(m) :
          /\ DigitsAt(m, first, i) /\ (m[first] = "0" => i = first)
          /\ j > i => m[i + 1] = "." /\ DigitsAt(m, i + 2, j)
          /\ j < Len(m) =>
               /\ m[j + 1] = "e"
               /\ \/ DigitsAt(m, j + 2, Len(m))
                  \/ j + 2 < Len(m) /\ m[j + 2] \in {"+", "-"} /\ DigitsAt(m, j + 3, Len(m))

(* Where a prefix of a value ends: outside or inside of a string, or behind *)
(* the escape in one, and within how many containers.                       *)
After(at, c) ==
    CASE at.mode = "skip" -> [at EXCEPT !.mode = "in"]
      [] at.mode = "in" -> [at EXCEPT !.mode = CASE c = "escape" -> "skip"
                                                 [] c = "quote" -> "out"
                                                 [] OTHER -> "in"]
      [] at.mode = "out" /\ c = "quote" -> [at EXCEPT !.mode = "in"]
      [] at.mode = "out" /\ c \in {"{", "["} -> [at EXCEPT !.depth = @ + 1]
      [] at.mode = "out" /\ c \in {"}", "]"} -> [at EXCEPT !.depth = @ - 1]
      [] OTHER -> at

Scan(m) ==
    LET scan[i \in 0 .. Len(m)] ==
            IF i = 0 THEN [mode |-> "out", depth |-> 0] ELSE After(scan[i - 1], m[i])
    IN  scan

IsString(m) ==
    /\ Len(m) > 1 /\ m[1] = "quote"
    /\ LET scan == Scan(m) IN \A i \in 1 .. Len(m) : scan[i].mode = "out" <=> i = Len(m)

(* The bracket at j closes the one that the bracket at i opens. *)
Matching(scan, i, j) ==
    /\ i < j
    /\ scan[i].depth = scan[i - 1].depth + 1 /\ scan[j].depth = scan[i - 1].depth
    /\ \A k \in i .. j - 1 : scan[k].depth >= scan[i].depth

IsContainer(m) ==
    /\ m # <<>> /\ m[1] \in {"{", "["}
    /\ LET scan == Scan(m)
       IN  /\ \A i \in 1 .. Len(m) : scan[i].depth = 0 <=> i = Len(m)
           /\ \A i, j \in 1 .. Len(m) : Matching(scan, i, j) => m[j] = Closing(m[i])

IsValue(m) == m # <<>> /\ (m \in Literals \/ IsString(m) \/ IsContainer(m) \/ IsNumber(m))

-----------------------------------------------------------------------------
(* The messages of a stream in setup x. *)

IsWhole(x, p) ==
    CASE Setups[x].reader \in {"line", "line_keep"} -> Last(p) = "lf"
      [] Setups[x].reader = "header" -> IsFrame(p)
      [] Setups[x].reader = "json" -> p = <<"ws">> \/ (IsValue(p) /\ ~ IsNumber(p))

(* The message in a whole piece; too long a header and white space are none. *)
MessagesIn(x, p) ==
    CASE Setups[x].reader \in {"line", "line_keep"} -> <<strip_cr(Kept(x, Front(p)))>>
      [] Setups[x].reader = "header" -> IF TooLong(p) THEN <<>> ELSE <<p>>
      [] Setups[x].reader = "json" -> IF p = <<"ws">> THEN <<>> ELSE <<p>>

(* The byte that cannot belong to a number ends it. *)
EndNumber(x, cut, c) ==
    IF /\ Setups[x].reader = "json" /\ c \notin NumberBytes
       /\ cut.open # <<>> /\ IsNumber(cut.open)
    THEN [open |-> <<>>, messages |-> Append(cut.messages, cut.open)]
    ELSE cut

AddByte(x, cut, c) ==
    LET p == Append(cut.open, c)
    IN  IF IsWhole(x, p) THEN [open |-> <<>>, messages |-> cut.messages \o MessagesIn(x, p)]
        ELSE [open |-> p, messages |-> cut.messages]

(* The messages of s, and what is open at its end. *)
Cut(x, s) ==
    LET cut[n \in 0 .. Len(s)] ==
            IF n = 0 THEN [open |-> <<>>, messages |-> <<>>]
            ELSE AddByte(x, EndNumber(x, cut[n - 1], s[n]), s[n])
    IN  cut[Len(s)]

Fits(x, cut) ==
    cut.open = <<>> /\ \A i \in 1 .. Len(cut.messages) : Len(cut.messages[i]) <= Setups[x].buffer

-----------------------------------------------------------------------------
(* The messages emitted are those of the bytes read, however these were     *)
(* written and split: nothing is lost, doubled or torn.  JSON is only       *)
(* promised as long as there is no error or for a stream of values that fit.*)
MessagesAsFramed ==
    IF kind = "fixed" THEN emitted = FixedFrames(consumed)
    ELSE LET cut == Cut(setup, consumed)
         IN  kind # "json" \/ reader.errors = 0 \/ Fits(setup, cut) => emitted = cut.messages

(* After errors and overflows too, whatever is emitted is a whole value. *)
EmittedIsValue ==
    kind = "json" => \A i \in 1 .. Len(emitted) : IsValue(emitted[i])
=============================================================================
