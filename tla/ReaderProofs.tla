----------------------------- MODULE ReaderProofs -----------------------------
(***************************************************************************)
(* Proofs about the ring buffer, the memory stream and the readers of      *)
(* protocol_reader.hpp: first the rings, and that the stream keeps the     *)
(* order of its bytes; then the line, fixed-frame and delimited readers    *)
(* against the framings of Framing; then the JSON reader against Whole and *)
(* Spoilt; last the invariant ReaderInv and the theorems about Spec.       *)
(***************************************************************************)
EXTENDS Framing, TLAPS, WellFoundedInduction, SequenceTheorems

(* Going on by n from the cell at position c. *)
LEMMA Onwards ==
    ASSUME NEW C \in Nat \ {0}, NEW h \in 0 .. C - 1, NEW c \in 0 .. C, NEW n \in 0 .. C
    PROVE  (((h + c) % C) + n) % C = (h + c + n) % C
<1>1. (h + c) % C = IF h + c < C THEN h + c ELSE h + c - C
  OBVIOUS
<1>2. CASE h + c < C
  BY <1>1, <1>2
<1>3. CASE ~ h + c < C
  <2>1. (h + c + n - C) % C = (h + c + n) % C
    BY <1>3
  <2>2. QED
    BY <1>1, <1>3, <2>1
<1>4. QED
  BY <1>2, <1>3

-----------------------------------------------------------------------------
Ring(S, cells, h, c) ==
    /\ cells \in [Cells -> S] /\ h \in 0 .. Capacity - 1 /\ c \in 0 .. Capacity

RingAt(cells, h, c) ==
    [cells |-> cells, head |-> h, count |-> c, tail |-> (h + c) % Capacity]

(* A well-formed ring is given by its cells, its head and its count. *)
LEMMA RingParts ==
    ASSUME NEW S, NEW r, RingOK(r), r.cells \in [Cells -> S]
    PROVE  \E cells, h, c : Ring(S, cells, h, c) /\ r = RingAt(cells, h, c)
<1>1. Ring(S, r.cells, r.head, r.count)
  BY RingAssumption DEF Ring, RingOK, Cells
<1>2. r = RingAt(r.cells, r.head, r.count)
  BY DEF RingOK, RingAt
<1>3. QED
  BY <1>1, <1>2

LEMMA RingWhole ==
    ASSUME NEW S, NEW cells, NEW h, NEW c, Ring(S, cells, h, c)
    PROVE  LET r == RingAt(cells, h, c) IN RingOK(r) /\ r.cells \in [Cells -> S]
BY RingAssumption DEF Ring, RingOK, RingAt, Cells

(* The content of such a ring, by index and as a sequence. *)
LEMMA ContentAt ==
    ASSUME NEW S, NEW cells, NEW h, NEW c, Ring(S, cells, h, c)
    PROVE  /\ Content(RingAt(cells, h, c)) \in Seq(S)
           /\ Len(Content(RingAt(cells, h, c))) = c
           /\ \A i \in 1 .. c : /\ (h + i - 1) % Capacity \in Cells
                                /\ Content(RingAt(cells, h, c))[i] = cells[(h + i - 1) % Capacity]
<1> DEFINE s == Content(RingAt(cells, h, c))
<1>1. Capacity \in Nat \ {0} /\ h \in 0 .. Capacity - 1 /\ c \in 0 .. Capacity
      /\ cells \in [Cells -> S]
  BY RingAssumption DEF Ring
<1>2. \A i \in 1 .. c : (h + i - 1) % Capacity \in Cells
  <2> TAKE i \in 1 .. c
  <2>1. h + i - 1 \in Int
    BY <1>1
  <2>2. QED
    BY <1>1, <2>1 DEF Cells
<1>3. s = [i \in 1 .. c |-> cells[(h + i - 1) % Capacity]]
  BY DEF Content, RingAt
<1> HIDE DEF s
<1>4. s \in [1 .. c -> S]
  BY <1>1, <1>2, <1>3
<1>5. s \in Seq(S) /\ Len(s) = c
  BY <1>1, <1>4
<1>6. QED
  BY <1>2, <1>3, <1>5 DEF s

(* The cells after put(): each one is found at its distance from the tail. *)
Stored(cells, t, src) ==
    [i \in Cells |-> LET k == (i - t) % Capacity
                     IN  IF k < Len(src) THEN src[k + 1] ELSE cells[i]]

PutIs(S, r, src) ==
    /\ RingOK(put(r, src)) /\ put(r, src).cells \in [Cells -> S]
    /\ Content(put(r, src)) = Content(r) \o src

(* What fits is stored behind what is held. *)
LEMMA PutAppends ==
    ASSUME NEW S, NEW cells, NEW h, NEW c, Ring(S, cells, h, c),
           NEW src, src \in Seq(S), Len(src) <= Capacity - c
    PROVE  PutIs(S, RingAt(cells, h, c), src)
<1> DEFINE C == Capacity
           r == RingAt(cells, h, c)
<1>1. C \in Nat \ {0} /\ h \in 0 .. C - 1 /\ c \in 0 .. C /\ cells \in [Cells -> S]
  BY RingAssumption DEF Ring
<1>2. PICK n \in Nat : n = Len(src)
  OBVIOUS
<1>3. n \in 0 .. C - c /\ c + n \in 0 .. C
  BY <1>1, <1>2
<1>4. PICK t \in 0 .. C - 1 : t = (h + c) % C
  BY <1>1
<1> DEFINE stored == Stored(cells, t, src)
<1>5. \A i \in Cells : \E k \in Nat : /\ k = (i - t) % C
                                     /\ stored[i] = IF k < n THEN src[k + 1] ELSE cells[i]
  <2> TAKE i \in Cells
  <2>1. i - t \in Int
    BY <1>1 DEF Cells
  <2>2. (i - t) % C \in Nat
    BY <1>1, <2>1
  <2>3. PICK k \in Nat : k = (i - t) % C
    BY <2>2
  <2>4. stored[i] = IF k < n THEN src[k + 1] ELSE cells[i]
    BY <1>2, <2>3 DEF Stored
  <2>5. QED
    BY <2>3, <2>4
<1>6. stored \in [Cells -> S]
  <2>1. \A i \in Cells : stored[i] \in S
    <3> TAKE i \in Cells
    <3>1. PICK k \in Nat : stored[i] = IF k < n THEN src[k + 1] ELSE cells[i]
      BY <1>5
    <3>2. QED
      BY <1>1, <1>2, <3>1
  <2>2. stored = [i \in Cells |-> stored[i]]
    BY DEF Stored
  <2> HIDE DEF stored
  <2>3. QED
    BY <2>1, <2>2
<1>7. Ring(S, stored, h, c + n)
  <2> HIDE DEF stored
  <2> QED
    BY <1>1, <1>3, <1>6 DEF Ring
<1>8. put(r, src) = RingAt(stored, h, c + n)
  <2>1. (t + n) % C = (h + (c + n)) % C
    <3>1. (t + n) % C = (h + c + n) % C
      <4>1. n \in 0 .. C
        BY <1>1, <1>3
      <4>2. (((h + c) % C) + n) % C = (h + c + n) % C
        BY <1>1, <4>1, Onwards, Zenon
      <4>3. QED
        BY <1>4, <4>2, Zenon
    <3>2. h + c + n = h + (c + n)
      BY <1>1, <1>3
    <3>3. QED
      BY <3>1, <3>2
  <2>2. r.cells = cells /\ r.head = h /\ r.count = c /\ r.tail = t
    BY <1>4 DEF RingAt
  <2> HIDE DEF r
  <2>3. put(r, src) = [cells |-> stored, head |-> h, count |-> c + n, tail |-> (t + n) % C]
    BY <1>2, <2>2, Zenon DEF put, Stored
  <2>4. QED
    BY <2>1, <2>3 DEF RingAt
<1> HIDE DEF stored
<1>9. RingOK(put(r, src)) /\ put(r, src).cells \in [Cells -> S]
  BY <1>7, <1>8, RingWhole
<1>10. Content(put(r, src)) = Content(r) \o src
  <2> DEFINE a == Content(RingAt(cells, h, c))
             b == Content(RingAt(stored, h, c + n))
  <2>1. a \in Seq(S) /\ Len(a) = c /\ \A i \in 1 .. c : a[i] = cells[(h + i - 1) % C]
    BY ContentAt
  <2>2. /\ b \in Seq(S) /\ Len(b) = c + n
        /\ \A i \in 1 .. c + n : /\ (h + i - 1) % C \in Cells
                                 /\ b[i] = stored[(h + i - 1) % C]
    BY <1>7, ContentAt
  <2> HIDE DEF a, b
  <2>3. \A i \in 1 .. c + n : b[i] = IF i <= c THEN a[i] ELSE src[i - c]
    <3> TAKE i \in 1 .. c + n
    <3>1. PICK p \in 0 .. C - 1 : p = i - 1
      BY <1>1, <1>3
    <3>2. PICK x \in Cells : x = (h + p) % C
      BY <1>1, <2>2, <3>1 DEF Cells
    <3>3. (h + i - 1) % C = x
      BY <1>1, <3>1, <3>2
    <3>4. PICK k \in Nat : /\ k = (x - t) % C
                           /\ stored[x] = IF k < n THEN src[k + 1] ELSE cells[x]
      BY <1>5
    <3>5. k = IF p >= c THEN p - c ELSE IF c = C THEN p ELSE p - c + C
      <4>1. x = IF h + p < C THEN h + p ELSE h + p - C
        BY <1>1, <3>1, <3>2, SMTT(30)
      <4>2. t = IF h + c < C THEN h + c ELSE h + c - C
        <5>1. C \in Nat \ {0} /\ h \in 0 .. C - 1 /\ c \in 0 .. C
          BY <1>1
        <5>2. (h + c) % C = IF h + c < C THEN h + c ELSE h + c - C
          BY <5>1
        <5>3. QED
          BY <1>4, <5>2, Zenon
      <4>3. x \in 0 .. C - 1
        BY <3>2 DEF Cells
      <4>4. (x - t) % C = IF x >= t THEN x - t ELSE x - t + C
        <5>1. CASE x >= t
          BY <1>1, <4>3, <5>1
        <5>2. CASE ~ x >= t
          BY <1>1, <4>3, <5>2
        <5>3. QED
          BY <5>1, <5>2
      <4>5. k = IF x >= t THEN x - t ELSE x - t + C
        BY <3>4, <4>4, Zenon
      <4>6. QED
        BY <1>1, <4>1, <4>2, <4>3, <4>5
    <3>6. CASE i <= c
      <4>1. ~ k < n
        BY <1>1, <1>3, <3>1, <3>5, <3>6
      <4>2. QED
        BY <2>1, <2>2, <3>3, <3>4, <3>6, <4>1
    <3>7. CASE ~ i <= c
      <4>1. k = i - c - 1 /\ k < n
        BY <1>1, <1>3, <3>1, <3>5, <3>7
      <4>2. k + 1 = i - c
        BY <1>1, <1>3, <4>1
      <4>3. QED
        BY <2>2, <3>3, <3>4, <3>7, <4>1, <4>2, Zenon
    <3>8. QED
      BY <3>6, <3>7
  <2>4. b = a \o src
    <3>1. a \in Seq(S) /\ Len(a) = c /\ b \in Seq(S) /\ Len(b) = c + n
      BY <2>1, <2>2
    <3>2. a \o src \in Seq(S) /\ Len(a \o src) = c + n
      BY <1>2, <3>1
    <3>3. \A i \in 1 .. c + n : (a \o src)[i] = IF i <= c THEN a[i] ELSE src[i - c]
      BY <1>1, <1>2, <1>3, <3>1
    <3>4. QED
      BY <1>1, <1>3, <2>3, <3>1, <3>2, <3>3, SMTT(30)
  <2>5. QED
    BY <1>8, <2>4 DEF a, b
<1>11. QED
  BY <1>9, <1>10 DEF PutIs

(* Taking one byte leaves the others, in their order. *)
LEMMA GetTakes ==
    ASSUME NEW S, NEW cells, NEW h, NEW c, Ring(S, cells, h, c), c > 0
    PROVE  LET r == RingAt(cells, h, c)
           IN  /\ RingOK(get(r, 1)) /\ get(r, 1).cells \in [Cells -> S]
               /\ Content(get(r, 1)) = Tail(Content(r))
<1> DEFINE C == Capacity
           r == RingAt(cells, h, c)
<1>1. C \in Nat \ {0} /\ h \in 0 .. C - 1 /\ c \in 0 .. C /\ cells \in [Cells -> S]
  BY RingAssumption DEF Ring
<1>2. PICK g \in 0 .. C - 1 : g = (h + 1) % C
  BY <1>1
<1>3. Ring(S, cells, g, c - 1)
  BY <1>1, <1>2 DEF Ring
<1>4. \A n \in 0 .. C : (g + n) % C = (h + 1 + n) % C
  <2> TAKE n \in 0 .. C
  <2>1. 1 \in 0 .. C
    BY <1>1
  <2>2. (((h + 1) % C) + n) % C = (h + 1 + n) % C
    BY <1>1, <2>1, Onwards, Zenon
  <2>3. QED
    BY <1>2, <2>2, Zenon
<1>5. get(r, 1) = RingAt(cells, g, c - 1)
  <2>1. (g + (c - 1)) % C = (h + c) % C
    <3>1. c - 1 \in 0 .. C
      BY <1>1
    <3>2. (g + (c - 1)) % C = (h + 1 + (c - 1)) % C
      BY <1>4, <3>1, Zenon
    <3>3. h + 1 + (c - 1) = h + c
      BY <1>1
    <3>4. QED
      BY <3>2, <3>3
  <2>2. r = [cells |-> cells, head |-> h, count |-> c, tail |-> (h + c) % C]
    BY DEF RingAt
  <2> HIDE DEF r
  <2>3. get(r, 1) = [cells |-> cells, head |-> g, count |-> c - 1, tail |-> (h + c) % C]
    <3>1. PICK t : t = (h + c) % C
      OBVIOUS
    <3>2. r = [cells |-> cells, head |-> h, count |-> c, tail |-> t]
      BY <2>2, <3>1
    <3>3. get(r, 1) = [r EXCEPT !.head = g, !.count = c - 1]
      BY <1>2, <3>2, Zenon DEF get
    <3>4. get(r, 1) = [cells |-> cells, head |-> g, count |-> c - 1, tail |-> t]
      BY <3>2, <3>3
    <3>5. QED
      BY <3>1, <3>4
  <2>4. QED
    BY <2>1, <2>3 DEF RingAt
<1>6. RingOK(get(r, 1)) /\ get(r, 1).cells \in [Cells -> S]
  BY <1>3, <1>5, RingWhole
<1>7. Content(get(r, 1)) = Tail(Content(r))
  <2> DEFINE a == Content(RingAt(cells, h, c))
             b == Content(RingAt(cells, g, c - 1))
  <2>1. a \in Seq(S) /\ Len(a) = c /\ \A i \in 1 .. c : a[i] = cells[(h + i - 1) % C]
    BY ContentAt
  <2>2. b \in Seq(S) /\ Len(b) = c - 1 /\ \A i \in 1 .. c - 1 : b[i] = cells[(g + i - 1) % C]
    BY <1>3, ContentAt
  <2> HIDE DEF a, b
  <2>3. \A i \in 1 .. c - 1 : b[i] = a[i + 1]
    <3> TAKE i \in 1 .. c - 1
    <3>1. PICK n \in 0 .. C : n = i - 1
      BY <1>1
    <3>2. (g + n) % C = (h + 1 + n) % C
      BY <1>4
    <3>3. g + i - 1 = g + n /\ h + (i + 1) - 1 = h + 1 + n /\ i + 1 \in 1 .. c
      BY <1>1, <3>1
    <3>4. QED
      BY <2>1, <2>2, <3>2, <3>3, ZenonT(30)
  <2>4. a \in Seq(S) /\ Len(a) = c /\ b \in Seq(S) /\ Len(b) = c - 1
    BY <2>1, <2>2
  <2>5. b = Tail(a)
    BY <1>1, <2>3, <2>4
  <2>6. QED
    BY <1>5, <2>5 DEF a, b
<1>8. QED
  BY <1>6, <1>7

LEMMA ClearedEmpty ==
    ASSUME NEW S, NEW r, RingOK(r), r.cells \in [Cells -> S]
    PROVE  /\ RingOK(cleared(r)) /\ cleared(r).cells \in [Cells -> S]
           /\ Content(cleared(r)) = <<>>
<1>1. PICK cells, h, c : Ring(S, cells, h, c) /\ r = RingAt(cells, h, c)
  BY RingParts
<1>2. Ring(S, cells, 0, 0) /\ (0 + 0) % Capacity = 0
  BY <1>1, RingAssumption DEF Ring
<1>3. cleared(r) = RingAt(cells, 0, 0)
  <2>1. PICK t : t = (h + c) % Capacity
    OBVIOUS
  <2>2. r = [cells |-> cells, head |-> h, count |-> c, tail |-> t]
    BY <1>1, <2>1 DEF RingAt
  <2>3. cleared(r) = [cells |-> cells, head |-> 0, count |-> 0, tail |-> 0]
    <3>1. cleared(r) = [r EXCEPT !.head = 0, !.tail = 0, !.count = 0]
      BY Zenon DEF cleared
    <3>2. QED
      BY <2>2, <3>1
  <2>4. QED
    BY <1>2, <2>3 DEF RingAt
<1>4. Content(RingAt(cells, 0, 0)) = <<>>
  BY <1>2, ContentAt
<1>5. QED
  BY <1>2, <1>3, <1>4, RingWhole

-----------------------------------------------------------------------------
Bytes == {Blank} \cup UNION {Setups[s].bytes : s \in DOMAIN Setups}

(* The inductive invariant: the ring is well-formed, and what it holds is   *)
(* what was written and not yet read.                                       *)
StreamInv ==
    /\ setup \in DOMAIN Setups
    /\ RingOK(ring) /\ ring.cells \in [Cells -> Bytes]
    /\ consumed \in Seq(Bytes)
    /\ StreamInOrder

LEMMA StreamInit == Init => StreamInv
<1> SUFFICES ASSUME Init PROVE StreamInv
  OBVIOUS
<1>1. [i \in Cells |-> Blank] \in [Cells -> Bytes]
  BY DEF Bytes
<1>2. Ring(Bytes, [i \in Cells |-> Blank], 0, 0) /\ (0 + 0) % Capacity = 0
  BY <1>1, RingAssumption DEF Ring
<1>3. ring = RingAt([i \in Cells |-> Blank], 0, 0)
  BY <1>2 DEF Init, EmptyRing, RingAt
<1>4. RingOK(ring) /\ ring.cells \in [Cells -> Bytes]
  BY <1>2, <1>3, RingWhole
<1>5. Content(ring) = <<>>
  <2>1. Content(ring) \in Seq(Bytes) /\ Len(Content(ring)) = 0
    BY <1>2, <1>3, ContentAt
  <2>2. QED
    BY <2>1
<1>6. QED
  BY <1>4, <1>5 DEF Init, StreamInv, StreamInOrder

LEMMA StreamStep == StreamInv /\ [Next]_vars => StreamInv'
<1> SUFFICES ASSUME StreamInv, [Next]_vars PROVE StreamInv'
  OBVIOUS
<1>1. PICK cells, h, c : Ring(Bytes, cells, h, c) /\ ring = RingAt(cells, h, c)
  <2>1. PICK r : r = ring
    OBVIOUS
  <2>2. RingOK(r) /\ r.cells \in [Cells -> Bytes]
    BY <2>1 DEF StreamInv
  <2>3. QED
    BY <2>1, <2>2, RingParts
<1>2. Content(ring) \in Seq(Bytes) /\ Len(Content(ring)) = c
  BY <1>1, ContentAt
<1>3. ring.count = c /\ c \in 0 .. Capacity /\ Capacity \in Nat \ {0}
  BY <1>1, RingAssumption DEF RingAt, Ring
<1>4. CASE PollByte
  <2>1. c > 0
    BY <1>3, <1>4 DEF PollByte
  <2>2. /\ RingOK(get(ring, 1)) /\ get(ring, 1).cells \in [Cells -> Bytes]
        /\ Content(get(ring, 1)) = Tail(Content(ring))
    BY <1>1, <2>1, GetTakes
  <2>3. ring' = get(ring, 1) /\ consumed' = Append(consumed, Head(Content(ring)))
        /\ UNCHANGED <<setup, written>>
    BY <1>4 DEF PollByte
  <2>4. consumed' \in Seq(Bytes) /\ consumed \o Content(ring) = consumed' \o Tail(Content(ring))
    <3> DEFINE s == Content(ring)
    <3>1. s \in Seq(Bytes) /\ s # <<>> /\ consumed \in Seq(Bytes)
      BY <1>2, <1>3, <2>1 DEF StreamInv
    <3> HIDE DEF s
    <3>2. /\ consumed \o s = Append(consumed, Head(s)) \o Tail(s)
          /\ Append(consumed, Head(s)) \in Seq(Bytes)
      BY <3>1, SMTT(30)
    <3>3. QED
      BY <2>3, <3>2 DEF s
  <2>5. QED
    BY <2>2, <2>3, <2>4 DEF StreamInv, StreamInOrder, Content
<1>5. ASSUME NEW chunk \in Chunks, write(chunk) PROVE StreamInv'
  <2> DEFINE fit == Fitting(ring, chunk)
  <2>1. fit \in Seq(Bytes) /\ Len(fit) <= Capacity - c
    <3>1. chunk \in Seq(Setups[setup].bytes)
      BY <1>5 DEF Chunks
    <3>2. chunk \in Seq(Bytes)
      BY <3>1 DEF StreamInv, Bytes
    <3>3. QED
      BY <1>3, <3>2 DEF Fitting, free
  <2>2. ring' = put(ring, fit) /\ written' = written \o fit /\ UNCHANGED <<setup, consumed>>
    BY <1>5 DEF write
  <2> HIDE DEF fit
  <2>3. PICK f \in Seq(Bytes) : Len(f) <= Capacity - c /\ f = fit
    BY <2>1
  <2>4. /\ RingOK(put(ring, f)) /\ put(ring, f).cells \in [Cells -> Bytes]
        /\ Content(put(ring, f)) = Content(ring) \o f
    <3>1. PutIs(Bytes, RingAt(cells, h, c), f)
      BY <1>1, <2>3, PutAppends
    <3>2. QED
      BY <1>1, <3>1 DEF PutIs
  <2>5. (consumed \o Content(ring)) \o f = consumed \o (Content(ring) \o f)
    BY <1>2, <2>3 DEF StreamInv
  <2>6. QED
    BY <2>2, <2>3, <2>4, <2>5 DEF StreamInv, StreamInOrder, Content
<1>6. CASE clear
  <2>1. ring' = cleared(ring) /\ written' = consumed /\ UNCHANGED <<setup, consumed>>
    BY <1>6 DEF clear
  <2>2. /\ RingOK(cleared(ring)) /\ cleared(ring).cells \in [Cells -> Bytes]
        /\ Content(cleared(ring)) = <<>>
    BY ClearedEmpty DEF StreamInv
  <2>3. consumed \o <<>> = consumed
    BY DEF StreamInv
  <2>4. QED
    BY <2>1, <2>2, <2>3 DEF StreamInv, StreamInOrder, Content
<1>7. CASE UNCHANGED vars
  BY <1>7 DEF StreamInv, StreamInOrder, Content, RingOK, vars
<1>8. QED
  BY <1>4, <1>5, <1>6, <1>7 DEF Next

(* Whatever the sizes, the bytes and the reader: the stream gives out what  *)
(* was written, in order, through every wrap of its indices.                *)
THEOREM StreamKept == Spec => []StreamInOrder
<1>1. StreamInv => StreamInOrder
  BY DEF StreamInv
<1>2. QED
  BY <1>1, StreamInit, StreamStep, PTL DEF Spec

-----------------------------------------------------------------------------
(* What Scan and Cut compute, byte by byte, is defined by recursion; these  *)
(* lemmas stand for the induction over the bytes.                           *)

(* A set of numbers has a least one. *)
LEMMA LeastIn ==
    ASSUME NEW S \in SUBSET Nat, NEW n \in S
    PROVE  \E m \in S : \A k \in S : m <= k
<1>1. PICK R : R = OpToRel(<, Nat)
  OBVIOUS
<1>2. IsWellFoundedOn(R, Nat)
  BY <1>1, NatLessThanWellFounded, Zenon
<1>3. PICK m \in S : \A k \in S : ~ (<<k, m>> \in R)
  BY <1>2, WFMin, Zenon
<1>4. \A k \in S : <<k, m>> \in R <=> k < m
  BY <1>1 DEF OpToRel
<1>5. \A k \in S : ~ (k < m)
  BY <1>3, <1>4, Zenon
<1>6. QED
  BY <1>5

LEMMA StaysIn ==
    ASSUME NEW V, NEW n, n \in Nat, NEW f, f[0] \in V,
           \A i \in 1 .. n : f[i - 1] \in V => f[i] \in V
    PROVE  \A i \in 0 .. n : f[i] \in V
<1> DEFINE Bad == {i \in 0 .. n : f[i] \notin V}
<1>1. ASSUME Bad # {} PROVE FALSE
  <2>1. PICK i \in Bad : \A k \in Bad : i <= k
    <3>1. Bad \in SUBSET Nat
      OBVIOUS
    <3> HIDE DEF Bad
    <3>2. QED
      BY <1>1, <3>1, LeastIn
  <2>2. i \in 1 .. n /\ i - 1 \in 0 .. n
    BY <2>1
  <2>3. ~ i <= i - 1
    BY <2>2
  <2>4. i - 1 \notin Bad
    <3> HIDE DEF Bad
    <3>1. QED
      BY <2>1, <2>3
  <2>5. QED
    BY <2>1, <2>2, <2>4
<1>2. QED
  BY <1>1

(* f is what comes of a by the first n bytes of s, one after the other. *)
Comes(f, a, G, s, n) ==
    f = [i \in 0 .. n |-> IF i = 0 THEN a ELSE G[f[i - 1]][s[i]]]

Steps(V, B, a, G) == a \in V /\ G \in [V -> [B -> V]]

Follows(V, f, a, G, s, n) ==
    f \in [0 .. n -> V] /\ f[0] = a /\ \A i \in 1 .. n : f[i] = G[f[i - 1]][s[i]]

LEMMA ComesTyped ==
    ASSUME NEW V, NEW B, NEW a, NEW G, Steps(V, B, a, G), NEW s, s \in Seq(B),
           NEW n, n \in 0 .. Len(s), NEW f, Comes(f, a, G, s, n)
    PROVE  Follows(V, f, a, G, s, n)
<1>1. n \in Nat /\ n <= Len(s) /\ a \in V /\ G \in [V -> [B -> V]]
  BY DEF Steps
<1>2. /\ f = [i \in 0 .. n |-> f[i]] /\ f[0] = a
      /\ \A i \in 1 .. n : f[i] = G[f[i - 1]][s[i]]
  <2>1. PICK e : e = [i \in 0 .. n |-> IF i = 0 THEN a ELSE G[f[i - 1]][s[i]]]
    OBVIOUS
  <2>2. f = e
    BY <2>1, Zenon DEF Comes
  <2>3. e = [i \in 0 .. n |-> e[i]] /\ e[0] = a
        /\ \A i \in 1 .. n : e[i] = G[f[i - 1]][s[i]]
    BY <1>1, <2>1
  <2>4. QED
    BY <2>2, <2>3, Zenon
<1>3. ASSUME NEW i \in 1 .. n, f[i - 1] \in V PROVE f[i] \in V
  <2>1. f[i] = G[f[i - 1]][s[i]]
    BY <1>2
  <2>2. s[i] \in B
    BY <1>1
  <2>3. QED
    BY <1>1, <1>3, <2>1, <2>2
<1>4. \A i \in 0 .. n : f[i] \in V
  BY <1>1, <1>2, <1>3, StaysIn
<1>5. QED
  BY <1>2, <1>4 DEF Follows

LEMMA ComesExists ==
    ASSUME NEW V, NEW B, NEW a, NEW G, Steps(V, B, a, G), NEW s, s \in Seq(B)
    PROVE  \E f : Comes(f, a, G, s, Len(s))
<1> DEFINE Bad == {n \in 0 .. Len(s) : ~ \E f : Comes(f, a, G, s, n)}
<1>1. SUFFICES ASSUME Len(s) \in Bad PROVE FALSE
  OBVIOUS
<1>2. PICK n \in Bad : \A k \in Bad : n <= k
  <2>1. Bad \in SUBSET Nat
    OBVIOUS
  <2> HIDE DEF Bad
  <2>2. QED
    BY <1>1, <2>1, LeastIn
<1>3. n # 0
  <2>1. Comes([i \in 0 .. 0 |-> a], a, G, s, 0)
    BY DEF Comes
  <2>2. QED
    BY <1>2, <2>1
<1>4. n \in Nat /\ n - 1 \in 0 .. Len(s) /\ n - 1 \notin Bad
  <2>1. n \in 0 .. Len(s)
    BY <1>2
  <2>2. n \in Nat /\ n - 1 \in 0 .. Len(s)
    BY <1>3, <2>1
  <2> HIDE DEF Bad
  <2>3. n - 1 \notin Bad
    BY <1>2, <2>2
  <2>4. QED
    BY <2>2, <2>3
<1>5. PICK f : Comes(f, a, G, s, n - 1)
  BY <1>4
<1> DEFINE g == [i \in 0 .. n |-> IF i = n THEN G[f[n - 1]][s[n]] ELSE f[i]]
           h == [i \in 0 .. n |-> IF i = 0 THEN a ELSE G[g[i - 1]][s[i]]]
<1>6. ASSUME NEW i \in 0 .. n PROVE g[i] = h[i]
  <2>1. CASE i = n
    BY <1>3, <1>4, <2>1
  <2>2. CASE i = 0
    <3>1. f[0] = a
      <4>1. 0 \in 0 .. n - 1
        BY <1>3, <1>4
      <4>2. QED
        BY <1>5, <4>1, Zenon DEF Comes
    <3>2. g[0] = f[0] /\ h[0] = a
      BY <1>3, <1>4
    <3>3. QED
      BY <2>2, <3>1, <3>2, Zenon
  <2>3. CASE i # n /\ i # 0
    <3>1. i \in 0 .. n - 1 /\ i - 1 \in 0 .. n /\ i - 1 # n
      BY <1>4, <2>3
    <3>2. f[i] = G[f[i - 1]][s[i]]
      BY <1>5, <2>3, <3>1 DEF Comes
    <3>3. QED
      BY <2>3, <3>1, <3>2
  <2>4. QED
    BY <2>1, <2>2, <2>3
<1>7. g = h
  BY <1>6
<1>8. Comes(g, a, G, s, n)
  BY <1>7, Zenon DEF Comes
<1>9. QED
  BY <1>2, <1>8

(* It depends on those bytes alone. *)
LEMMA ComesAgree ==
    ASSUME NEW V, NEW B, NEW a, NEW G, Steps(V, B, a, G),
           NEW s, s \in Seq(B), NEW t, t \in Seq(B), Len(s) <= Len(t),
           \A i \in 1 .. Len(s) : t[i] = s[i],
           NEW f, Comes(f, a, G, s, Len(s)), NEW g, Comes(g, a, G, t, Len(t))
    PROVE  \A i \in 0 .. Len(s) : g[i] = f[i]
<1> DEFINE Bad == {i \in 0 .. Len(s) : g[i] # f[i]}
<1>1. Len(s) \in Nat /\ Len(t) \in Nat
  OBVIOUS
<1>2. f[0] = a /\ \A i \in 1 .. Len(s) : f[i] = G[f[i - 1]][s[i]]
  <2>1. Len(s) \in 0 .. Len(s)
    BY <1>1
  <2>2. Follows(V, f, a, G, s, Len(s))
    BY <2>1, ComesTyped
  <2>3. QED
    BY <2>2 DEF Follows
<1>3. g[0] = a /\ \A i \in 1 .. Len(t) : g[i] = G[g[i - 1]][t[i]]
  <2>1. Len(t) \in 0 .. Len(t)
    BY <1>1
  <2>2. Follows(V, g, a, G, t, Len(t))
    BY <2>1, ComesTyped
  <2>3. QED
    BY <2>2 DEF Follows
<1>4. ASSUME Bad # {} PROVE FALSE
  <2>1. PICK i \in Bad : \A k \in Bad : i <= k
    <3>1. Bad \in SUBSET Nat
      BY <1>1
    <3> HIDE DEF Bad
    <3>2. QED
      BY <1>4, <3>1, LeastIn
  <2>2. i \in 1 .. Len(s) /\ i \in 1 .. Len(t)
    BY <1>1, <1>2, <1>3, <2>1
  <2>3. i - 1 \in 0 .. Len(s) /\ i - 1 \notin Bad
    <3>1. i - 1 \in 0 .. Len(s) /\ ~ i <= i - 1
      BY <1>1, <2>2
    <3> HIDE DEF Bad
    <3>2. QED
      BY <2>1, <3>1
  <2>4. QED
    BY <1>2, <1>3, <2>1, <2>2, <2>3
<1>5. QED
  BY <1>4

-----------------------------------------------------------------------------
Places == [mode : {"out", "in", "skip"}, depth : Int]

Outside == [mode |-> "out", depth |-> 0]

(* next is the place behind at and c. *)
GoesTo(at, c, next) ==
    /\ next \in Places
    /\ at.mode = "skip" => next.mode = "in"
    /\ at.mode = "in" =>
         next.mode = IF c = "escape" THEN "skip" ELSE IF c = "quote" THEN "out" ELSE "in"
    /\ at.mode = "out" => next.mode = IF c = "quote" THEN "in" ELSE "out"
    /\ next.depth = IF at.mode = "out" /\ c \in {"{", "["} THEN at.depth + 1
                    ELSE IF at.mode = "out" /\ c \in {"}", "]"} THEN at.depth - 1 ELSE at.depth

LEMMA AfterIs ==
    ASSUME NEW at, at \in Places, NEW c
    PROVE  GoesTo(at, c, After(at, c))
<1>1. PICK mode \in {"out", "in", "skip"}, depth \in Int : at = [mode |-> mode, depth |-> depth]
  BY DEF Places
<1>2. CASE mode = "skip"
  BY <1>1, <1>2 DEF GoesTo, Places, After
<1>3. CASE mode = "in"
  <2>1. PICK next : next = CASE c = "escape" -> "skip" [] c = "quote" -> "out" [] OTHER -> "in"
    OBVIOUS
  <2>2. next = IF c = "escape" THEN "skip" ELSE IF c = "quote" THEN "out" ELSE "in"
    BY <2>1
  <2>3. After(at, c) = [mode |-> next, depth |-> depth]
    BY <1>1, <1>3, <2>1 DEF After
  <2>4. QED
    BY <1>1, <1>3, <2>2, <2>3 DEF GoesTo, Places
<1>4. CASE mode = "out"
  <2>1. PICK up, down \in Int : up = depth + 1 /\ down = depth - 1
    BY <1>1
  <2>2. at.depth = depth /\ at.mode = "out"
    BY <1>1, <1>4
  <2>3. CASE c = "quote"
    <3>1. After(at, c) = [at EXCEPT !.mode = "in"]
      BY <2>2, <2>3 DEF After
    <3>2. QED
      BY <1>1, <2>2, <2>3, <3>1 DEF GoesTo, Places
  <2>4. CASE c \in {"{", "["}
    <3>1. After(at, c) = [at EXCEPT !.depth = up]
      BY <2>1, <2>2, <2>4 DEF After
    <3>2. QED
      BY <1>1, <2>1, <2>2, <2>4, <3>1 DEF GoesTo, Places
  <2>5. CASE c \in {"}", "]"}
    <3>1. After(at, c) = [at EXCEPT !.depth = down]
      BY <2>1, <2>2, <2>5 DEF After
    <3>2. QED
      BY <1>1, <2>1, <2>2, <2>5, <3>1 DEF GoesTo, Places
  <2>6. CASE c \notin {"quote", "{", "[", "}", "]"}
    BY <1>1, <2>2, <2>6 DEF GoesTo, Places, After
  <2>7. QED
    BY <2>3, <2>4, <2>5, <2>6
<1>5. QED
  BY <1>1, <1>2, <1>3, <1>4

ScanFrom(f, m) == f = [i \in 0 .. Len(m) |-> IF i = 0 THEN Outside ELSE After(f[i - 1], m[i])]

Places1(S) == [at \in Places |-> [c \in S |-> After(at, c)]]

LEMMA Places1Steps ==
    ASSUME NEW S
    PROVE  Steps(Places, S, Outside, Places1(S))
<1>1. Outside \in Places
  BY DEF Places, Outside
<1>2. \A at \in Places : [c \in S |-> After(at, c)] \in [S -> Places]
  BY AfterIs DEF GoesTo
<1>3. QED
  BY <1>1, <1>2 DEF Steps, Places1

(* The definition of Scan is a good one. *)
LEMMA ScanComes ==
    ASSUME NEW S, NEW m, m \in Seq(S)
    PROVE  Comes(Scan(m), Outside, Places1(S), m, Len(m))
<1>1. ASSUME NEW f, Comes(f, Outside, Places1(S), m, Len(m)) PROVE ScanFrom(f, m)
  <2>1. Follows(Places, f, Outside, Places1(S), m, Len(m))
    <3>1. Len(m) \in 0 .. Len(m)
      OBVIOUS
    <3>2. QED
      BY <1>1, <3>1, Places1Steps, ComesTyped
  <2>2. \A i \in 1 .. Len(m) : f[i - 1] \in Places /\ m[i] \in S
    BY <2>1 DEF Follows
  <2>3. \A i \in 1 .. Len(m) : Places1(S)[f[i - 1]][m[i]] = After(f[i - 1], m[i])
    BY <2>2 DEF Places1
  <2>4. [i \in 0 .. Len(m) |-> IF i = 0 THEN Outside ELSE Places1(S)[f[i - 1]][m[i]]]
        = [i \in 0 .. Len(m) |-> IF i = 0 THEN Outside ELSE After(f[i - 1], m[i])]
    BY <2>3
  <2>5. QED
    BY <1>1, <2>4, Zenon DEF Comes, ScanFrom
<1>2. ASSUME NEW f, ScanFrom(f, m) PROVE Comes(f, Outside, Places1(S), m, Len(m))
  <2>1. f[0] = Outside /\ \A i \in 1 .. Len(m) : f[i] = After(f[i - 1], m[i])
    <3>1. PICK e : e = [i \in 0 .. Len(m) |-> IF i = 0 THEN Outside ELSE After(f[i - 1], m[i])]
      OBVIOUS
    <3>2. f = e
      BY <1>2, <3>1, Zenon DEF ScanFrom
    <3>3. e[0] = Outside /\ \A i \in 1 .. Len(m) : e[i] = After(f[i - 1], m[i])
      BY <3>1
    <3>4. QED
      BY <3>2, <3>3, Zenon
  <2>2. f[0] \in Places /\ \A i \in 1 .. Len(m) : f[i - 1] \in Places => f[i] \in Places
    <3>1. Outside \in Places
      BY DEF Places, Outside
    <3>2. ASSUME NEW i \in 1 .. Len(m), f[i - 1] \in Places PROVE f[i] \in Places
      <4>1. f[i] = After(f[i - 1], m[i])
        BY <2>1
      <4>2. After(f[i - 1], m[i]) \in Places
        BY <3>2, AfterIs DEF GoesTo
      <4>3. QED
        BY <4>1, <4>2
    <3>3. QED
      BY <2>1, <3>1, <3>2
  <2>3. \A i \in 0 .. Len(m) : f[i] \in Places
    <3>1. Len(m) \in Nat
      OBVIOUS
    <3>2. QED
      BY <2>2, <3>1, StaysIn
  <2>4. \A i \in 1 .. Len(m) : Places1(S)[f[i - 1]][m[i]] = After(f[i - 1], m[i])
    BY <2>3 DEF Places1
  <2>5. [i \in 0 .. Len(m) |-> IF i = 0 THEN Outside ELSE Places1(S)[f[i - 1]][m[i]]]
        = [i \in 0 .. Len(m) |-> IF i = 0 THEN Outside ELSE After(f[i - 1], m[i])]
    BY <2>4
  <2>6. QED
    BY <1>2, <2>5, Zenon DEF Comes, ScanFrom
<1>3. \E f : ScanFrom(f, m)
  BY <1>1, Places1Steps, ComesExists
<1>4. Scan(m) = CHOOSE f : ScanFrom(f, m)
  BY DEF Scan, ScanFrom, Outside
<1>5. ScanFrom(Scan(m), m)
  BY <1>3, <1>4
<1>6. QED
  BY <1>2, <1>5

LEMMA ScanIs ==
    ASSUME NEW S, NEW m, m \in Seq(S)
    PROVE  /\ Scan(m)[0] = Outside
           /\ \A i \in 0 .. Len(m) : Scan(m)[i] \in Places
           /\ \A i \in 1 .. Len(m) : Scan(m)[i] = After(Scan(m)[i - 1], m[i])
<1>1. Follows(Places, Scan(m), Outside, Places1(S), m, Len(m))
  BY ScanComes, Places1Steps, ComesTyped
<1>2. \A i \in 1 .. Len(m) : Places1(S)[Scan(m)[i - 1]][m[i]] = After(Scan(m)[i - 1], m[i])
  BY <1>1 DEF Follows, Places1
<1>3. QED
  BY <1>1, <1>2 DEF Follows

(* What follows a prefix does not matter to it. *)
LEMMA ScanAgrees ==
    ASSUME NEW S, NEW m, m \in Seq(S), NEW t, t \in Seq(S), Len(m) <= Len(t),
           \A i \in 1 .. Len(m) : t[i] = m[i]
    PROVE  \A i \in 0 .. Len(m) : Scan(t)[i] = Scan(m)[i]
BY ScanComes, Places1Steps, ComesAgree

-----------------------------------------------------------------------------
(* Pieces of a stream and messages are sequences of bytes of S. *)
Cuts(S) == [open : Seq(S), messages : Seq(Seq(S))]

NoCut == [open |-> <<>>, messages |-> <<>>]

NextCut(x, cut, c) == AddByte(x, EndNumber(x, cut, c), c)

LEMMA StripTyped ==
    ASSUME NEW S, NEW p, p \in Seq(S)
    PROVE  strip_cr(p) \in Seq(S)
<1>1. CASE p = <<>>
  BY <1>1 DEF strip_cr
<1>2. CASE p # <<>>
  <2>1. Front(p) \in Seq(S)
    BY <1>2 DEF Front
  <2>2. QED
    BY <2>1 DEF strip_cr
<1>3. QED
  BY <1>1, <1>2

LEMMA Division ==
    ASSUME NEW d \in Nat \ {0}, NEW q \in Nat, NEW r \in 0 .. d - 1
    PROVE  (d * q + r) % d = r /\ (d * q + r) \div d = q
OBVIOUS

LEMMA Remainder ==
    ASSUME NEW n \in Nat, NEW k \in Nat
    PROVE  /\ k % (n + 1) \in 0 .. n /\ k % (n + 1) <= k
           /\ k <= n => k % (n + 1) = k
           /\ (k + 1) % (n + 1) = IF k % (n + 1) = n THEN 0 ELSE (k % (n + 1)) + 1
<1>1. PICK d \in Nat \ {0} : d = n + 1
  OBVIOUS
<1>2. PICK r \in 0 .. d - 1 : r = k % d
  OBVIOUS
<1>3. k < d => k % d = k
  OBVIOUS
<1>4. (k + 1) % d = IF r = d - 1 THEN 0 ELSE r + 1
  <2>1. PICK q \in Nat : k = d * q + r
    <3>1. k = d * (k \div d) + (k % d) /\ k \div d \in Nat
      OBVIOUS
    <3>2. QED
      BY <1>2, <3>1
  <2>2. CASE r = d - 1
    <3>1. k + 1 = d * (q + 1) + 0
      BY <2>1, <2>2
    <3>2. q + 1 \in Nat /\ 0 \in 0 .. d - 1
      OBVIOUS
    <3>3. (d * (q + 1) + 0) % d = 0
      BY <3>2, Division, Zenon
    <3>4. QED
      BY <2>2, <3>1, <3>3
  <2>3. CASE r # d - 1
    <3>1. r + 1 \in 0 .. d - 1 /\ k + 1 = d * q + (r + 1)
      BY <2>1, <2>3
    <3>2. QED
      BY <2>3, <3>1, Division
  <2>4. QED
    BY <2>2, <2>3
<1>5. QED
  BY <1>1, <1>2, <1>3, <1>4

LEMMA KeptTyped ==
    ASSUME NEW S, NEW x, x \in DOMAIN Setups, NEW p, p \in Seq(S)
    PROVE  Kept(x, p) \in Seq(S)
<1>1. PICK n \in Nat : n = Setups[x].buffer
  BY SetupsAssumption
<1>2. Len(p) \in Nat /\ \A i \in 1 .. Len(p) : p[i] \in S
  OBVIOUS
<1>3. PICK r : r = Len(p) % (n + 1)
  OBVIOUS
<1>4. r \in 0 .. n /\ r <= Len(p)
  BY <1>1, <1>2, <1>3, Remainder
<1>5. SubSeq(p, Len(p) - r + 1, Len(p)) \in Seq(S)
  BY <1>2, <1>4
<1>6. SubSeq(p, 1, IF Len(p) < n THEN Len(p) ELSE n) \in Seq(S)
  BY <1>1, <1>2
<1>7. QED
  BY <1>1, <1>3, <1>5, <1>6, Zenon DEF Kept

LEMMA NextCutTyped ==
    ASSUME NEW S, NEW x, x \in DOMAIN Setups, Setups[x].reader # "fixed",
           NEW cut, cut \in Cuts(S), NEW c, c \in S
    PROVE  NextCut(x, cut, c) \in Cuts(S)
<1>1. PICK e : e = EndNumber(x, cut, c)
  OBVIOUS
<1>2. e \in Cuts(S)
  BY <1>1 DEF EndNumber, Cuts
<1>3. PICK p : p = Append(e.open, c)
  OBVIOUS
<1>4. p \in Seq(S) /\ p # <<>> /\ e.open \in Seq(S) /\ e.messages \in Seq(Seq(S))
  <2>1. e.open \in Seq(S) /\ e.messages \in Seq(Seq(S))
    BY <1>2 DEF Cuts
  <2>2. QED
    BY <1>3, <2>1
<1>5. MessagesIn(x, p) \in Seq(Seq(S))
  <2>1. CASE Setups[x].reader \in {"line", "line_keep"}
    <3>1. Front(p) \in Seq(S)
      BY <1>4 DEF Front
    <3>2. strip_cr(Kept(x, Front(p))) \in Seq(S)
      BY <3>1, KeptTyped, StripTyped
    <3>3. MessagesIn(x, p) = <<strip_cr(Kept(x, Front(p)))>>
      BY <2>1 DEF MessagesIn
    <3>4. QED
      BY <3>2, <3>3
  <2>2. CASE Setups[x].reader = "header"
    <3>1. MessagesIn(x, p) = IF TooLong(p) THEN <<>> ELSE <<p>>
      BY <2>2 DEF MessagesIn
    <3>2. QED
      BY <1>4, <3>1
  <2>3. CASE Setups[x].reader = "json"
    <3>1. MessagesIn(x, p) = IF p = <<"ws">> THEN <<>> ELSE <<p>>
      BY <2>3 DEF MessagesIn
    <3>2. QED
      BY <1>4, <3>1
  <2>4. QED
    BY <2>1, <2>2, <2>3, SetupsAssumption
<1>6. AddByte(x, e, c) = IF IsWhole(x, p)
                         THEN [open |-> <<>>, messages |-> e.messages \o MessagesIn(x, p)]
                         ELSE [open |-> p, messages |-> e.messages]
  BY <1>3 DEF AddByte
<1>7. e.messages \o MessagesIn(x, p) \in Seq(Seq(S)) /\ <<>> \in Seq(S)
  BY <1>4, <1>5
<1>8. QED
  BY <1>1, <1>4, <1>6, <1>7 DEF NextCut, Cuts

CutFrom(f, x, s) ==
    f = [n \in 0 .. Len(s) |-> IF n = 0 THEN NoCut ELSE NextCut(x, f[n - 1], s[n])]

Cuts1(x, S) == [cut \in Cuts(S) |-> [c \in S |-> NextCut(x, cut, c)]]

LEMMA Cuts1Steps ==
    ASSUME NEW S, NEW x, x \in DOMAIN Setups, Setups[x].reader # "fixed"
    PROVE  Steps(Cuts(S), S, NoCut, Cuts1(x, S))
<1>1. NoCut \in Cuts(S)
  BY DEF Cuts, NoCut
<1>2. \A cut \in Cuts(S) : [c \in S |-> NextCut(x, cut, c)] \in [S -> Cuts(S)]
  BY NextCutTyped
<1>3. QED
  BY <1>1, <1>2 DEF Steps, Cuts1

(* The definition of Cut is a good one. *)
LEMMA CutComes ==
    ASSUME NEW S, NEW x, x \in DOMAIN Setups, Setups[x].reader # "fixed",
           NEW s, s \in Seq(S)
    PROVE  \E f : Comes(f, NoCut, Cuts1(x, S), s, Len(s)) /\ Cut(x, s) = f[Len(s)]
<1>1. ASSUME NEW f, Comes(f, NoCut, Cuts1(x, S), s, Len(s)) PROVE CutFrom(f, x, s)
  <2>1. Follows(Cuts(S), f, NoCut, Cuts1(x, S), s, Len(s))
    <3>1. Len(s) \in 0 .. Len(s)
      OBVIOUS
    <3>2. QED
      BY <1>1, <3>1, Cuts1Steps, ComesTyped
  <2>2. \A i \in 1 .. Len(s) : f[i - 1] \in Cuts(S) /\ s[i] \in S
    BY <2>1 DEF Follows
  <2>3. \A i \in 1 .. Len(s) : Cuts1(x, S)[f[i - 1]][s[i]] = NextCut(x, f[i - 1], s[i])
    BY <2>2 DEF Cuts1
  <2>4. [i \in 0 .. Len(s) |-> IF i = 0 THEN NoCut ELSE Cuts1(x, S)[f[i - 1]][s[i]]]
        = [i \in 0 .. Len(s) |-> IF i = 0 THEN NoCut ELSE NextCut(x, f[i - 1], s[i])]
    BY <2>3
  <2>5. QED
    BY <1>1, <2>4, Zenon DEF Comes, CutFrom
<1>2. ASSUME NEW f, CutFrom(f, x, s) PROVE Comes(f, NoCut, Cuts1(x, S), s, Len(s))
  <2>1. f[0] = NoCut /\ \A i \in 1 .. Len(s) : f[i] = NextCut(x, f[i - 1], s[i])
    <3>1. PICK e : e = [i \in 0 .. Len(s) |-> IF i = 0 THEN NoCut ELSE NextCut(x, f[i - 1], s[i])]
      OBVIOUS
    <3>2. f = e
      BY <1>2, <3>1, Zenon DEF CutFrom
    <3>3. e[0] = NoCut /\ \A i \in 1 .. Len(s) : e[i] = NextCut(x, f[i - 1], s[i])
      BY <3>1
    <3>4. QED
      BY <3>2, <3>3, Zenon
  <2>2. f[0] \in Cuts(S) /\ \A i \in 1 .. Len(s) : f[i - 1] \in Cuts(S) => f[i] \in Cuts(S)
    <3>1. NoCut \in Cuts(S)
      BY DEF Cuts, NoCut
    <3>2. \A i \in 1 .. Len(s) : s[i] \in S
      OBVIOUS
    <3>3. QED
      BY <2>1, <3>1, <3>2, NextCutTyped
  <2>3. \A i \in 0 .. Len(s) : f[i] \in Cuts(S)
    <3>1. Len(s) \in Nat
      OBVIOUS
    <3>2. QED
      BY <2>2, <3>1, StaysIn
  <2>4. \A i \in 1 .. Len(s) : Cuts1(x, S)[f[i - 1]][s[i]] = NextCut(x, f[i - 1], s[i])
    BY <2>3 DEF Cuts1
  <2>5. [i \in 0 .. Len(s) |-> IF i = 0 THEN NoCut ELSE Cuts1(x, S)[f[i - 1]][s[i]]]
        = [i \in 0 .. Len(s) |-> IF i = 0 THEN NoCut ELSE NextCut(x, f[i - 1], s[i])]
    BY <2>4
  <2>6. QED
    BY <1>2, <2>5, Zenon DEF Comes, CutFrom
<1>3. \E f : CutFrom(f, x, s)
  BY <1>1, Cuts1Steps, ComesExists
<1> DEFINE f == CHOOSE f : CutFrom(f, x, s)
<1>4. Cut(x, s) = f[Len(s)]
  BY DEF Cut, CutFrom, NoCut, NextCut
<1>5. CutFrom(f, x, s)
  BY <1>3
<1> HIDE DEF f
<1>6. QED
  BY <1>2, <1>4, <1>5

LEMMA CutTyped ==
    ASSUME NEW S, NEW x, x \in DOMAIN Setups, Setups[x].reader # "fixed",
           NEW s, s \in Seq(S)
    PROVE  Cut(x, s) \in Cuts(S) /\ (s = <<>> => Cut(x, s) = NoCut)
<1>1. PICK f : Comes(f, NoCut, Cuts1(x, S), s, Len(s)) /\ Cut(x, s) = f[Len(s)]
  BY CutComes
<1>2. Len(s) \in 0 .. Len(s)
  OBVIOUS
<1>3. Follows(Cuts(S), f, NoCut, Cuts1(x, S), s, Len(s))
  BY <1>1, <1>2, Cuts1Steps, ComesTyped
<1>4. f[Len(s)] \in Cuts(S) /\ f[0] = NoCut
  BY <1>2, <1>3 DEF Follows
<1>5. QED
  BY <1>1, <1>4

(* The messages are found byte by byte. *)
LEMMA CutStep ==
    ASSUME NEW S, NEW x, x \in DOMAIN Setups, Setups[x].reader # "fixed",
           NEW s, s \in Seq(S), NEW c, c \in S
    PROVE  Cut(x, Append(s, c)) = NextCut(x, Cut(x, s), c)
<1>1. PICK t : t = Append(s, c)
  OBVIOUS
<1>2. /\ t \in Seq(S) /\ Len(t) = Len(s) + 1 /\ t[Len(t)] = c /\ Len(s) \in Nat
      /\ \A i \in 1 .. Len(s) : t[i] = s[i]
  BY <1>1
<1>3. PICK f : Comes(f, NoCut, Cuts1(x, S), s, Len(s)) /\ Cut(x, s) = f[Len(s)]
  BY CutComes
<1>4. PICK g : Comes(g, NoCut, Cuts1(x, S), t, Len(t)) /\ Cut(x, t) = g[Len(t)]
  BY <1>2, CutComes
<1>5. Follows(Cuts(S), f, NoCut, Cuts1(x, S), s, Len(s))
  <2>1. Len(s) \in 0 .. Len(s)
    BY <1>2
  <2>2. QED
    BY <1>3, <2>1, Cuts1Steps, ComesTyped
<1>6. Follows(Cuts(S), g, NoCut, Cuts1(x, S), t, Len(t))
  <2>1. Len(t) \in 0 .. Len(t)
    BY <1>2
  <2>2. QED
    BY <1>2, <1>4, <2>1, Cuts1Steps, ComesTyped
<1>7. \A i \in 0 .. Len(s) : g[i] = f[i]
  BY <1>2, <1>3, <1>4, Cuts1Steps, ComesAgree, SMTT(30)
<1>8. f[Len(s)] \in Cuts(S) /\ f[0] = NoCut
  BY <1>2, <1>5 DEF Follows
<1>9. g[Len(t)] = Cuts1(x, S)[g[Len(s)]][c]
  BY <1>2, <1>6 DEF Follows
<1>10. g[Len(s)] = f[Len(s)]
  BY <1>2, <1>7
<1>11. Cuts1(x, S)[f[Len(s)]][c] = NextCut(x, f[Len(s)], c)
  BY <1>8 DEF Cuts1
<1>12. QED
  BY <1>1, <1>3, <1>4, <1>8, <1>9, <1>10, <1>11

-----------------------------------------------------------------------------
(* The members of a reader that takes bytes of S. *)
States == {"Idle", "Container", "StringValue", "NumberValue", "LiteralValue"}

Brackets == {"{", "["}

Readers(S) ==
    [buffer : Seq(S), state : States, stack : Seq(Brackets), in_string : BOOLEAN,
     escape : BOOLEAN, rest : Seq(STRING), out : Seq(Seq(S)), errors : Nat]

(* A reader between two messages. *)
Resting(out, errors) == [Fresh EXCEPT !.errors = errors, !.out = out]

RestsWith(S, r, out, errors) ==
    /\ r \in Readers(S) /\ r.buffer = <<>> /\ r.state = "Idle"
    /\ ~ r.in_string /\ ~ r.escape /\ r.out = out /\ r.errors = errors

LEMMA RestingIs ==
    ASSUME NEW S, NEW o, o \in Seq(Seq(S)), NEW n, n \in Nat
    PROVE  RestsWith(S, Resting(o, n), o, n)
<1>1. Resting(o, n) = [buffer |-> <<>>, state |-> "Idle", stack |-> <<>>, in_string |-> FALSE,
                       escape |-> FALSE, rest |-> <<>>, out |-> o, errors |-> n]
  <2>1. PICK f : f = Fresh
    OBVIOUS
  <2>2. f = [buffer |-> <<>>, state |-> "Idle", stack |-> <<>>, in_string |-> FALSE,
             escape |-> FALSE, rest |-> <<>>, out |-> <<>>, errors |-> 0]
    BY <2>1 DEF Fresh
  <2>3. Resting(o, n) = [f EXCEPT !.errors = n, !.out = o]
    BY <2>1, Zenon DEF Resting
  <2>4. QED
    BY <2>2, <2>3
<1>2. QED
  BY <1>1 DEF RestsWith, Readers, States

LEMMA FailRests ==
    ASSUME NEW r
    PROVE  fail(r) = Resting(r.out, r.errors + 1)
BY DEF fail, reset, Resting, Fresh

LEMMA EmitRests ==
    ASSUME NEW r, NEW m
    PROVE  emit(r, m) = Resting(Append(r.out, m), r.errors)
BY DEF emit, reset, Resting, Fresh

LEMMA Alone ==
    ASSUME NEW M, NEW m, m \in M
    PROVE  Append(<<>>, m) = <<m>> /\ <<m>> \in Seq(M)
OBVIOUS

(* What a step of the reader leaves behind, once its messages are emitted. *)
Emptied(r) == [r EXCEPT !.out = <<>>]

LEMMA EmptiedIs ==
    ASSUME NEW S, NEW r, r \in Readers(S)
    PROVE  /\ Emptied(r) \in Readers(S) /\ Emptied(r).out = <<>>
           /\ Emptied(r).buffer = r.buffer /\ Emptied(r).errors = r.errors
           /\ Emptied(r).state = r.state /\ Emptied(r).stack = r.stack
           /\ Emptied(r).in_string = r.in_string /\ Emptied(r).escape = r.escape
           /\ Emptied(r).rest = r.rest
<1>1. PICK e : e = Emptied(r)
  OBVIOUS
<1>2. e = [r EXCEPT !.out = <<>>]
  BY <1>1 DEF Emptied
<1>3. e \in Readers(S)
  <2>1. <<>> \in Seq(Seq(S))
    BY EmptySeq
  <2>2. PICK o : o = <<>>
    OBVIOUS
  <2>3. o \in Seq(Seq(S)) /\ e = [r EXCEPT !.out = o]
    BY <1>2, <2>1, <2>2
  <2>4. QED
    BY <2>3 DEF Readers
<1>4. QED
  BY <1>1, <1>2, <1>3 DEF Readers

(* q is r but for its buffer and its errors. *)
Filled(S, q, r, buffer, errors) ==
    /\ q \in Readers(S) /\ q.buffer = buffer /\ q.errors = errors /\ q.out = r.out
    /\ q.state = r.state /\ q.stack = r.stack /\ q.rest = r.rest
    /\ (q.in_string <=> r.in_string) /\ (q.escape <=> r.escape)

LEMMA BufferedIs ==
    ASSUME NEW S, NEW r, r \in Readers(S), NEW b, b \in Seq(S)
    PROVE  Filled(S, [r EXCEPT !.buffer = b], r, b, r.errors)
BY DEF Filled, Readers

LEMMA CountedIs ==
    ASSUME NEW S, NEW r, r \in Readers(S), NEW n, n \in Nat
    PROVE  Filled(S, [r EXCEPT !.errors = n], r, r.buffer, n)
BY DEF Filled, Readers

-----------------------------------------------------------------------------
(* Lines. *)

LEMMA PieceIs ==
    ASSUME NEW S, NEW p, p \in Seq(S), NEW i \in 1 .. Len(p) + 1, NEW j \in 0 .. Len(p), i <= j + 1
    PROVE  /\ SubSeq(p, i, j) \in Seq(S) /\ Len(SubSeq(p, i, j)) = j - i + 1
           /\ \A k \in 1 .. j - i + 1 : SubSeq(p, i, j)[k] = p[i + k - 1]
<1>1. \A k \in i .. j : p[k] \in S
  OBVIOUS
<1>2. i \in Int /\ j \in Int /\ (IF i <= j THEN j - i + 1 ELSE 0) = j - i + 1
  OBVIOUS
<1>3. QED
  BY <1>1, <1>2, SubSeqProperties

KeepsAs(x, p, c) ==
    /\ Kept(x, <<>>) = <<>>
    /\ Len(Kept(x, p)) >= Setups[x].buffer =>
         Kept(x, Append(p, c)) = IF Setups[x].reader = "line" THEN <<>> ELSE Kept(x, p)
    /\ Len(Kept(x, p)) < Setups[x].buffer => Kept(x, Append(p, c)) = Append(Kept(x, p), c)

LEMMA KeptStep ==
    ASSUME NEW S, NEW x, x \in DOMAIN Setups, NEW p, p \in Seq(S), NEW c, c \in S
    PROVE  KeepsAs(x, p, c)
<1>1. PICK n \in Nat : n = Setups[x].buffer
  BY SetupsAssumption
<1>2. PICK t : t = Append(p, c)
  OBVIOUS
<1>3. /\ t \in Seq(S) /\ Len(t) = Len(p) + 1 /\ Len(p) \in Nat
      /\ \A i \in 1 .. Len(t) : t[i] = IF i <= Len(p) THEN p[i] ELSE c
  BY <1>2
<1>4. CASE Setups[x].reader = "line"
  <2>1. \A m : Kept(x, m) = SubSeq(m, Len(m) - (Len(m) % (n + 1)) + 1, Len(m))
    BY <1>1, <1>4 DEF Kept
  <2>2. PICK r : r = Len(p) % (n + 1)
    OBVIOUS
  <2>3. /\ r \in 0 .. n /\ r <= Len(p) /\ 0 % (n + 1) = 0
        /\ Len(t) % (n + 1) = IF r = n THEN 0 ELSE r + 1
    <3>1. r \in 0 .. n /\ r <= Len(p) /\ (Len(p) + 1) % (n + 1) = IF r = n THEN 0 ELSE r + 1
      BY <1>3, <2>2, Remainder
    <3>2. 0 % (n + 1) = 0
      BY Remainder
    <3>3. QED
      BY <1>3, <3>1, <3>2
  <2>4. Kept(x, <<>>) = <<>>
    <3>1. Kept(x, <<>>) = SubSeq(<<>>, 1, 0)
      <4>1. PICK l : l = Len(<<>>)
        OBVIOUS
      <4>2. l = 0 /\ l - (l % (n + 1)) + 1 = 1
        BY <2>3, <4>1
      <4>3. QED
        BY <2>1, <4>1, <4>2, Zenon
    <3>2. QED
      BY <3>1, SubSeqEmpty
  <2>5. PICK a : a = Kept(x, p)
    OBVIOUS
  <2>6. /\ a \in Seq(S) /\ Len(a) = r
        /\ \A k \in 1 .. r : a[k] = p[Len(p) - r + k]
    <3>1. a = SubSeq(p, Len(p) - r + 1, Len(p))
      BY <2>1, <2>2, <2>5
    <3>2. /\ Len(p) - r + 1 \in 1 .. Len(p) + 1 /\ Len(p) \in 0 .. Len(p)
          /\ Len(p) - (Len(p) - r + 1) + 1 = r
      <4>1. PICK m \in Nat : m = Len(p)
        BY <1>3
      <4>2. r \in 0 .. m
        BY <2>3, <4>1
      <4>3. m - r + 1 \in 1 .. m + 1 /\ m \in 0 .. m /\ m - (m - r + 1) + 1 = r
        BY <4>2
      <4>4. QED
        BY <4>1, <4>3, Zenon
    <3>3. /\ a \in Seq(S) /\ Len(a) = Len(p) - (Len(p) - r + 1) + 1
          /\ \A k \in 1 .. Len(p) - (Len(p) - r + 1) + 1 : a[k] = p[Len(p) - r + 1 + k - 1]
      <4>1. Len(p) - r + 1 <= Len(p) + 1
        BY <1>3, <2>3
      <4>2. QED
        BY <3>1, <3>2, <4>1, PieceIs
    <3>4. \A k \in 1 .. r : Len(p) - r + 1 + k - 1 = Len(p) - r + k
      BY <1>3, <2>3
    <3>5. QED
      BY <3>2, <3>3, <3>4
  <2>7. CASE r = n
    <3>1. Kept(x, t) = SubSeq(t, Len(t) + 1, Len(t))
      <4>1. Len(t) - (Len(t) % (n + 1)) + 1 = Len(t) + 1
        BY <1>3, <2>3, <2>7
      <4>2. QED
        BY <2>1, <4>1, Zenon
    <3>2. Kept(x, t) = <<>>
      BY <1>3, <3>1, SubSeqEmpty
    <3>3. QED
      BY <1>1, <1>2, <1>4, <2>3, <2>4, <2>5, <2>6, <2>7, <3>2 DEF KeepsAs
  <2>8. CASE r # n
    <3>1. PICK b : b = Kept(x, t)
      OBVIOUS
    <3>2. /\ b \in Seq(S) /\ Len(b) = r + 1
          /\ \A k \in 1 .. r + 1 : b[k] = t[Len(p) - r + k]
      <4>1. b = SubSeq(t, Len(p) - r + 1, Len(t))
        <5>1. Len(t) - (r + 1) + 1 = Len(p) - r + 1
          BY <1>3, <2>3
        <5>2. QED
          BY <2>1, <2>3, <2>8, <3>1, <5>1
      <4>2. /\ Len(p) - r + 1 \in 1 .. Len(t) + 1 /\ Len(t) \in 0 .. Len(t)
            /\ Len(t) - (Len(p) - r + 1) + 1 = r + 1
            /\ Len(p) - r + 1 <= Len(t) + 1
        <5>1. PICK m, l \in Nat : m = Len(p) /\ l = Len(t)
          BY <1>3
        <5>2. r \in 0 .. m /\ l = m + 1
          BY <1>3, <2>3, <5>1
        <5>3. /\ m - r + 1 \in 1 .. l + 1 /\ l \in 0 .. l
              /\ l - (m - r + 1) + 1 = r + 1
              /\ m - r + 1 <= l + 1
          BY <5>2
        <5>4. QED
          BY <5>1, <5>3, Zenon
      <4>3. /\ b \in Seq(S) /\ Len(b) = Len(t) - (Len(p) - r + 1) + 1
            /\ \A k \in 1 .. Len(t) - (Len(p) - r + 1) + 1 : b[k] = t[Len(p) - r + 1 + k - 1]
        BY <1>3, <4>1, <4>2, PieceIs, SMTT(30)
      <4>4. \A k \in 1 .. r + 1 : Len(p) - r + 1 + k - 1 = Len(p) - r + k
        BY <1>3, <2>3
      <4>5. QED
        BY <4>2, <4>3, <4>4
    <3>3. PICK d : d = Append(a, c)
      OBVIOUS
    <3>4. /\ d \in Seq(S) /\ Len(d) = r + 1
          /\ \A k \in 1 .. r + 1 : d[k] = IF k <= r THEN a[k] ELSE c
      BY <2>3, <2>6, <3>3
    <3>5. ASSUME NEW k \in 1 .. r + 1 PROVE b[k] = d[k]
      <4>1. Len(p) - r + k \in 1 .. Len(t) /\ (Len(p) - r + k <= Len(p) <=> k <= r)
        BY <1>3, <2>3
      <4>2. b[k] = IF k <= r THEN p[Len(p) - r + k] ELSE c
        BY <1>3, <3>2, <4>1
      <4>3. k <= r => k \in 1 .. r
        BY <2>3
      <4>4. QED
        BY <2>6, <3>4, <4>2, <4>3
    <3>6. b = d
      BY <3>2, <3>4, <3>5, SeqEqual
    <3>7. QED
      BY <1>1, <1>2, <2>3, <2>4, <2>5, <2>6, <2>8, <3>1, <3>3, <3>6 DEF KeepsAs
  <2>9. QED
    BY <2>7, <2>8
<1>5. CASE Setups[x].reader # "line"
  <2>1. \A m : Kept(x, m) = SubSeq(m, 1, IF Len(m) < n THEN Len(m) ELSE n)
    BY <1>1, <1>5 DEF Kept
  <2>2. Kept(x, <<>>) = <<>>
    <3>1. Kept(x, <<>>) = SubSeq(<<>>, 1, 0)
      <4>1. (IF Len(<<>>) < n THEN Len(<<>>) ELSE n) = 0
        BY <1>1
      <4>2. QED
        BY <2>1, <4>1, Zenon
    <3>2. QED
      BY <3>1, SubSeqEmpty
  <2>3. CASE Len(p) < n
    <3>1. Kept(x, p) = p
      BY <2>1, <2>3, SubSeqFull
    <3>2. Kept(x, t) = t
      <4>1. (IF Len(t) < n THEN Len(t) ELSE n) = Len(t)
        BY <1>1, <1>3, <2>3
      <4>2. QED
        BY <1>3, <2>1, <4>1, SubSeqFull
    <3>3. QED
      BY <1>1, <1>2, <1>3, <2>2, <2>3, <3>1, <3>2 DEF KeepsAs
  <2>4. CASE ~ Len(p) < n
    <3>1. Kept(x, p) = SubSeq(p, 1, n) /\ Kept(x, t) = SubSeq(t, 1, n)
      <4>1. (IF Len(p) < n THEN Len(p) ELSE n) = n /\ (IF Len(t) < n THEN Len(t) ELSE n) = n
        BY <1>1, <1>3, <2>4
      <4>2. QED
        BY <2>1, <4>1, Zenon
    <3>2. 1 \in 1 .. Len(p) + 1 /\ n \in 0 .. Len(p) /\ n - 1 + 1 = n /\ 1 <= n + 1
          /\ 1 \in 1 .. Len(t) + 1 /\ n \in 0 .. Len(t)
      BY <1>1, <1>3, <2>4
    <3>3. /\ SubSeq(p, 1, n) \in Seq(S) /\ Len(SubSeq(p, 1, n)) = n
          /\ \A k \in 1 .. n : SubSeq(p, 1, n)[k] = p[1 + k - 1]
      BY <3>2, PieceIs
    <3>4. /\ SubSeq(t, 1, n) \in Seq(S) /\ Len(SubSeq(t, 1, n)) = n
          /\ \A k \in 1 .. n : SubSeq(t, 1, n)[k] = t[1 + k - 1]
      BY <1>3, <3>2, PieceIs
    <3>5. \A k \in 1 .. n : 1 + k - 1 = k /\ t[k] = p[k]
      BY <1>1, <1>3, <2>4
    <3>6. SubSeq(p, 1, n) = SubSeq(t, 1, n)
      BY <3>3, <3>4, <3>5, SeqEqual
    <3>7. QED
      <4>1. Len(Kept(x, p)) = n /\ Kept(x, Append(p, c)) = Kept(x, p)
        BY <1>2, <3>1, <3>3, <3>6
      <4>2. QED
        BY <1>1, <1>5, <2>2, <4>1 DEF KeepsAs
  <2>5. QED
    BY <2>3, <2>4
<1>6. QED
  BY <1>4, <1>5

(* The byte of a step, behind what is open. *)
Longer(S, t, p, c) ==
    /\ t \in Seq(S) /\ t # <<>> /\ Len(t) = Len(p) + 1 /\ Len(p) \in Nat
    /\ Last(t) = c /\ Front(t) = p
    /\ t[Len(p) + 1] = c /\ \A i \in 1 .. Len(p) : t[i] = p[i]

LEMMA AppendIs ==
    ASSUME NEW S, NEW p, p \in Seq(S), NEW c, c \in S
    PROVE  Longer(S, Append(p, c), p, c)
<1>1. PICK t : t = Append(p, c)
  OBVIOUS
<1>2. /\ t \in Seq(S) /\ t # <<>> /\ Len(t) = Len(p) + 1 /\ Len(p) \in Nat
      /\ t[Len(p) + 1] = c /\ \A i \in 1 .. Len(p) : t[i] = p[i]
  BY <1>1
<1>3. Front(t) = SubSeq(t, 1, Len(p))
  BY <1>2 DEF Front
<1>4. Front(t) = p
  BY <1>2, <1>3
<1>5. Last(t) = c
  BY <1>2 DEF Last
<1>6. QED
  BY <1>1, <1>2, <1>4, <1>5 DEF Longer

LineAgrees(x, r, cut, em) == r.buffer = Kept(x, cut.open) /\ em = cut.messages

(* A step of the reader r to q, which takes c, in setup x. *)
Consumes(S, x, r, c, q) ==
    /\ x \in DOMAIN Setups /\ x = setup
    /\ r \in Readers(S) /\ r.out = <<>> /\ c \in S /\ q = consume(r, c)

LEMMA LineStep ==
    ASSUME NEW S, NEW x, NEW r, NEW c, NEW q, Consumes(S, x, r, c, q),
           Setups[x].reader \in {"line", "line_keep"},
           NEW cut, cut \in Cuts(S), NEW em, em \in Seq(Seq(S)), LineAgrees(x, r, cut, em)
    PROVE  /\ q \in Readers(S)
           /\ LineAgrees(x, Emptied(q), NextCut(x, cut, c), em \o q.out)
<1>1. /\ r \in Readers(S) /\ r.out = <<>> /\ c \in S /\ x \in DOMAIN Setups
      /\ kind = Setups[x].reader /\ BufferSize = Setups[x].buffer
  BY DEF Consumes, kind, BufferSize
<1>2. /\ r.buffer \in Seq(S) /\ r.out \in Seq(Seq(S)) /\ r.errors \in Nat
      /\ r.buffer = Kept(x, cut.open) /\ em = cut.messages
      /\ cut.open \in Seq(S) /\ cut.messages \in Seq(Seq(S)) /\ <<>> \in Seq(S)
      /\ cut = [open |-> cut.open, messages |-> cut.messages]
  <2>1. r.buffer \in Seq(S) /\ r.out \in Seq(Seq(S)) /\ r.errors \in Nat
    BY <1>1 DEF Readers
  <2>2. /\ cut.open \in Seq(S) /\ cut.messages \in Seq(Seq(S))
        /\ cut = [open |-> cut.open, messages |-> cut.messages]
    BY DEF Cuts
  <2>3. QED
    BY <2>1, <2>2, EmptySeq DEF LineAgrees
<1>3. PICK p : p = Append(cut.open, c)
  OBVIOUS
<1>4. p \in Seq(S) /\ Last(p) = c /\ Front(p) = cut.open
  <2>1. Longer(S, p, cut.open, c)
    BY <1>1, <1>2, <1>3, AppendIs
  <2>2. QED
    BY <2>1 DEF Longer
<1>5. NextCut(x, cut, c) = IF c = "lf"
                           THEN [open |-> <<>>, messages |-> em \o <<strip_cr(r.buffer)>>]
                           ELSE [open |-> p, messages |-> em]
  <2>1. EndNumber(x, cut, c) = cut
    BY DEF EndNumber
  <2>2. IsWhole(x, p) <=> c = "lf"
    BY <1>4 DEF IsWhole
  <2>3. MessagesIn(x, p) = <<strip_cr(r.buffer)>>
    BY <1>2, <1>4 DEF MessagesIn
  <2>4. QED
    BY <1>2, <1>3, <2>1, <2>2, <2>3 DEF NextCut, AddByte
<1>6. q = consume_line(r, c, Setups[x].reader = "line")
  BY <1>1 DEF Consumes, consume
<1>9. /\ Kept(x, <<>>) = <<>>
      /\ Len(r.buffer) >= Setups[x].buffer =>
           Kept(x, p) = IF Setups[x].reader = "line" THEN <<>> ELSE r.buffer
      /\ Len(r.buffer) < Setups[x].buffer => Kept(x, p) = Append(r.buffer, c)
  <2>1. KeepsAs(x, cut.open, c)
    BY <1>1, <1>2, KeptStep
  <2>2. QED
    BY <1>2, <1>3, <2>1 DEF KeepsAs
<1>7. CASE c = "lf"
  <2>1. q = emit(r, strip_cr(r.buffer))
    BY <1>6, <1>7 DEF consume_line
  <2>2. strip_cr(r.buffer) \in Seq(S)
    BY <1>2, StripTyped
  <2>3. q = Resting(<<strip_cr(r.buffer)>>, r.errors)
    <3>1. Append(r.out, strip_cr(r.buffer)) = <<strip_cr(r.buffer)>>
      BY <1>1, <2>2
    <3>2. QED
      BY <2>1, <3>1, EmitRests
  <2>4. q \in Readers(S) /\ q.buffer = <<>> /\ q.out = <<strip_cr(r.buffer)>>
    <3>1. <<strip_cr(r.buffer)>> \in Seq(Seq(S))
      BY <2>2
    <3>2. RestsWith(S, q, <<strip_cr(r.buffer)>>, r.errors)
      BY <1>2, <2>3, <3>1, RestingIs
    <3>3. QED
      BY <3>2 DEF RestsWith
  <2>5. Emptied(q).buffer = <<>> /\ Kept(x, <<>>) = <<>>
    BY <1>9, <2>4, EmptiedIs
  <2>6. QED
    BY <1>5, <1>7, <2>4, <2>5 DEF LineAgrees
<1>8. ASSUME c # "lf", q \in Readers(S), q.out = <<>>, q.buffer = Kept(x, p)
      PROVE  LineAgrees(x, Emptied(q), NextCut(x, cut, c), em \o q.out)
  <2>1. Emptied(q).buffer = Kept(x, p)
    BY <1>8, EmptiedIs
  <2>2. em \o q.out = em
    BY <1>8
  <2>3. QED
    BY <1>5, <1>8, <2>1, <2>2 DEF LineAgrees
<1>10. CASE c # "lf" /\ Len(r.buffer) >= BufferSize
  <2>1. Kept(x, p) = IF Setups[x].reader = "line" THEN <<>> ELSE r.buffer
    BY <1>1, <1>9, <1>10
  <2>2. q = IF Setups[x].reader = "line" THEN fail(r) ELSE [r EXCEPT !.errors = r.errors + 1]
    BY <1>6, <1>10 DEF consume_line
  <2>3. r.errors + 1 \in Nat
    BY <1>2
  <2>4. q \in Readers(S) /\ q.out = <<>> /\ q.buffer = Kept(x, p)
    <3>1. CASE Setups[x].reader = "line"
      <4>1. q = Resting(r.out, r.errors + 1)
        BY <2>2, <3>1, FailRests
      <4>2. RestsWith(S, q, r.out, r.errors + 1)
        BY <1>2, <2>3, <4>1, RestingIs
      <4>3. QED
        BY <1>1, <2>1, <3>1, <4>2 DEF RestsWith
    <3>2. CASE Setups[x].reader # "line"
      <4>1. Filled(S, q, r, r.buffer, r.errors + 1)
        BY <1>1, <2>2, <2>3, <3>2, CountedIs
      <4>2. QED
        BY <1>1, <2>1, <3>2, <4>1 DEF Filled
    <3>3. QED
      BY <3>1, <3>2
  <2>5. QED
    BY <1>8, <1>10, <2>4
<1>11. CASE c # "lf" /\ ~ Len(r.buffer) >= BufferSize
  <2>1. Setups[x].buffer \in Nat /\ Len(r.buffer) \in Nat
    BY <1>1, <1>2, SetupsAssumption
  <2>2. Kept(x, p) = Append(r.buffer, c)
    BY <1>1, <1>9, <1>11, <2>1
  <2>3. q = [r EXCEPT !.buffer = Append(r.buffer, c)]
    BY <1>6, <1>11 DEF consume_line
  <2>4. q \in Readers(S) /\ q.out = <<>> /\ q.buffer = Append(r.buffer, c)
    <3>1. Append(r.buffer, c) \in Seq(S)
      BY <1>1, <1>2
    <3>2. Filled(S, q, r, Append(r.buffer, c), r.errors)
      BY <1>1, <2>3, <3>1, BufferedIs
    <3>3. QED
      BY <1>1, <3>2 DEF Filled
  <2>5. QED
    BY <1>8, <1>11, <2>2, <2>4
<1>12. QED
  BY <1>7, <1>10, <1>11

-----------------------------------------------------------------------------
(* Frames with a header. *)
Header(p) == SubSeq(p, 1, HeaderSize)

LEMMA HeaderIs ==
    ASSUME NEW S, NEW p, p \in Seq(S), Len(p) >= HeaderSize, NEW c, c \in S
    PROVE  Header(p) \in [1 .. HeaderSize -> S] /\ Header(Append(p, c)) = Header(p)
<1>1. HeaderSize \in Nat \ {0} /\ Len(p) \in Nat
  BY FramesAssumption
<1>2. PICK t : t = Append(p, c)
  OBVIOUS
<1>3. /\ t \in Seq(S) /\ Len(t) = Len(p) + 1 /\ \A i \in 1 .. Len(p) : t[i] = p[i]
  <2>1. Longer(S, t, p, c)
    BY <1>2, AppendIs
  <2>2. QED
    BY <2>1 DEF Longer
<1>4. /\ 1 \in 1 .. Len(p) + 1 /\ HeaderSize \in 0 .. Len(p) /\ 1 <= HeaderSize + 1
      /\ 1 \in 1 .. Len(t) + 1 /\ HeaderSize \in 0 .. Len(t) /\ HeaderSize - 1 + 1 = HeaderSize
  BY <1>1, <1>3
<1>5. PICK a : a = Header(p)
  OBVIOUS
<1>6. PICK b : b = Header(t)
  OBVIOUS
<1>7. /\ a \in Seq(S) /\ Len(a) = HeaderSize - 1 + 1
      /\ \A k \in 1 .. HeaderSize - 1 + 1 : a[k] = p[1 + k - 1]
  BY <1>4, <1>5, PieceIs DEF Header
<1>8. /\ b \in Seq(S) /\ Len(b) = HeaderSize - 1 + 1
      /\ \A k \in 1 .. HeaderSize - 1 + 1 : b[k] = t[1 + k - 1]
  BY <1>3, <1>4, <1>6, PieceIs DEF Header
<1>9. \A k \in 1 .. HeaderSize : 1 + k - 1 = k /\ t[k] = p[k]
  BY <1>1, <1>3, <1>4
<1>10. a = b
  BY <1>4, <1>7, <1>8, <1>9, SeqEqual
<1>11. a \in [1 .. HeaderSize -> S]
  BY <1>4, <1>7
<1>12. QED
  BY <1>2, <1>5, <1>6, <1>10, <1>11

LEMMA ExpectedIs ==
    ASSUME NEW x, x \in DOMAIN Setups, Setups[x].reader = "header",
           NEW p, p \in Seq(Setups[x].bytes), Len(p) >= HeaderSize, NEW c, c \in Setups[x].bytes
    PROVE  /\ expected_size(p) \in Nat /\ expected_size(p) >= HeaderSize
           /\ expected_size(Append(p, c)) = expected_size(p)
           /\ TooLong(Append(p, c)) <=> TooLong(p)
<1>1. Header(p) \in [1 .. HeaderSize -> Setups[x].bytes] /\ Header(Append(p, c)) = Header(p)
  BY HeaderIs
<1>2. PICK n : n = payload_size_from_header[Header(p)]
  OBVIOUS
<1>3. n \in Nat /\ HeaderSize \in Nat
  BY <1>1, <1>2, FramesAssumption
<1>4. expected_size(p) = HeaderSize + n /\ expected_size(Append(p, c)) = HeaderSize + n
  BY <1>1, <1>2 DEF expected_size, Header
<1>5. QED
  BY <1>3, <1>4 DEF TooLong

(* The frame in the buffer has not ended yet. *)
HeaderAgrees(r, cut, em) ==
    /\ r.buffer = cut.open /\ em = cut.messages
    /\ \/ Len(r.buffer) < HeaderSize
       \/ ~ TooLong(r.buffer) /\ Len(r.buffer) < expected_size(r.buffer)

HeaderTaken(q, r, p) ==
    q = IF Len(p) < HeaderSize THEN [r EXCEPT !.buffer = p]
        ELSE IF TooLong(p) THEN fail(r)
        ELSE IF expected_size(p) = Len(p) THEN emit(r, p)
        ELSE [r EXCEPT !.buffer = p]

LEMMA HeaderTakes ==
    ASSUME NEW r, NEW c, NEW p, p = Append(r.buffer, c)
    PROVE  HeaderTaken(consume_header(r, c), r, p)
BY Zenon DEF consume_header, HeaderTaken, TooLong

LEMMA HeaderStep ==
    ASSUME NEW S, NEW x, NEW r, NEW c, NEW q, Consumes(S, x, r, c, q),
           Setups[x].reader = "header", S = Setups[x].bytes,
           NEW cut, cut \in Cuts(S), NEW em, em \in Seq(Seq(S)), HeaderAgrees(r, cut, em)
    PROVE  /\ q \in Readers(S)
           /\ HeaderAgrees(Emptied(q), NextCut(x, cut, c), em \o q.out)
<1>1. /\ r \in Readers(S) /\ r.out = <<>> /\ c \in S /\ x \in DOMAIN Setups
      /\ kind = "header" /\ HeaderSize \in Nat \ {0}
  BY FramesAssumption DEF Consumes, kind
<1>2. /\ r.buffer \in Seq(S) /\ r.out \in Seq(Seq(S)) /\ r.errors \in Nat
      /\ r.buffer = cut.open /\ em = cut.messages
      /\ cut.open \in Seq(S) /\ cut.messages \in Seq(Seq(S)) /\ <<>> \in Seq(S)
      /\ cut = [open |-> cut.open, messages |-> cut.messages]
  <2>1. r.buffer \in Seq(S) /\ r.out \in Seq(Seq(S)) /\ r.errors \in Nat
    BY <1>1 DEF Readers
  <2>2. /\ cut.open \in Seq(S) /\ cut.messages \in Seq(Seq(S))
        /\ cut = [open |-> cut.open, messages |-> cut.messages]
    BY DEF Cuts
  <2>3. QED
    BY <2>1, <2>2, EmptySeq DEF HeaderAgrees
<1>3. PICK p : p = Append(r.buffer, c)
  OBVIOUS
<1>4. p \in Seq(S) /\ p # <<>> /\ Len(p) = Len(r.buffer) + 1 /\ Len(r.buffer) \in Nat
  <2>1. Longer(S, p, r.buffer, c)
    BY <1>1, <1>2, <1>3, AppendIs
  <2>2. QED
    BY <2>1 DEF Longer
<1>5. NextCut(x, cut, c) =
        IF IsFrame(p)
        THEN [open |-> <<>>, messages |-> em \o (IF TooLong(p) THEN <<>> ELSE <<p>>)]
        ELSE [open |-> p, messages |-> em]
  <2>1. EndNumber(x, cut, c) = cut
    BY DEF EndNumber
  <2>2. IsWhole(x, p) <=> IsFrame(p)
    BY DEF IsWhole
  <2>3. MessagesIn(x, p) = IF TooLong(p) THEN <<>> ELSE <<p>>
    BY DEF MessagesIn
  <2>4. QED
    BY <1>2, <1>3, <2>1, <2>2, <2>3 DEF NextCut, AddByte
<1>6. HeaderTaken(q, r, p)
  <2>1. q = consume_header(r, c)
    BY <1>1 DEF Consumes, consume
  <2>2. QED
    <3>1. HeaderTaken(consume_header(r, c), r, p)
      BY <1>3, HeaderTakes
    <3>2. QED
      BY <2>1, <3>1
<1>7. Len(r.buffer) >= HeaderSize =>
        /\ expected_size(r.buffer) \in Nat /\ expected_size(p) = expected_size(r.buffer)
        /\ ~ TooLong(p) /\ Len(r.buffer) < expected_size(p)
  <2>1. SUFFICES ASSUME Len(r.buffer) >= HeaderSize
                 PROVE  /\ expected_size(r.buffer) \in Nat
                        /\ expected_size(p) = expected_size(r.buffer)
                        /\ ~ TooLong(p) /\ Len(r.buffer) < expected_size(p)
    OBVIOUS
  <2>2. /\ expected_size(r.buffer) \in Nat /\ expected_size(p) = expected_size(r.buffer)
        /\ TooLong(p) <=> TooLong(r.buffer)
    BY <1>1, <1>2, <1>3, <2>1, ExpectedIs
  <2>3. ~ TooLong(r.buffer) /\ Len(r.buffer) < expected_size(r.buffer)
    BY <1>1, <1>4, <2>1 DEF HeaderAgrees
  <2>4. QED
    BY <2>2, <2>3
<1>8. Len(p) >= HeaderSize => expected_size(p) \in Nat /\ expected_size(p) >= HeaderSize
  BY <1>1, <1>4, ExpectedIs
<1>9. CASE Len(p) >= HeaderSize /\ TooLong(p)
  <2>1. q = fail(r)
    BY <1>1, <1>4, <1>6, <1>9 DEF HeaderTaken
  <2>2. RestsWith(S, q, <<>>, r.errors + 1)
    <3>1. r.errors + 1 \in Nat /\ q = Resting(r.out, r.errors + 1)
      BY <1>2, <2>1, FailRests
    <3>2. QED
      BY <1>1, <1>2, <3>1, RestingIs
  <2>3. Len(p) = HeaderSize
    BY <1>1, <1>4, <1>7, <1>9
  <2>4. IsFrame(p)
    BY <1>1, <1>9, <2>3 DEF IsFrame
  <2>5. q \in Readers(S) /\ q.out = <<>> /\ Emptied(q).buffer = <<>>
    BY <2>2, EmptiedIs DEF RestsWith
  <2>6. NextCut(x, cut, c) = [open |-> <<>>, messages |-> em \o <<>>]
    BY <1>5, <1>9, <2>4
  <2>7. Len(<<>>) < HeaderSize
    BY <1>1
  <2>8. QED
    BY <2>5, <2>6, <2>7 DEF HeaderAgrees
<1>10. CASE Len(p) >= HeaderSize /\ ~ TooLong(p) /\ expected_size(p) = Len(p)
  <2>1. q = emit(r, p)
    BY <1>1, <1>4, <1>6, <1>10 DEF HeaderTaken
  <2>2. Append(r.out, p) = <<p>> /\ <<p>> \in Seq(Seq(S))
    BY <1>1, <1>4, Alone
  <2>3. RestsWith(S, q, <<p>>, r.errors)
    BY <1>2, <2>1, <2>2, EmitRests, RestingIs
  <2>4. IsFrame(p)
    BY <1>1, <1>10 DEF IsFrame
  <2>5. q \in Readers(S) /\ q.out = <<p>> /\ Emptied(q).buffer = <<>>
    BY <2>3, EmptiedIs DEF RestsWith
  <2>6. NextCut(x, cut, c) = [open |-> <<>>, messages |-> em \o <<p>>]
    BY <1>5, <1>10, <2>4
  <2>7. Len(<<>>) < HeaderSize
    BY <1>1
  <2>8. QED
    BY <2>5, <2>6, <2>7 DEF HeaderAgrees
<1>11. CASE Len(p) < HeaderSize \/ (~ TooLong(p) /\ expected_size(p) # Len(p))
  <2>1. q = [r EXCEPT !.buffer = p]
    <3>1. CASE Len(p) < HeaderSize
      BY <1>6, <3>1 DEF HeaderTaken
    <3>2. CASE ~ Len(p) < HeaderSize /\ ~ TooLong(p) /\ expected_size(p) # Len(p)
      BY <1>6, <3>2 DEF HeaderTaken
    <3>3. QED
      BY <1>11, <3>1, <3>2
  <2>2. Filled(S, q, r, p, r.errors)
    BY <1>1, <1>4, <2>1, BufferedIs
  <2>3. ~ IsFrame(p)
    BY <1>1, <1>4, <1>11 DEF IsFrame
  <2>4. q \in Readers(S) /\ q.out = <<>> /\ Emptied(q).buffer = p
    BY <1>1, <2>2, EmptiedIs DEF Filled
  <2>5. NextCut(x, cut, c) = [open |-> p, messages |-> em] /\ em \o <<>> = em
    BY <1>5, <2>3
  <2>6. Len(p) < HeaderSize \/ (~ TooLong(p) /\ Len(p) < expected_size(p))
    <3>1. CASE Len(p) < HeaderSize
      BY <3>1
    <3>2. CASE ~ Len(p) < HeaderSize
      <4>1. Len(p) >= HeaderSize /\ ~ TooLong(p) /\ expected_size(p) # Len(p)
        BY <1>1, <1>4, <1>11, <3>2
      <4>2. expected_size(p) \in Nat /\ expected_size(p) >= HeaderSize
        BY <1>8, <4>1
      <4>3. CASE Len(r.buffer) >= HeaderSize
        BY <1>4, <1>7, <4>1, <4>2, <4>3
      <4>4. CASE ~ Len(r.buffer) >= HeaderSize
        BY <1>1, <1>4, <4>1, <4>2, <4>4
      <4>5. QED
        BY <4>3, <4>4
    <3>3. QED
      BY <3>1, <3>2
  <2>7. QED
    BY <2>4, <2>5, <2>6 DEF HeaderAgrees
<1>12. QED
  BY <1>1, <1>4, <1>9, <1>10, <1>11

-----------------------------------------------------------------------------
(* Frames of a fixed size. *)
LEMMA Scaled ==
    ASSUME NEW d, d \in Nat, NEW q, q \in Nat, NEW k, k \in 1 .. q
    PROVE  /\ (k - 1) * d \in Nat /\ k * d \in Nat /\ q * d \in Nat
           /\ k * d = (k - 1) * d + d /\ k * d <= q * d
<1>1. PICK j \in Nat : j = k - 1
  OBVIOUS
<1>2. PICK i \in Nat : i = q - k
  OBVIOUS
<1>3. q = k + i /\ k = j + 1
  BY <1>1, <1>2
<1>4. j * d \in Nat /\ i * d \in Nat /\ k * d \in Nat /\ q * d \in Nat
  BY <1>3
<1>5. k * d = j * d + d
  BY <1>3
<1>6. q * d = k * d + i * d
  BY <1>3
<1>7. QED
  BY <1>1, <1>4, <1>5, <1>6

(* The first n frames of s. *)
Frames(s, n) == [k \in 1 .. n |-> SubSeq(s, (k - 1) * FrameSize + 1, k * FrameSize)]

FrameIs(S, f, s, a, e) ==
    /\ f \in Seq(S) /\ Len(f) = FrameSize
    /\ \A i \in 1 .. FrameSize : a + i \in 1 .. e /\ f[i] = s[a + i]

LEMMA FramesIs ==
    ASSUME NEW S, NEW s, s \in Seq(S), NEW n, n \in Nat, n * FrameSize <= Len(s),
           NEW k, k \in 1 .. n
    PROVE  FrameIs(S, Frames(s, n)[k], s, (k - 1) * FrameSize, n * FrameSize)
<1>1. FrameSize \in Nat \ {0} /\ Len(s) \in Nat
  BY FramesAssumption
<1>2. PICK a, b, e : a = (k - 1) * FrameSize /\ b = k * FrameSize /\ e = n * FrameSize
  OBVIOUS
<1>3. a \in Nat /\ b \in Nat /\ b = a + FrameSize /\ b <= e /\ e \in Nat /\ e <= Len(s)
  BY <1>1, <1>2, Scaled
<1>4. PICK f : f = SubSeq(s, a + 1, b)
  OBVIOUS
<1>5. /\ f \in Seq(S) /\ Len(f) = b - (a + 1) + 1
      /\ \A i \in 1 .. b - (a + 1) + 1 : f[i] = s[a + 1 + i - 1]
  <2>1. a + 1 \in 1 .. Len(s) + 1 /\ b \in 0 .. Len(s) /\ a + 1 <= b + 1
    BY <1>1, <1>3
  <2>2. QED
    BY <1>4, <2>1, PieceIs
<1>6. b - (a + 1) + 1 = FrameSize /\ \A i \in 1 .. FrameSize : a + 1 + i - 1 = a + i /\ a + i \in 1 .. e
  BY <1>1, <1>3
<1>7. Frames(s, n)[k] = f
  BY <1>2, <1>4 DEF Frames
<1>8. f \in Seq(S) /\ Len(f) = FrameSize /\ \A i \in 1 .. FrameSize : a + i \in 1 .. e /\ f[i] = s[a + i]
  BY <1>5, <1>6
<1>9. QED
  BY <1>2, <1>7, <1>8, Zenon DEF FrameIs

(* The frame in the buffer has not ended yet. *)
FixedAgrees(r, s, em) ==
    \E n \in Nat : /\ em = Frames(s, n) /\ Len(s) = n * FrameSize + Len(r.buffer)
                   /\ Len(r.buffer) < FrameSize
                   /\ \A i \in 1 .. Len(r.buffer) : r.buffer[i] = s[n * FrameSize + i]

LEMMA FixedIs ==
    ASSUME NEW S, NEW s, s \in Seq(S), NEW r, r \in Readers(S), NEW em, FixedAgrees(r, s, em)
    PROVE  em = FixedFrames(s)
<1>1. PICK n \in Nat : /\ em = Frames(s, n) /\ Len(s) = n * FrameSize + Len(r.buffer)
                       /\ Len(r.buffer) < FrameSize
  BY DEF FixedAgrees
<1>2. FrameSize \in Nat \ {0} /\ Len(r.buffer) \in Nat
  <2>1. r.buffer \in Seq(S)
    BY DEF Readers
  <2>2. QED
    BY <2>1, FramesAssumption
<1>3. PICK d, k : d = FrameSize /\ k = Len(r.buffer)
  OBVIOUS
<1>4. d \in Nat \ {0} /\ k \in 0 .. d - 1
  BY <1>1, <1>2, <1>3
<1>5. (d * n + k) \div d = n
  BY <1>4, Division
<1>6. Len(s) = d * n + k
  <2>1. n * d = d * n
    BY <1>1, <1>4
  <2>2. QED
    BY <1>1, <1>3, <2>1
<1>7. Len(s) \div FrameSize = n
  BY <1>3, <1>5, <1>6
<1>8. QED
  BY <1>1, <1>7, Zenon DEF FixedFrames, Frames

LEMMA FixedInit ==
    ASSUME NEW r, r.buffer = <<>>
    PROVE  FixedAgrees(r, <<>>, <<>>)
<1>1. FrameSize \in Nat \ {0} /\ 0 * FrameSize = 0
  BY FramesAssumption
<1>2. Frames(<<>>, 0) = <<>>
  BY DEF Frames
<1>3. QED
  BY <1>1, <1>2 DEF FixedAgrees

LEMMA FixedStep ==
    ASSUME NEW S, NEW x, NEW r, NEW c, NEW q, Consumes(S, x, r, c, q),
           Setups[x].reader = "fixed",
           NEW s, s \in Seq(S), NEW em, em \in Seq(Seq(S)), FixedAgrees(r, s, em)
    PROVE  /\ q \in Readers(S)
           /\ FixedAgrees(Emptied(q), Append(s, c), em \o q.out)
<1>1. /\ r \in Readers(S) /\ r.out = <<>> /\ c \in S /\ kind = "fixed"
      /\ FrameSize \in Nat \ {0}
  BY FramesAssumption DEF Consumes, kind
<1>2. r.buffer \in Seq(S) /\ r.out \in Seq(Seq(S)) /\ r.errors \in Nat
  BY <1>1 DEF Readers
<1>3. PICK n \in Nat : /\ em = Frames(s, n) /\ Len(s) = n * FrameSize + Len(r.buffer)
                       /\ Len(r.buffer) < FrameSize
                       /\ \A i \in 1 .. Len(r.buffer) : r.buffer[i] = s[n * FrameSize + i]
  BY DEF FixedAgrees
<1>4. PICK e : e = n * FrameSize
  OBVIOUS
<1>5. e \in Nat /\ Len(r.buffer) \in Nat /\ (n + 1) * FrameSize = e + FrameSize /\ n + 1 \in Nat
  BY <1>1, <1>2, <1>4
<1>6. PICK p, t : p = Append(r.buffer, c) /\ t = Append(s, c)
  OBVIOUS
<1>7. /\ p \in Seq(S) /\ p # <<>> /\ Len(p) = Len(r.buffer) + 1
      /\ p[Len(r.buffer) + 1] = c /\ \A i \in 1 .. Len(r.buffer) : p[i] = r.buffer[i]
  <2>1. Longer(S, p, r.buffer, c)
    BY <1>1, <1>2, <1>6, AppendIs
  <2>2. QED
    BY <2>1 DEF Longer
<1>8. /\ t \in Seq(S) /\ Len(t) = Len(s) + 1 /\ t[Len(s) + 1] = c
      /\ \A i \in 1 .. Len(s) : t[i] = s[i]
  <2>1. Longer(S, t, s, c)
    BY <1>1, <1>6, AppendIs
  <2>2. QED
    BY <2>1 DEF Longer
<1>9. Len(t) = e + Len(p) /\ \A i \in 1 .. Len(p) : p[i] = t[e + i]
  <2>1. Len(s) = e + Len(r.buffer)
    BY <1>3, <1>4
  <2>2. ASSUME NEW i \in 1 .. Len(p) PROVE p[i] = t[e + i]
    <3>1. CASE i = Len(r.buffer) + 1
      BY <1>5, <1>7, <1>8, <2>1, <3>1, SMTT(30)
    <3>2. CASE i # Len(r.buffer) + 1
      <4>1. i \in 1 .. Len(r.buffer) /\ e + i \in 1 .. Len(s)
        BY <1>5, <1>7, <2>1, <3>2
      <4>2. QED
        BY <1>3, <1>4, <1>7, <1>8, <4>1
    <3>3. QED
      BY <3>1, <3>2
  <2>3. QED
    BY <1>5, <1>7, <1>8, <2>1, <2>2
<1>10. q = IF Len(p) = FrameSize THEN emit(r, p) ELSE [r EXCEPT !.buffer = p]
  BY <1>1, <1>6 DEF Consumes, consume, consume_fixed
<1>11. \A k \in 1 .. n : Frames(t, n + 1)[k] = Frames(s, n)[k]
  <2> TAKE k \in 1 .. n
  <2>1. k \in 1 .. n + 1 /\ n * FrameSize <= Len(s) /\ Len(s) \in Nat
    BY <1>3, <1>4, <1>5
  <2>2. PICK a, f, g : a = (k - 1) * FrameSize /\ f = Frames(s, n)[k] /\ g = Frames(t, n)[k]
    OBVIOUS
  <2>3. /\ f \in Seq(S) /\ Len(f) = FrameSize
        /\ \A i \in 1 .. FrameSize : a + i \in 1 .. e /\ f[i] = s[a + i]
    <3>1. FrameIs(S, f, s, a, e)
      BY <1>4, <2>1, <2>2, FramesIs
    <3>2. QED
      BY <3>1 DEF FrameIs
  <2>4. n * FrameSize <= Len(t)
    BY <1>4, <1>5, <1>8, <2>1
  <2>5. g \in Seq(S) /\ Len(g) = FrameSize /\ \A i \in 1 .. FrameSize : g[i] = t[a + i]
    <3>1. FrameIs(S, g, t, a, e)
      BY <1>4, <1>8, <2>2, <2>4, FramesIs
    <3>2. QED
      BY <3>1 DEF FrameIs
  <2>6. \A i \in 1 .. FrameSize : g[i] = f[i]
    <3>1. \A j \in 1 .. e : t[j] = s[j]
      BY <1>4, <1>5, <1>8, <2>1
    <3>2. QED
      BY <2>3, <2>5, <3>1
  <2>7. g = f
    BY <2>3, <2>5, <2>6, SeqEqual
  <2>8. Frames(t, n + 1)[k] = Frames(t, n)[k]
    BY <2>1 DEF Frames
  <2>9. QED
    BY <2>2, <2>7, <2>8
<1>12. CASE Len(p) = FrameSize
  <2>1. q = emit(r, p)
    BY <1>10, <1>12
  <2>2. Append(r.out, p) = <<p>> /\ <<p>> \in Seq(Seq(S))
    BY <1>1, <1>7, Alone
  <2>3. RestsWith(S, q, <<p>>, r.errors)
    BY <1>2, <2>1, <2>2, EmitRests, RestingIs
  <2>4. q \in Readers(S) /\ q.out = <<p>> /\ Emptied(q).buffer = <<>>
    BY <2>3, EmptiedIs DEF RestsWith
  <2>5. Frames(t, n + 1)[n + 1] = p
    <3>1. PICK g : g = Frames(t, n + 1)[n + 1]
      OBVIOUS
    <3>2. (n + 1) * FrameSize <= Len(t) /\ n + 1 \in 1 .. n + 1 /\ n + 1 - 1 = n
      BY <1>5, <1>9, <1>12
    <3>3. FrameIs(S, g, t, (n + 1 - 1) * FrameSize, (n + 1) * FrameSize)
      <4>1. PICK m \in Nat : m = n + 1
        BY <1>5
      <4>2. m * FrameSize <= Len(t) /\ m \in 1 .. m
        BY <3>2, <4>1
      <4>3. FrameIs(S, Frames(t, m)[m], t, (m - 1) * FrameSize, m * FrameSize)
        BY <1>8, <4>2, FramesIs
      <4>4. QED
        BY <3>1, <4>1, <4>3
    <3>4. g \in Seq(S) /\ Len(g) = FrameSize /\ \A i \in 1 .. FrameSize : g[i] = t[e + i]
      BY <1>4, <3>2, <3>3 DEF FrameIs
    <3>5. \A i \in 1 .. FrameSize : g[i] = p[i]
      BY <1>9, <1>12, <3>4
    <3>6. g \in Seq(S) /\ p \in Seq(S) /\ Len(g) = Len(p)
      BY <1>7, <1>12, <3>4
    <3>7. \A i \in 1 .. Len(p) : g[i] = p[i]
      BY <1>12, <3>5
    <3>8. g = p
      BY <3>6, <3>7, SeqEqual
    <3>9. QED
      BY <3>1, <3>8
  <2>6. Frames(t, n + 1) = Append(Frames(s, n), p)
    <3>1. PICK a, b : a = Frames(s, n) /\ b = Frames(t, n + 1)
      OBVIOUS
    <3>2. a = [k \in 1 .. n |-> a[k]] /\ b = [k \in 1 .. n + 1 |-> b[k]]
      BY <3>1 DEF Frames
    <3>3. \A k \in 1 .. n + 1 : b[k] = IF k = n + 1 THEN p ELSE a[k]
      BY <1>11, <2>5, <3>1
    <3>4. a \in Seq(Seq(S)) /\ Len(a) = n
      BY <1>3, <3>1, <3>2
    <3>5. Longer(Seq(S), Append(a, p), a, p)
      BY <1>7, <3>4, AppendIs
    <3>6. b = Append(a, p)
      <4>1. PICK d : d = Append(a, p)
        OBVIOUS
      <4>2. d \in Seq(Seq(S)) /\ Len(d) = n + 1 /\ d[n + 1] = p /\ \A k \in 1 .. n : d[k] = a[k]
        BY <3>4, <3>5, <4>1 DEF Longer
      <4>3. \A k \in 1 .. n + 1 : b[k] = d[k] /\ b[k] \in Seq(S)
        BY <3>3, <3>4, <4>2, <1>7
      <4>4. b \in Seq(Seq(S)) /\ Len(b) = n + 1
        <5>1. PICK m \in Nat : m = n + 1
          BY <1>5
        <5>2. b = [k \in 1 .. m |-> b[k]] /\ \A k \in 1 .. m : b[k] \in Seq(S)
          BY <3>2, <4>3, <5>1
        <5>3. b \in [1 .. m -> Seq(S)]
          BY <5>2
        <5>4. QED
          BY <5>1, <5>3
      <4>5. QED
        BY <4>1, <4>2, <4>3, <4>4, SeqEqual
    <3>7. QED
      BY <3>1, <3>6
  <2>7. em \o <<p>> = Frames(t, n + 1)
    <3>1. em \o <<p>> = Append(em, p)
      BY <1>7
    <3>2. QED
      BY <1>3, <2>6, <3>1
  <2>8. Len(t) = (n + 1) * FrameSize + Len(<<>>) /\ Len(<<>>) < FrameSize
    BY <1>1, <1>5, <1>9, <1>12
  <2>9. \A i \in 1 .. Len(<<>>) : <<>>[i] = t[(n + 1) * FrameSize + i]
    OBVIOUS
  <2>10. FixedAgrees(Emptied(q), t, em \o q.out)
    <3>1. PICK b : b = Emptied(q).buffer
      OBVIOUS
    <3>2. /\ em \o q.out = Frames(t, n + 1) /\ Len(t) = (n + 1) * FrameSize + Len(b)
          /\ Len(b) < FrameSize /\ \A i \in 1 .. Len(b) : b[i] = t[(n + 1) * FrameSize + i]
      BY <2>4, <2>7, <2>8, <2>9, <3>1
    <3>3. QED
      BY <1>5, <3>1, <3>2, Zenon DEF FixedAgrees
  <2>11. QED
    BY <1>6, <2>4, <2>10
<1>13. CASE Len(p) # FrameSize
  <2>1. q = [r EXCEPT !.buffer = p]
    BY <1>10, <1>13
  <2>2. Filled(S, q, r, p, r.errors)
    BY <1>1, <1>7, <2>1, BufferedIs
  <2>3. q \in Readers(S) /\ q.out = <<>> /\ Emptied(q).buffer = p
    BY <1>1, <2>2, EmptiedIs DEF Filled
  <2>4. em \o <<>> = em
    OBVIOUS
  <2>5. Frames(t, n) = Frames(s, n)
    <3>1. PICK a, b : a = Frames(s, n) /\ b = Frames(t, n)
      OBVIOUS
    <3>2. a = [k \in 1 .. n |-> a[k]] /\ b = [k \in 1 .. n |-> b[k]]
      BY <3>1 DEF Frames
    <3>3. \A k \in 1 .. n : Frames(t, n)[k] = Frames(t, n + 1)[k]
      <4>1. \A k \in 1 .. n : k \in 1 .. n + 1
        OBVIOUS
      <4>2. QED
        BY <4>1 DEF Frames
    <3>4. \A k \in 1 .. n : b[k] = a[k]
      BY <1>11, <3>1, <3>3
    <3>5. b = a
      BY <3>2, <3>4
    <3>6. QED
      BY <3>1, <3>5
  <2>6. Len(p) < FrameSize
    BY <1>1, <1>3, <1>5, <1>7, <1>13
  <2>7. FixedAgrees(Emptied(q), t, em \o q.out)
    BY <1>3, <1>4, <1>9, <2>3, <2>4, <2>5, <2>6 DEF FixedAgrees
  <2>8. QED
    BY <1>6, <2>3, <2>7
<1>14. QED
  BY <1>12, <1>13

-----------------------------------------------------------------------------
(* Numbers: what valid_number() computes is what the grammar says. *)

(* The digits from i on end before j. *)
DigitsEnd(m, i, j) ==
    /\ j \in i .. Len(m) + 1 /\ (j <= Len(m) => m[j] \notin Digits)
    /\ \A k \in i .. j - 1 : m[k] \in Digits

LEMMA AfterDigitsIs ==
    ASSUME NEW S, NEW m, m \in Seq(S), NEW i, i \in 1 .. Len(m) + 1
    PROVE  DigitsEnd(m, i, AfterDigits(m, i))
<1>1. PICK n \in Nat : n = Len(m)
  OBVIOUS
<1> DEFINE Ends == {j \in i .. n + 1 : j = n + 1 \/ m[j] \notin Digits}
<1>2. PICK j \in Ends : \A k \in Ends : j <= k
  <2>1. Ends \in SUBSET Nat /\ n + 1 \in Ends
    BY <1>1
  <2> HIDE DEF Ends
  <2>2. QED
    BY <2>1, LeastIn
<1>3. \A k \in i .. j - 1 : m[k] \in Digits
  <2> SUFFICES ASSUME NEW k \in i .. j - 1 PROVE m[k] \in Digits
    OBVIOUS
  <2>1. k \in i .. n + 1 /\ k # n + 1 /\ ~ j <= k
    BY <1>1, <1>2
  <2>2. k \notin Ends
    <3> HIDE DEF Ends
    <3>1. QED
      BY <1>2, <2>1
  <2>3. QED
    BY <2>1, <2>2
<1>4. j \in i .. Len(m) + 1 /\ (j <= Len(m) => m[j] \notin Digits)
  BY <1>1, <1>2
<1> HIDE DEF Ends
<1>5. DigitsEnd(m, i, j)
  BY <1>3, <1>4, Zenon DEF DigitsEnd
<1>6. AfterDigits(m, i) = CHOOSE e \in i .. Len(m) + 1 : DigitsEnd(m, i, e)
  BY DEF AfterDigits, DigitsEnd
<1>7. j \in i .. Len(m) + 1
  BY <1>4
<1>8. QED
  BY <1>5, <1>6, <1>7, Zenon

LEMMA DigitsEndOnce ==
    ASSUME NEW S, NEW m, m \in Seq(S), NEW i \in 1 .. Len(m) + 1,
           NEW j, DigitsEnd(m, i, j)
    PROVE  AfterDigits(m, i) = j
<1>1. PICK k : k = AfterDigits(m, i)
  OBVIOUS
<1>2. DigitsEnd(m, i, k)
  BY <1>1, AfterDigitsIs
<1>3. PICK n \in Nat : n = Len(m)
  OBVIOUS
<1>4. j \in i .. n + 1 /\ k \in i .. n + 1 /\ i \in 1 .. n + 1
  BY <1>2, <1>3 DEF DigitsEnd
<1>5. ~ j < k
  <2>1. ASSUME j < k PROVE FALSE
    <3>1. j \in i .. k - 1 /\ j <= n
      BY <1>4, <2>1
    <3>2. QED
      BY <1>2, <1>3, <3>1 DEF DigitsEnd
  <2>2. QED
    BY <2>1
<1>6. ~ k < j
  <2>1. ASSUME k < j PROVE FALSE
    <3>1. k \in i .. j - 1 /\ k <= n
      BY <1>4, <2>1
    <3>2. QED
      BY <1>2, <1>3, <3>1 DEF DigitsEnd
  <2>2. QED
    BY <2>1
<1>7. QED
  BY <1>1, <1>4, <1>5, <1>6

(* The three parts of a number. *)
FirstDigit(m) == IF m[1] = "-" THEN 2 ELSE 1

IntegerPart(m, i) ==
    DigitsAt(m, FirstDigit(m), i) /\ (m[FirstDigit(m)] = "0" => i = FirstDigit(m))

FractionPart(m, i, j) == j > i => m[i + 1] = "." /\ DigitsAt(m, i + 2, j)

ExponentPart(m, j) ==
    j < Len(m) =>
       /\ m[j + 1] = "e"
       /\ \/ DigitsAt(m, j + 2, Len(m))
          \/ j + 2 < Len(m) /\ m[j + 2] \in {"+", "-"} /\ DigitsAt(m, j + 3, Len(m))

NumberOf(m, i, j) ==
    /\ i \in FirstDigit(m) .. Len(m) /\ j \in i .. Len(m)
    /\ IntegerPart(m, i) /\ FractionPart(m, i, j) /\ ExponentPart(m, j)

LEMMA NumberParts ==
    ASSUME NEW m
    PROVE  IsNumber(m) <=> \E i, j : NumberOf(m, i, j)
BY Zenon DEF IsNumber, NumberOf, FirstDigit, IntegerPart, FractionPart, ExponentPart

LEMMA NumberBytesOnly ==
    ASSUME NEW S, NEW m, m \in Seq(S), m # <<>>, IsNumber(m)
    PROVE  /\ m[1] \in Digits \cup {"-"}
           /\ \A k \in 1 .. Len(m) : m[k] \in NumberBytes
<1>1. PICK i, j : NumberOf(m, i, j)
  BY NumberParts
<1>2. PICK n \in Nat : n = Len(m)
  OBVIOUS
<1>3. PICK f \in 1 .. 2 : f = FirstDigit(m) /\ (f = 2 => m[1] = "-")
  BY DEF FirstDigit
<1>4. /\ i \in f .. n /\ j \in i .. n /\ \A k \in f .. i : m[k] \in Digits
      /\ j > i => m[i + 1] = "." /\ \A k \in i + 2 .. j : m[k] \in Digits
  BY <1>1, <1>2, <1>3 DEF NumberOf, IntegerPart, FractionPart, DigitsAt
<1>5. j < n =>
        /\ m[j + 1] = "e"
        /\ \/ \A k \in j + 2 .. n : m[k] \in Digits
           \/ m[j + 2] \in {"+", "-"} /\ \A k \in j + 3 .. n : m[k] \in Digits
  BY <1>1, <1>2 DEF NumberOf, ExponentPart, DigitsAt
<1>6. ASSUME NEW k \in 1 .. n PROVE m[k] \in NumberBytes
  <2>1. CASE k < f
    BY <1>3, <2>1 DEF NumberBytes
  <2>2. CASE k \in f .. i
    BY <1>4, <2>2 DEF NumberBytes
  <2>3. CASE k \in i + 1 .. j
    <3>1. k = i + 1 \/ k \in i + 2 .. j
      BY <1>3, <1>4, <2>3
    <3>2. j > i
      BY <1>3, <1>4, <2>3
    <3>3. QED
      BY <1>4, <3>1, <3>2 DEF NumberBytes
  <2>4. CASE k \in j + 1 .. n
    <3>1. j < n /\ (k = j + 1 \/ k = j + 2 \/ k \in j + 3 .. n) /\ (k = j + 1 \/ k \in j + 2 .. n)
      BY <1>3, <1>4, <2>4
    <3>2. CASE \A l \in j + 2 .. n : m[l] \in Digits
      BY <1>5, <3>1, <3>2 DEF NumberBytes
    <3>3. CASE m[j + 2] \in {"+", "-"} /\ \A l \in j + 3 .. n : m[l] \in Digits
      BY <1>5, <3>1, <3>3 DEF NumberBytes
    <3>4. QED
      BY <1>5, <3>1, <3>2, <3>3
  <2>5. QED
    BY <1>2, <1>3, <1>4, <2>1, <2>2, <2>3, <2>4
<1>7. m[1] \in Digits \cup {"-"}
  <2>1. f \in f .. i
    BY <1>3, <1>4
  <2>2. QED
    BY <1>3, <1>4, <2>1
<1>8. QED
  BY <1>2, <1>6, <1>7

LEMMA IntegerIs ==
    ASSUME NEW S, NEW m, m \in Seq(S), m # <<>>
    PROVE  /\ \A i \in FirstDigit(m) .. Len(m) :
                IntegerPart(m, i) /\ (i < Len(m) => m[i + 1] \notin Digits) => IntegerEnd(m) = i + 1
           /\ IntegerEnd(m) # 0 =>
                \E i \in FirstDigit(m) .. Len(m) : IntegerPart(m, i) /\ IntegerEnd(m) = i + 1
<1>1. PICK n \in Nat : n = Len(m) /\ n >= 1
  OBVIOUS
<1>2. PICK f \in 1 .. 2 : f = FirstDigit(m)
  BY DEF FirstDigit
<1>3. f = IF At(m, 1, {"-"}) THEN 2 ELSE 1
  BY <1>1, <1>2 DEF FirstDigit, At
<1>4. IntegerEnd(m) = CASE At(m, f, {"0"}) -> f + 1
                        [] At(m, f, {"1"}) -> AfterDigits(m, f)
                        [] OTHER -> 0
  BY <1>3, Zenon DEF IntegerEnd
<1>5. CASE f <= n /\ m[f] = "0"
  <2>1. IntegerEnd(m) = f + 1
    BY <1>1, <1>4, <1>5 DEF At
  <2>2. IntegerPart(m, f) /\ f \in f .. n
    BY <1>2, <1>5 DEF IntegerPart, DigitsAt, Digits
  <2>3. \A i \in f .. n : IntegerPart(m, i) => i = f
    BY <1>2, <1>5 DEF IntegerPart
  <2>4. QED
    BY <1>1, <1>2, <2>1, <2>2, <2>3
<1>6. CASE f <= n /\ m[f] = "1"
  <2>1. IntegerEnd(m) = AfterDigits(m, f)
    BY <1>1, <1>4, <1>6 DEF At
  <2>2. f \in 1 .. Len(m) + 1
    BY <1>1
  <2>3. PICK e : e = AfterDigits(m, f) /\ DigitsEnd(m, f, e)
    BY <2>2, AfterDigitsIs
  <2>4. e \in f + 1 .. n + 1 /\ \A k \in f .. e - 1 : m[k] \in Digits
    <3>1. e \in f .. n + 1 /\ (e <= n => m[e] \notin Digits) /\ \A k \in f .. e - 1 : m[k] \in Digits
      BY <1>1, <2>3 DEF DigitsEnd
    <3>2. e # f
      BY <1>6, <3>1 DEF Digits
    <3>3. QED
      BY <3>1, <3>2
  <2>5. IntegerPart(m, e - 1) /\ e - 1 \in f .. n /\ e = (e - 1) + 1
    BY <1>2, <1>6, <2>4 DEF IntegerPart, DigitsAt
  <2>6. ASSUME NEW i \in f .. n, IntegerPart(m, i), i < n => m[i + 1] \notin Digits
        PROVE  e = i + 1
    <3>1. \A k \in f .. i : m[k] \in Digits
      BY <1>2, <2>6 DEF IntegerPart, DigitsAt
    <3>2. DigitsEnd(m, f, i + 1)
      BY <1>1, <2>6, <3>1 DEF DigitsEnd
    <3>3. QED
      BY <2>2, <2>3, <3>2, DigitsEndOnce
  <2>7. QED
    BY <1>1, <1>2, <2>1, <2>3, <2>5, <2>6
<1>7. CASE ~ (f <= n /\ m[f] \in Digits)
  <2>1. ~ At(m, f, {"0"}) /\ ~ At(m, f, {"1"})
    BY <1>1, <1>7 DEF At, Digits
  <2>2. IntegerEnd(m) = 0
    BY <1>4, <2>1
  <2>3. \A i \in f .. n : ~ IntegerPart(m, i)
    BY <1>2, <1>7 DEF IntegerPart, DigitsAt
  <2>4. QED
    BY <1>1, <1>2, <2>2, <2>3
<1>8. QED
  BY <1>5, <1>6, <1>7 DEF Digits

LEMMA FractionIs ==
    ASSUME NEW S, NEW m, m \in Seq(S), NEW i, i \in 1 .. Len(m)
    PROVE  /\ \A j \in i .. Len(m) :
                FractionPart(m, i, j) /\ (j < Len(m) => m[j + 1] = "e") => FractionEnd(m, i + 1) = j + 1
           /\ FractionEnd(m, i + 1) # 0 =>
                \E j \in i .. Len(m) : FractionPart(m, i, j) /\ FractionEnd(m, i + 1) = j + 1
<1>1. PICK n \in Nat : n = Len(m) /\ i \in 1 .. n
  OBVIOUS
<1>2. i + 1 # 0 /\ (i + 1) + 1 = i + 2
  BY <1>1
<1>3. FractionEnd(m, i + 1) =
        CASE i + 1 = 0 \/ ~ At(m, i + 1, {"."}) -> i + 1
          [] OTHER -> IF At(m, (i + 1) + 1, Digits) THEN AfterDigits(m, (i + 1) + 1) ELSE 0
  BY Zenon DEF FractionEnd
<1>4. CASE ~ At(m, i + 1, {"."})
  <2>1. FractionEnd(m, i + 1) = i + 1
    BY <1>3, <1>4
  <2>2. FractionPart(m, i, i) /\ i \in i .. n
    BY <1>1 DEF FractionPart
  <2>3. \A j \in i .. n : FractionPart(m, i, j) => j = i
    BY <1>1, <1>4 DEF FractionPart, At
  <2>4. QED
    BY <1>1, <2>1, <2>2, <2>3
<1>5. CASE At(m, i + 1, {"."}) /\ At(m, i + 2, Digits)
  <2>1. FractionEnd(m, i + 1) = AfterDigits(m, i + 2)
    BY <1>2, <1>3, <1>5
  <2>2. i + 2 \in 1 .. Len(m) + 1 /\ i + 2 <= n /\ m[i + 2] \in Digits /\ m[i + 1] = "."
    BY <1>1, <1>5 DEF At
  <2>3. PICK e : e = AfterDigits(m, i + 2) /\ DigitsEnd(m, i + 2, e)
    BY <2>2, AfterDigitsIs
  <2>4. e \in i + 3 .. n + 1 /\ \A k \in i + 2 .. e - 1 : m[k] \in Digits
    <3>1. /\ e \in i + 2 .. n + 1 /\ (e <= n => m[e] \notin Digits)
          /\ \A k \in i + 2 .. e - 1 : m[k] \in Digits
      BY <1>1, <2>3 DEF DigitsEnd
    <3>2. e # i + 2
      BY <2>2, <3>1
    <3>3. QED
      BY <1>1, <3>1, <3>2
  <2>5. FractionPart(m, i, e - 1) /\ e - 1 \in i .. n /\ e = (e - 1) + 1
    BY <1>1, <2>2, <2>4 DEF FractionPart, DigitsAt
  <2>6. ASSUME NEW j \in i .. n, FractionPart(m, i, j), j < n => m[j + 1] = "e"
        PROVE  e = j + 1
    <3>1. j > i
      <4>1. j = i => FALSE
        BY <1>1, <2>2, <2>6
      <4>2. QED
        BY <1>1, <4>1
    <3>2. j >= i + 2 /\ \A k \in i + 2 .. j : m[k] \in Digits
      BY <1>1, <2>6, <3>1 DEF FractionPart, DigitsAt
    <3>3. DigitsEnd(m, i + 2, j + 1)
      BY <1>1, <2>6, <3>2 DEF DigitsEnd, Digits
    <3>4. QED
      BY <2>2, <2>3, <3>3, DigitsEndOnce
  <2>7. QED
    BY <1>1, <2>1, <2>3, <2>5, <2>6
<1>6. CASE At(m, i + 1, {"."}) /\ ~ At(m, i + 2, Digits)
  <2>1. FractionEnd(m, i + 1) = 0
    BY <1>2, <1>3, <1>6
  <2>2. ASSUME NEW j \in i .. n, FractionPart(m, i, j), j < n => m[j + 1] = "e"
        PROVE  FALSE
    <3>1. i + 1 <= n /\ m[i + 1] = "." /\ ~ (i + 2 <= n /\ m[i + 2] \in Digits)
      BY <1>1, <1>6 DEF At
    <3>2. j # i
      BY <2>2, <3>1
    <3>3. j >= i + 2 /\ m[i + 2] \in Digits
      BY <1>1, <2>2, <3>2 DEF FractionPart, DigitsAt
    <3>4. QED
      BY <1>1, <3>1, <3>3
  <2>3. QED
    BY <1>1, <2>1, <2>2
<1>7. QED
  BY <1>4, <1>5, <1>6

LEMMA ExponentIs ==
    ASSUME NEW S, NEW m, m \in Seq(S), NEW j, j \in 1 .. Len(m)
    PROVE  ExponentEnd(m, j + 1) = Len(m) + 1 <=> ExponentPart(m, j)
<1>1. PICK n \in Nat : n = Len(m) /\ j \in 1 .. n
  OBVIOUS
<1>2. PICK d : d = IF At(m, j + 2, {"+", "-"}) THEN j + 3 ELSE j + 2
  OBVIOUS
<1>3. ExponentEnd(m, j + 1) =
        CASE j + 1 = 0 \/ ~ At(m, j + 1, {"e"}) -> j + 1
          [] OTHER -> IF At(m, d, Digits) THEN AfterDigits(m, d) ELSE 0
  <2>1. (j + 1) + 1 = j + 2 /\ (j + 1) + 2 = j + 3
    BY <1>1
  <2>2. ExponentEnd(m, j + 1) =
          LET k == IF At(m, (j + 1) + 1, {"+", "-"}) THEN (j + 1) + 2 ELSE (j + 1) + 1
          IN  CASE j + 1 = 0 \/ ~ At(m, j + 1, {"e"}) -> j + 1
                [] OTHER -> IF At(m, k, Digits) THEN AfterDigits(m, k) ELSE 0
    BY Zenon DEF ExponentEnd
  <2>3. QED
    BY <1>2, <2>1, <2>2
<1>4. CASE ~ At(m, j + 1, {"e"})
  <2>1. ExponentEnd(m, j + 1) = j + 1
    BY <1>3, <1>4
  <2>2. ExponentPart(m, j) <=> j = n
    BY <1>1, <1>4 DEF ExponentPart, At
  <2>3. QED
    BY <1>1, <2>1, <2>2
<1>5. CASE At(m, j + 1, {"e"})
  <2>1. j + 1 <= n /\ m[j + 1] = "e" /\ j + 1 # 0 /\ d \in Nat /\ d \in 1 .. n + 2
    BY <1>1, <1>2, <1>5 DEF At
  <2>2. ExponentEnd(m, j + 1) = IF At(m, d, Digits) THEN AfterDigits(m, d) ELSE 0
    BY <1>3, <1>5, <2>1
  <2>3. At(m, j + 2, {"+", "-"}) <=> j + 2 <= n /\ m[j + 2] \in {"+", "-"}
    BY <1>1 DEF At
  <2>4. ExponentPart(m, j) <=> DigitsAt(m, d, n)
    <3>1. ExponentPart(m, j) <=>
            \/ DigitsAt(m, j + 2, n)
            \/ j + 2 < n /\ m[j + 2] \in {"+", "-"} /\ DigitsAt(m, j + 3, n)
      BY <1>1, <2>1 DEF ExponentPart
    <3>2. DigitsAt(m, j + 3, n) => j + 2 < n
      BY <1>1 DEF DigitsAt
    <3>3. DigitsAt(m, j + 2, n) => j + 2 <= n /\ m[j + 2] \notin {"+", "-"}
      BY <1>1 DEF DigitsAt, Digits
    <3>4. QED
      BY <1>1, <1>2, <2>3, <3>1, <3>2, <3>3
  <2>5. CASE At(m, d, Digits)
    <3>1. d <= n /\ m[d] \in Digits /\ d \in 1 .. Len(m) + 1
      BY <1>1, <2>1, <2>5 DEF At
    <3>2. PICK e : e = AfterDigits(m, d) /\ DigitsEnd(m, d, e)
      BY <3>1, AfterDigitsIs
    <3>3. e \in d .. n + 1 /\ (e <= n => m[e] \notin Digits) /\ \A k \in d .. e - 1 : m[k] \in Digits
      BY <1>1, <3>2 DEF DigitsEnd
    <3>4. e = n + 1 <=> DigitsAt(m, d, n)
      BY <1>1, <2>1, <3>1, <3>3 DEF DigitsAt
    <3>5. QED
      BY <1>1, <2>2, <2>4, <2>5, <3>2, <3>4
  <2>6. CASE ~ At(m, d, Digits)
    <3>1. ~ DigitsAt(m, d, n)
      BY <1>1, <2>1, <2>6 DEF DigitsAt, At
    <3>2. QED
      BY <1>1, <2>2, <2>4, <2>6, <3>1
  <2>7. QED
    BY <2>5, <2>6
<1>6. QED
  BY <1>4, <1>5

(* valid_number(), a scan in three parts with an early return after each,   *)
(* accepts exactly the numbers of the grammar, whatever their length.       *)
THEOREM ValidNumber ==
    ASSUME NEW S, NEW m, m \in Seq(S), m # <<>>
    PROVE  valid_number(m) <=> IsNumber(m)
<1>1. PICK n \in Nat : n = Len(m) /\ n >= 1
  OBVIOUS
<1>2. PICK f \in 1 .. 2 : f = FirstDigit(m)
  BY DEF FirstDigit
<1>3. PICK a, b, e : a = IntegerEnd(m) /\ b = FractionEnd(m, a) /\ e = ExponentEnd(m, b)
  OBVIOUS
<1>4. valid_number(m) <=> e = n + 1
  BY <1>1, <1>3 DEF valid_number
<1>5. FractionEnd(m, 0) = 0 /\ ExponentEnd(m, 0) = 0
  BY DEF FractionEnd, ExponentEnd
<1>6. ASSUME e = n + 1 PROVE IsNumber(m)
  <2>1. a # 0 /\ b # 0
    <3>1. e # 0
      BY <1>6
    <3>2. b # 0
      BY <1>3, <1>5, <3>1, Zenon
    <3>3. QED
      BY <1>3, <1>5, <3>2, Zenon
  <2>2. PICK i \in f .. n : IntegerPart(m, i) /\ a = i + 1
    BY <1>1, <1>2, <1>3, <2>1, IntegerIs
  <2>3. i \in 1 .. Len(m)
    BY <1>1
  <2>4. PICK j \in i .. n : FractionPart(m, i, j) /\ b = j + 1
    BY <1>1, <1>3, <2>1, <2>2, <2>3, FractionIs
  <2>5. j \in 1 .. Len(m)
    BY <1>1
  <2>6. ExponentPart(m, j)
    BY <1>1, <1>3, <1>6, <2>4, <2>5, ExponentIs
  <2>7. NumberOf(m, i, j)
    BY <1>1, <1>2, <2>2, <2>4, <2>6 DEF NumberOf
  <2>8. QED
    BY <2>7, NumberParts
<1>7. ASSUME IsNumber(m) PROVE e = n + 1
  <2>1. PICK i, j : NumberOf(m, i, j)
    BY <1>7, NumberParts
  <2>2. /\ i \in f .. n /\ j \in i .. n
        /\ IntegerPart(m, i) /\ FractionPart(m, i, j) /\ ExponentPart(m, j)
    BY <1>1, <1>2, <2>1 DEF NumberOf
  <2>3. i \in 1 .. Len(m) /\ j \in 1 .. Len(m)
    BY <1>1, <2>2
  <2>4. j < n => m[j + 1] = "e"
    BY <1>1, <2>2 DEF ExponentPart
  <2>5. i < n => m[i + 1] \notin Digits
    <3>1. CASE j > i
      BY <2>2, <3>1 DEF FractionPart, Digits
    <3>2. CASE ~ j > i
      BY <1>1, <2>2, <2>4, <3>2 DEF Digits
    <3>3. QED
      BY <3>1, <3>2
  <2>6. a = i + 1
    BY <1>1, <1>2, <1>3, <2>2, <2>5, IntegerIs
  <2>7. b = j + 1
    BY <1>1, <1>3, <2>2, <2>3, <2>4, <2>6, FractionIs
  <2>8. QED
    BY <1>1, <1>3, <2>2, <2>3, <2>7, ExponentIs
<1>8. QED
  BY <1>4, <1>6, <1>7

-----------------------------------------------------------------------------
(* JSON: the first byte of a value tells which kind it is of. *)
ToldByHead(m) ==
    /\ m[1] = "quote" => (IsValue(m) <=> IsString(m))
    /\ m[1] \in {"{", "["} => (IsValue(m) <=> IsContainer(m))
    /\ m[1] \in Digits \cup {"-"} => (IsValue(m) <=> IsNumber(m))
    /\ m[1] \notin Digits \cup {"-", "{", "[", "quote"} => (IsValue(m) <=> m \in Literals)
    /\ m[1] = "ws" => ~ IsValue(m)
    /\ IsNumber(m) => m[1] \in Digits \cup {"-"}

LEMMA HeadTells ==
    ASSUME NEW S, NEW m, m \in Seq(S), m # <<>>
    PROVE  ToldByHead(m)
<1>1. m \in Literals => m[1] \notin Digits \cup {"-", "ws", "{", "[", "quote"}
  <2>1. Head(m) = m[1]
    OBVIOUS
  <2>2. QED
    BY <2>1, LiteralsAssumption
<1>2. IsString(m) => m[1] = "quote"
  BY DEF IsString
<1>3. IsContainer(m) => m[1] \in {"{", "["}
  BY DEF IsContainer
<1>4. IsNumber(m) => m[1] \in Digits \cup {"-"}
  BY NumberBytesOnly
<1>5. IsValue(m) <=> m \in Literals \/ IsString(m) \/ IsContainer(m) \/ IsNumber(m)
  BY DEF IsValue
<1>6. QED
  BY <1>1, <1>2, <1>3, <1>4, <1>5 DEF ToldByHead, Digits

(* No value begins with m. *)
Hopeless(S, m) ==
    m # <<>> /\ \A t \in Seq(S) : m \o t # <<"ws">> /\ ~ IsValue(m \o t)

(* m goes on as t. *)
GoesOn(S, m, t, l) ==
    /\ l \in Seq(S) /\ l # <<>> /\ l = m \o t /\ Len(l) >= Len(m) /\ Len(m) \in Nat
    /\ \A i \in 1 .. Len(m) : l[i] = m[i]

LEMMA LongerIs ==
    ASSUME NEW S, NEW m, m \in Seq(S), m # <<>>, NEW t, t \in Seq(S)
    PROVE  GoesOn(S, m, t, m \o t)
BY DEF GoesOn

(* What the reader holds of a value that has begun. *)
OpenIdle(r) == r.state = "Idle" /\ r.buffer = <<>> /\ ~ r.in_string /\ ~ r.escape

StringBegun(b, escape) ==
    /\ b # <<>> /\ b[1] = "quote" /\ \A i \in 1 .. Len(b) : Scan(b)[i].mode # "out"
    /\ escape <=> Scan(b)[Len(b)].mode = "skip"

OpenString(r) == r.state = "StringValue" /\ StringBegun(r.buffer, r.escape)

NumberBegun(b) ==
    b # <<>> /\ b[1] \in Digits \cup {"-"} /\ \A i \in 1 .. Len(b) : b[i] \in NumberBytes

OpenNumber(r) == r.state = "NumberValue" /\ NumberBegun(r.buffer)

LiteralBegun(b, rest) == b # <<>> /\ rest # <<>> /\ b \o rest \in Literals

OpenLiteral(r) == r.state = "LiteralValue" /\ LiteralBegun(r.buffer, r.rest)

(* The container opened at i, the d-th one, is still open. *)
OpensAt(b, i, d, c) ==
    /\ b[i] = c /\ Scan(b)[i - 1].depth = d - 1 /\ Scan(b)[i].depth = d
    /\ \A k \in i .. Len(b) : Scan(b)[k].depth >= d

(* The stack has the bracket that is open at each depth, and what was closed *)
(* was closed by its kind.                                                  *)
Nested(b, stack) ==
    /\ Len(stack) = Scan(b)[Len(b)].depth
    /\ \A i \in 1 .. Len(b) : Scan(b)[i].depth >= 1
    /\ \A d \in 1 .. Len(stack) : \E i \in 1 .. Len(b) : OpensAt(b, i, d, stack[d])
    /\ \A i, j \in 1 .. Len(b) : Matching(Scan(b), i, j) => b[j] = Closing(b[i])

Bracket(c) == c \in Brackets

ContainerBegun(b, stack, in_string, escape) ==
    /\ b # <<>> /\ Bracket(b[1]) /\ Nested(b, stack)
    /\ in_string <=> Scan(b)[Len(b)].mode # "out"
    /\ escape <=> Scan(b)[Len(b)].mode = "skip"

OpenContainer(r) ==
    r.state = "Container" /\ ContainerBegun(r.buffer, r.stack, r.in_string, r.escape)

Begun(r) == OpenIdle(r) \/ OpenString(r) \/ OpenNumber(r) \/ OpenLiteral(r) \/ OpenContainer(r)

-----------------------------------------------------------------------------
(* What the byte behind r.buffer, which makes it p, can do to the reader:   *)
(* it is taken, it ends a message (or is white space), or there is an error.*)
Taken(S, x, r, p, q) ==
    /\ q \in Readers(S) /\ Begun(q) /\ q.buffer = p /\ q.errors = r.errors /\ q.out = r.out
    /\ ~ IsWhole(x, p)

Ended(S, x, r, p, q) ==
    RestsWith(S, q, r.out \o MessagesIn(x, p), r.errors) /\ IsWhole(x, p)

Refused(S, x, r, p, q) ==
    /\ RestsWith(S, q, r.out, r.errors + 1)
    /\ (Len(p) > Setups[x].buffer /\ p # <<"ws">>) \/ Hopeless(S, p)

Outcome(S, x, r, p, q) == Taken(S, x, r, p, q) \/ Ended(S, x, r, p, q) \/ Refused(S, x, r, p, q)

(* The reader r of JSON in setup x takes c behind its buffer. *)
Reads(S, x, r, c, p) ==
    /\ x \in DOMAIN Setups /\ x = setup /\ Setups[x].reader = "json"
    /\ r \in Readers(S) /\ c \in S /\ p = Append(r.buffer, c)

LEMMA ReadsIs ==
    ASSUME NEW S, NEW x, NEW r, NEW c, NEW p, Reads(S, x, r, c, p)
    PROVE  /\ Longer(S, p, r.buffer, c) /\ r.buffer \in Seq(S) /\ r.out \in Seq(Seq(S))
           /\ r.errors \in Nat /\ BufferSize = Setups[x].buffer /\ BufferSize \in Nat
           /\ IsWhole(x, p) <=> p = <<"ws">> \/ (IsValue(p) /\ ~ IsNumber(p))
           /\ MessagesIn(x, p) = IF p = <<"ws">> THEN <<>> ELSE <<p>>
<1>1. /\ r \in Readers(S) /\ c \in S /\ p = Append(r.buffer, c) /\ x = setup
      /\ Setups[x].reader = "json" /\ x \in DOMAIN Setups
  BY DEF Reads
<1>2. r.buffer \in Seq(S) /\ r.out \in Seq(Seq(S)) /\ r.errors \in Nat
  BY <1>1 DEF Readers
<1>3. Longer(S, p, r.buffer, c)
  BY <1>1, <1>2, AppendIs
<1>4. BufferSize = Setups[x].buffer /\ BufferSize \in Nat
  BY <1>1, SetupsAssumption DEF BufferSize
<1>5. /\ IsWhole(x, p) <=> p = <<"ws">> \/ (IsValue(p) /\ ~ IsNumber(p))
      /\ MessagesIn(x, p) = IF p = <<"ws">> THEN <<>> ELSE <<p>>
  BY <1>1 DEF IsWhole, MessagesIn
<1>6. QED
  BY <1>2, <1>3, <1>4, <1>5

LEMMA FailRefuses ==
    ASSUME NEW S, NEW x, NEW r, NEW c, NEW p, Reads(S, x, r, c, p),
           NEW q, q = fail(r), (Len(p) > BufferSize /\ p # <<"ws">>) \/ Hopeless(S, p)
    PROVE  Refused(S, x, r, p, q)
<1>1. r.out \in Seq(Seq(S)) /\ r.errors \in Nat /\ BufferSize = Setups[x].buffer
  BY ReadsIs
<1>2. r.errors + 1 \in Nat /\ q = Resting(r.out, r.errors + 1)
  BY <1>1, FailRests
<1>3. RestsWith(S, q, r.out, r.errors + 1)
  BY <1>1, <1>2, RestingIs
<1>4. QED
  BY <1>1, <1>3 DEF Refused

LEMMA EmitEnds ==
    ASSUME NEW S, NEW x, NEW r, NEW c, NEW p, Reads(S, x, r, c, p),
           NEW a, a.out = r.out, a.errors = r.errors, NEW q, q = emit(a, p),
           p # <<"ws">>, IsValue(p), ~ IsNumber(p)
    PROVE  Ended(S, x, r, p, q)
<1>1. /\ r.out \in Seq(Seq(S)) /\ r.errors \in Nat /\ IsWhole(x, p) /\ MessagesIn(x, p) = <<p>>
      /\ p \in Seq(S)
  <2>1. p \in Seq(S)
    <3>1. Longer(S, p, r.buffer, c)
      BY ReadsIs
    <3>2. QED
      BY <3>1 DEF Longer
  <2>2. QED
    BY <2>1, ReadsIs
<1>2. Append(r.out, p) = r.out \o <<p>> /\ Append(r.out, p) \in Seq(Seq(S))
  <2>1. PICK M, o : M = Seq(S) /\ o = r.out
    OBVIOUS
  <2>2. o \in Seq(M) /\ p \in M
    BY <1>1, <2>1
  <2>3. Append(o, p) = o \o <<p>> /\ Append(o, p) \in Seq(M)
    BY <2>2
  <2>4. QED
    BY <2>1, <2>3
<1>3. q = Resting(Append(r.out, p), r.errors)
  BY EmitRests
<1>4. RestsWith(S, q, Append(r.out, p), r.errors)
  BY <1>1, <1>2, <1>3, RestingIs
<1>5. QED
  BY <1>1, <1>2, <1>4 DEF Ended

(* What append() makes of the reader, when the byte fits. *)
Changed(S, q, r, buffer, state, stack, in_string, escape, rest) ==
    /\ q \in Readers(S) /\ q.buffer = buffer /\ q.state = state /\ q.stack = stack
    /\ (q.in_string <=> in_string) /\ (q.escape <=> escape) /\ q.rest = rest
    /\ q.out = r.out /\ q.errors = r.errors

(* The scan of p = Append(b, c) goes on from that of b. *)
ScansOn(b, c, p) ==
    /\ Scan(p)[0] = Outside /\ Scan(b)[0] = Outside
    /\ \A i \in 0 .. Len(b) : Scan(p)[i] = Scan(b)[i] /\ Scan(b)[i] \in Places
    /\ Scan(p)[Len(b) + 1] = After(Scan(b)[Len(b)], c) /\ Scan(p)[Len(b) + 1] \in Places

LEMMA ScanOn ==
    ASSUME NEW S, NEW b, b \in Seq(S), NEW c, NEW p, Longer(S, p, b, c)
    PROVE  ScansOn(b, c, p)
<1>1. /\ p \in Seq(S) /\ Len(p) = Len(b) + 1 /\ Len(b) \in Nat /\ p[Len(b) + 1] = c
      /\ \A i \in 1 .. Len(b) : p[i] = b[i]
  BY DEF Longer
<1>2. \A i \in 0 .. Len(b) : Scan(p)[i] = Scan(b)[i]
  BY <1>1, ScanAgrees
<1>3. Scan(b)[0] = Outside /\ \A i \in 0 .. Len(b) : Scan(b)[i] \in Places
  BY ScanIs
<1>4. /\ Scan(p)[0] = Outside /\ \A i \in 0 .. Len(p) : Scan(p)[i] \in Places
      /\ \A i \in 1 .. Len(p) : Scan(p)[i] = After(Scan(p)[i - 1], p[i])
  BY <1>1, ScanIs
<1>5. Len(b) + 1 \in 1 .. Len(p) /\ Len(b) + 1 \in 0 .. Len(p) /\ (Len(b) + 1) - 1 = Len(b)
      /\ Len(b) \in 0 .. Len(b)
  BY <1>1
<1>6. Scan(p)[Len(b) + 1] = After(Scan(b)[Len(b)], c)
  BY <1>1, <1>2, <1>4, <1>5
<1>7. QED
  BY <1>2, <1>3, <1>4, <1>5, <1>6 DEF ScansOn

-----------------------------------------------------------------------------
(* append(): a byte that does not fit is an error. *)
LEMMA AppendRefuses ==
    ASSUME NEW S, NEW x, NEW r, NEW c, NEW p, Reads(S, x, r, c, p), NEW next,
           Len(r.buffer) >= BufferSize, p # <<"ws">>
    PROVE  Outcome(S, x, r, p, append(r, c, next))
<1>1. append(r, c, next) = fail(r)
  BY DEF append
<1>2. Len(p) > BufferSize
  <2>1. Longer(S, p, r.buffer, c) /\ BufferSize \in Nat
    BY ReadsIs
  <2>2. QED
    BY <2>1 DEF Longer
<1>3. Refused(S, x, r, p, append(r, c, next))
  BY <1>1, <1>2, FailRefuses
<1>4. QED
  BY <1>3 DEF Outcome

LEMMA AppendTakes ==
    ASSUME NEW S, NEW x, NEW r, NEW c, NEW p, Reads(S, x, r, c, p), ~ Len(r.buffer) >= BufferSize
    PROVE  Changed(S, append(r, c, r), r, p, r.state, r.stack, r.in_string, r.escape, r.rest)
<1>1. append(r, c, r) = [r EXCEPT !.buffer = p]
  BY DEF append, Reads
<1>2. r \in Readers(S) /\ p \in Seq(S)
  <2>1. Longer(S, p, r.buffer, c)
    BY ReadsIs
  <2>2. QED
    BY <2>1 DEF Longer, Reads
<1>3. QED
  BY <1>1, <1>2 DEF Changed, Readers

LEMMA StringByteIs ==
    ASSUME NEW a, NEW c, NEW closed
    PROVE  /\ a.escape => StringByte(a, c, closed) = [a EXCEPT !.escape = FALSE]
           /\ ~ a.escape /\ c = "escape" => StringByte(a, c, closed) = [a EXCEPT !.escape = TRUE]
           /\ ~ a.escape /\ c = "quote" => StringByte(a, c, closed) = closed
           /\ ~ a.escape /\ c \notin {"escape", "quote"} => StringByte(a, c, closed) = a
<1>1. CASE a.escape
  BY <1>1 DEF StringByte
<1>2. CASE ~ a.escape
  BY <1>2 DEF StringByte
<1>3. QED
  BY <1>1, <1>2

(* A change of a reader that took a byte already. *)
LEMMA EscapeChanges ==
    ASSUME NEW S, NEW a, NEW r, NEW b, NEW st, NEW k, NEW i, NEW e, NEW l,
           Changed(S, a, r, b, st, k, i, e, l)
    PROVE  /\ Changed(S, [a EXCEPT !.escape = TRUE], r, b, st, k, i, TRUE, l)
           /\ Changed(S, [a EXCEPT !.escape = FALSE], r, b, st, k, i, FALSE, l)
           /\ Changed(S, [a EXCEPT !.in_string = TRUE], r, b, st, k, TRUE, e, l)
           /\ Changed(S, [a EXCEPT !.in_string = FALSE], r, b, st, k, FALSE, e, l)
BY DEF Changed, Readers

LEMMA StringStep ==
    ASSUME NEW S, NEW x, NEW r, NEW c, NEW p, Reads(S, x, r, c, p), OpenString(r)
    PROVE  Outcome(S, x, r, p, consume_string(r, c))
<1>1. /\ r.buffer \in Seq(S) /\ Longer(S, p, r.buffer, c)
      /\ IsWhole(x, p) <=> p = <<"ws">> \/ (IsValue(p) /\ ~ IsNumber(p))
  BY ReadsIs
<1>2. PICK b, n : b = r.buffer /\ n = Len(r.buffer)
  OBVIOUS
<1>3. /\ p \in Seq(S) /\ p # <<>> /\ Len(p) = n + 1 /\ n \in Nat /\ p[n + 1] = c
      /\ \A i \in 1 .. n : p[i] = b[i]
  BY <1>1, <1>2 DEF Longer
<1>4. /\ n >= 1 /\ b[1] = "quote" /\ \A i \in 1 .. n : Scan(b)[i].mode # "out"
      /\ r.escape <=> Scan(b)[n].mode = "skip"
  BY <1>2, <1>3 DEF OpenString, StringBegun
<1>5. p[1] = "quote" /\ p # <<"ws">>
  BY <1>3, <1>4
<1>6. /\ IsWhole(x, p) <=> IsString(p)
      /\ IsValue(p) <=> IsString(p)
      /\ ~ IsNumber(p)
  <2>1. ToldByHead(p)
    BY <1>3, HeadTells
  <2>2. QED
    BY <1>1, <1>5, <2>1 DEF ToldByHead, Digits
<1>7. PICK f, at : f = Scan(p) /\ at = Scan(b)[n]
  OBVIOUS
<1>8. /\ \A i \in 1 .. n : f[i].mode # "out"
      /\ at \in Places /\ f[n + 1] = After(at, c) /\ at.mode \in {"in", "skip"}
  <2>1. ScansOn(b, c, p)
    BY <1>1, <1>2, ScanOn
  <2>2. /\ \A i \in 1 .. n : f[i].mode # "out"
        /\ at \in Places /\ f[n + 1] = After(at, c) /\ at.mode # "out"
    BY <1>2, <1>3, <1>4, <1>7, <2>1 DEF ScansOn
  <2>3. QED
    BY <2>2 DEF Places
<1>9. PICK mode : mode = f[n + 1].mode
  OBVIOUS
<1>10. mode = IF at.mode = "skip" THEN "in"
              ELSE IF c = "escape" THEN "skip" ELSE IF c = "quote" THEN "out" ELSE "in"
  <2>1. GoesTo(at, c, f[n + 1])
    BY <1>8, AfterIs
  <2>2. QED
    BY <1>8, <1>9, <2>1 DEF GoesTo
<1>11. IsString(p) <=> mode = "out"
  <2>1. IsString(p) <=> \A i \in 1 .. n + 1 : f[i].mode = "out" <=> i = n + 1
    BY <1>3, <1>4, <1>5, <1>7 DEF IsString
  <2>2. QED
    BY <1>3, <1>8, <1>9, <2>1
<1>12. CASE Len(r.buffer) >= BufferSize
  <2>1. consume_string(r, c) = append(r, c, r)
    BY <1>12 DEF consume_string
  <2>2. QED
    BY <1>5, <1>12, <2>1, AppendRefuses
<1>13. CASE ~ Len(r.buffer) >= BufferSize
  <2>1. PICK a : a = append(r, c, r)
    OBVIOUS
  <2>2. Changed(S, a, r, p, r.state, r.stack, r.in_string, r.escape, r.rest)
    BY <1>13, <2>1, AppendTakes
  <2>3. PICK q : q = consume_string(r, c)
    OBVIOUS
  <2>4. q = StringByte(a, c, emit(a, p))
    <3>1. a.buffer = p
      BY <2>2 DEF Changed
    <3>2. QED
      BY <1>13, <2>1, <2>3, <3>1 DEF consume_string
  <2>5. a.escape <=> r.escape
    BY <2>2 DEF Changed
  <2>6. ASSUME NEW e, Changed(S, q, r, p, r.state, r.stack, r.in_string, e, r.rest),
               e <=> mode = "skip", mode # "out"
        PROVE  Taken(S, x, r, p, q)
    <3>1. /\ q \in Readers(S) /\ q.buffer = p /\ q.state = r.state /\ q.out = r.out
          /\ q.errors = r.errors /\ (q.escape <=> e)
      BY <2>6 DEF Changed
    <3>2. \A i \in 1 .. Len(p) : f[i].mode # "out"
      BY <1>3, <1>8, <1>9, <2>6
    <3>3. OpenString(q)
      BY <1>3, <1>5, <1>7, <1>9, <2>6, <3>1, <3>2 DEF OpenString, StringBegun
    <3>4. ~ IsWhole(x, p)
      BY <1>6, <1>11, <2>6
    <3>5. QED
      BY <3>1, <3>3, <3>4 DEF Taken, Begun
  <2>7. CASE r.escape
    <3>1. q = [a EXCEPT !.escape = FALSE]
      BY <2>4, <2>5, <2>7, StringByteIs
    <3>2. Changed(S, q, r, p, r.state, r.stack, r.in_string, FALSE, r.rest)
      BY <2>2, <3>1, EscapeChanges
    <3>3. mode = "in"
      BY <1>4, <1>7, <1>2, <1>10, <2>7
    <3>4. QED
      BY <2>3, <2>6, <3>2, <3>3 DEF Outcome
  <2>8. CASE ~ r.escape /\ c = "escape"
    <3>1. q = [a EXCEPT !.escape = TRUE]
      BY <2>4, <2>5, <2>8, StringByteIs
    <3>2. Changed(S, q, r, p, r.state, r.stack, r.in_string, TRUE, r.rest)
      BY <2>2, <3>1, EscapeChanges
    <3>3. mode = "skip"
      BY <1>4, <1>7, <1>2, <1>10, <2>8
    <3>4. QED
      BY <2>3, <2>6, <3>2, <3>3 DEF Outcome
  <2>9. CASE ~ r.escape /\ c = "quote"
    <3>1. q = emit(a, p)
      BY <2>4, <2>5, <2>9, StringByteIs
    <3>2. mode = "out"
      BY <1>4, <1>7, <1>2, <1>10, <2>9
    <3>3. a.out = r.out /\ a.errors = r.errors
      BY <2>2 DEF Changed
    <3>4. Ended(S, x, r, p, q)
      BY <1>5, <1>6, <1>11, <3>1, <3>2, <3>3, EmitEnds
    <3>5. QED
      BY <2>3, <3>4 DEF Outcome
  <2>10. CASE ~ r.escape /\ c \notin {"escape", "quote"}
    <3>1. q = a
      BY <2>4, <2>5, <2>10, StringByteIs
    <3>2. mode = "in"
      BY <1>4, <1>7, <1>2, <1>10, <2>10
    <3>3. QED
      BY <2>2, <2>3, <2>6, <2>10, <3>1, <3>2 DEF Outcome
  <2>11. QED
    BY <2>7, <2>8, <2>9, <2>10
<1>14. QED
  BY <1>12, <1>13

LEMMA NumberStep ==
    ASSUME NEW S, NEW x, NEW r, NEW c, NEW p, Reads(S, x, r, c, p), OpenNumber(r), c \in NumberBytes
    PROVE  Outcome(S, x, r, p, append(r, c, r))
<1>1. /\ r.buffer \in Seq(S) /\ Longer(S, p, r.buffer, c)
      /\ IsWhole(x, p) <=> p = <<"ws">> \/ (IsValue(p) /\ ~ IsNumber(p))
  BY ReadsIs
<1>2. PICK b, n : b = r.buffer /\ n = Len(r.buffer)
  OBVIOUS
<1>3. /\ p \in Seq(S) /\ p # <<>> /\ Len(p) = n + 1 /\ n \in Nat /\ p[n + 1] = c
      /\ \A i \in 1 .. n : p[i] = b[i]
  BY <1>1, <1>2 DEF Longer
<1>4. n >= 1 /\ b[1] \in Digits \cup {"-"} /\ \A i \in 1 .. n : b[i] \in NumberBytes
  BY <1>2, <1>3 DEF OpenNumber, NumberBegun
<1>5. p[1] \in Digits \cup {"-"} /\ p # <<"ws">>
  BY <1>3, <1>4 DEF Digits
<1>6. ~ IsWhole(x, p)
  <2>1. ToldByHead(p)
    BY <1>3, HeadTells
  <2>2. QED
    BY <1>1, <1>5, <2>1 DEF ToldByHead
<1>7. \A i \in 1 .. Len(p) : p[i] \in NumberBytes
  BY <1>3, <1>4
<1>8. CASE Len(r.buffer) >= BufferSize
  BY <1>5, <1>8, AppendRefuses
<1>9. CASE ~ Len(r.buffer) >= BufferSize
  <2>1. PICK q : q = append(r, c, r)
    OBVIOUS
  <2>2. Changed(S, q, r, p, r.state, r.stack, r.in_string, r.escape, r.rest)
    BY <1>9, <2>1, AppendTakes
  <2>3. q \in Readers(S) /\ q.buffer = p /\ q.state = r.state /\ q.out = r.out /\ q.errors = r.errors
    BY <2>2 DEF Changed
  <2>4. OpenNumber(q)
    BY <1>3, <1>5, <1>7, <2>3 DEF OpenNumber, NumberBegun
  <2>5. QED
    BY <1>6, <2>1, <2>3, <2>4 DEF Outcome, Taken, Begun
<1>10. QED
  BY <1>8, <1>9

(* l is what b becomes with rest. *)
Completes(l, b, rest, n, k) ==
    /\ Len(l) = n + k /\ n = Len(b) /\ k = Len(rest) /\ n \in Nat /\ k \in Nat
    /\ \A i \in 1 .. n : l[i] = b[i]
    /\ \A i \in 1 .. k : l[n + i] = rest[i]

LEMMA JoinIs ==
    ASSUME NEW U, NEW b, b \in Seq(U), NEW rest, rest \in Seq(U)
    PROVE  Completes(b \o rest, b, rest, Len(b), Len(rest))
BY DEF Completes

LEMMA WiderSeq ==
    ASSUME NEW S, NEW U, S \subseteq U, NEW m, m \in Seq(S)
    PROVE  m \in Seq(U)
OBVIOUS

LEMMA LiteralStep ==
    ASSUME NEW S, NEW x, NEW r, NEW c, NEW p, Reads(S, x, r, c, p), r.state = "LiteralValue",
           r.rest # <<>>, r.buffer \o r.rest \in Literals,
           r.buffer = <<>> => c = Head(r.rest)
    PROVE  Outcome(S, x, r, p, consume_literal(r, c))
<1>1. /\ r.buffer \in Seq(S) /\ Longer(S, p, r.buffer, c)
      /\ IsWhole(x, p) <=> p = <<"ws">> \/ (IsValue(p) /\ ~ IsNumber(p))
  BY ReadsIs
<1>2. PICK b, n, rest, k : b = r.buffer /\ n = Len(b) /\ rest = r.rest /\ k = Len(rest)
  OBVIOUS
<1>3. PICK U : U = S \cup STRING
  OBVIOUS
<1>4. /\ r \in Readers(S) /\ rest \in Seq(STRING) /\ rest \in Seq(U) /\ b \in Seq(U)
      /\ c \in S /\ p = Append(b, c)
  <2>1. r \in Readers(S) /\ c \in S /\ p = Append(b, c)
    BY <1>2 DEF Reads
  <2>2. rest \in Seq(STRING)
    BY <1>2, <2>1 DEF Readers
  <2>3. S \subseteq U /\ STRING \subseteq U
    BY <1>3
  <2>4. rest \in Seq(U) /\ b \in Seq(U)
    BY <1>1, <1>2, <2>2, <2>3, WiderSeq
  <2>5. QED
    BY <2>1, <2>2, <2>4
<1>5. /\ p \in Seq(S) /\ p # <<>> /\ Len(p) = n + 1 /\ n \in Nat /\ p[n + 1] = c
      /\ \A i \in 1 .. n : p[i] = b[i]
  BY <1>1, <1>2 DEF Longer
<1>6. PICK l : l = b \o rest
  OBVIOUS
<1>7. Completes(l, b, rest, n, k)
  BY <1>2, <1>4, <1>6, JoinIs
<1>8. k >= 1 /\ l \in Literals /\ l \in Seq(U) /\ l # <<>> /\ Head(rest) = rest[1] /\ Head(l) = l[1]
  <2>1. l \in Literals
    BY <1>2, <1>6
  <2>2. k >= 1 /\ Head(rest) = rest[1]
    BY <1>2, <1>4
  <2>3. l \in Seq(STRING) /\ l # <<>> /\ STRING \subseteq U
    BY <1>3, <2>1, LiteralsAssumption
  <2>4. Head(l) = l[1]
    BY <2>3
  <2>5. QED
    BY <2>1, <2>2, <2>3, <2>4, WiderSeq
<1>9. p[1] = l[1]
  <2>1. CASE n = 0
    <3>1. b = <<>>
      <4>1. b \in Seq(U) /\ Len(b) = 0
        BY <1>2, <1>4, <2>1
      <4>2. QED
        BY <4>1
    <3>2. c = rest[1]
      BY <1>2, <1>8, <3>1
    <3>3. QED
      BY <1>5, <1>7, <1>8, <2>1, <3>2 DEF Completes
  <2>2. CASE n # 0
    BY <1>5, <1>7, <2>2 DEF Completes
  <2>3. QED
    BY <2>1, <2>2
<1>10. l[1] \notin Digits \cup {"-", "ws", "{", "[", "quote"}
  BY <1>8, LiteralsAssumption
<1>11. ASSUME NEW m, m \in Seq(S), m # <<>>, m[1] = l[1]
       PROVE  (IsValue(m) <=> m = l) /\ ~ IsNumber(m) /\ m # <<"ws">>
  <2>1. ToldByHead(m)
    BY <1>11, HeadTells
  <2>2. (IsValue(m) <=> m \in Literals) /\ ~ IsNumber(m)
    BY <1>10, <1>11, <2>1 DEF ToldByHead
  <2>3. m # <<"ws">>
    <3>1. m[1] # "ws" /\ <<"ws">>[1] = "ws"
      BY <1>10, <1>11
    <3>2. QED
      BY <3>1
  <2>4. m \in Literals => m = l
    <3>1. Head(m) = m[1]
      BY <1>11
    <3>2. QED
      BY <1>8, <1>11, <3>1, LiteralsAssumption
  <2>5. QED
    BY <1>8, <2>2, <2>3, <2>4
<1>12. (IsValue(p) <=> p = l) /\ ~ IsNumber(p) /\ p # <<"ws">>
  BY <1>5, <1>9, <1>11
<1>13. PICK q : q = consume_literal(r, c)
  OBVIOUS
<1>14. q = IF rest = <<>> \/ Head(rest) # c \/ Len(b) >= BufferSize THEN fail(r)
           ELSE IF Len(rest) = 1 THEN emit(r, Append(b, c))
           ELSE [r EXCEPT !.buffer = Append(b, c), !.rest = Tail(rest)]
  BY <1>2, <1>13 DEF consume_literal
<1>15. CASE Head(rest) # c
  <2>1. q = fail(r)
    BY <1>14, <1>15
  <2>2. ASSUME NEW t \in Seq(S) PROVE p \o t # <<"ws">> /\ ~ IsValue(p \o t)
    <3>1. PICK m : m = p \o t
      OBVIOUS
    <3>2. m \in Seq(S) /\ m # <<>> /\ Len(m) >= Len(p) /\ \A i \in 1 .. Len(p) : m[i] = p[i]
      <4>1. GoesOn(S, p, t, p \o t)
        BY <1>5, <2>2, LongerIs
      <4>2. QED
        BY <3>1, <4>1 DEF GoesOn
    <3>3. m[1] = l[1] /\ m[n + 1] = c
      BY <1>5, <1>9, <3>2
    <3>4. l[n + 1] = Head(rest)
      BY <1>7, <1>8 DEF Completes
    <3>5. m # l
      BY <1>15, <3>3, <3>4
    <3>6. QED
      BY <1>11, <3>1, <3>2, <3>3, <3>5
  <2>3. Hopeless(S, p)
    BY <1>5, <2>2 DEF Hopeless
  <2>4. Refused(S, x, r, p, q)
    BY <2>1, <2>3, FailRefuses
  <2>5. QED
    BY <1>13, <2>4 DEF Outcome
<1>16. CASE Len(b) >= BufferSize
  <2>1. q = fail(r)
    BY <1>14, <1>16
  <2>2. Len(p) > BufferSize
    <3>1. BufferSize \in Nat
      BY ReadsIs
    <3>2. QED
      BY <1>2, <1>5, <1>16, <3>1
  <2>3. Refused(S, x, r, p, q)
    BY <1>12, <2>1, <2>2, FailRefuses
  <2>4. QED
    BY <1>13, <2>3 DEF Outcome
<1>17. CASE Head(rest) = c /\ ~ Len(b) >= BufferSize /\ k = 1
  <2>1. q = emit(r, p)
    BY <1>2, <1>4, <1>14, <1>17, <1>8
  <2>2. p = l
    <3>1. p \in Seq(U)
      BY <1>3, <1>5, WiderSeq
    <3>2. \A i \in 1 .. n + 1 : p[i] = l[i]
      BY <1>5, <1>7, <1>8, <1>17 DEF Completes
    <3>3. Len(l) = n + 1
      BY <1>7, <1>17 DEF Completes
    <3>4. QED
      BY <1>5, <1>8, <3>1, <3>2, <3>3, SeqEqual
  <2>3. Ended(S, x, r, p, q)
    BY <1>12, <2>1, <2>2, EmitEnds
  <2>4. QED
    BY <1>13, <2>3 DEF Outcome
<1>18. CASE Head(rest) = c /\ ~ Len(b) >= BufferSize /\ k # 1
  <2>1. q = [r EXCEPT !.buffer = p, !.rest = Tail(rest)]
    BY <1>2, <1>4, <1>14, <1>18, <1>8
  <2>2. PICK tail : tail = Tail(rest)
    OBVIOUS
  <2>3. /\ tail \in Seq(STRING) /\ Len(tail) = k - 1 /\ tail # <<>>
        /\ \A i \in 1 .. k - 1 : tail[i] = rest[i + 1]
    <3>1. rest \in Seq(STRING) /\ Len(rest) = k /\ rest # <<>> /\ k >= 1 /\ k # 1 /\ k \in Nat
      BY <1>2, <1>4, <1>8, <1>18
    <3>2. tail \in Seq(STRING) /\ Len(tail) = k - 1 /\ \A i \in 1 .. k - 1 : tail[i] = rest[i + 1]
      BY <2>2, <3>1
    <3>3. QED
      BY <3>1, <3>2
  <2>4. q \in Readers(S) /\ q.buffer = p /\ q.rest = tail /\ q.state = r.state
        /\ q.errors = r.errors /\ q.out = r.out
    BY <1>4, <1>5, <2>1, <2>2, <2>3 DEF Readers
  <2>5. p \o tail = l
    <3>1. p \in Seq(U) /\ tail \in Seq(U)
      BY <1>3, <1>5, <2>3, WiderSeq
    <3>2. PICK m : m = p \o tail
      OBVIOUS
    <3>3. Completes(m, p, tail, Len(p), Len(tail)) /\ m \in Seq(U)
      BY <3>1, <3>2, JoinIs
    <3>4. Len(m) = Len(l) /\ k \in Nat
      <4>1. Len(l) = n + k /\ k \in Nat
        BY <1>7 DEF Completes
      <4>2. Len(m) = Len(p) + Len(tail)
        BY <3>3 DEF Completes
      <4>3. QED
        BY <1>5, <2>3, <4>1, <4>2
    <3>5. ASSUME NEW i \in 1 .. Len(m) PROVE m[i] = l[i]
      <4>1. CASE i <= n
        BY <1>5, <1>7, <3>3, <4>1 DEF Completes
      <4>2. CASE i = n + 1
        BY <1>5, <1>7, <1>8, <1>18, <3>3, <4>2 DEF Completes
      <4>3. CASE i > n + 1
        <5>1. PICK j \in 1 .. k - 1 : i = n + 1 + j
          BY <1>5, <2>3, <3>3, <3>4, <4>3 DEF Completes
        <5>2. m[i] = tail[j]
          BY <1>5, <2>3, <3>3, <5>1 DEF Completes
        <5>3. l[i] = rest[j + 1]
          <6>1. j + 1 \in 1 .. k /\ i = n + (j + 1)
            BY <1>5, <3>4, <5>1
          <6>2. QED
            BY <1>7, <6>1 DEF Completes
        <5>4. QED
          BY <2>3, <5>2, <5>3
      <4>4. QED
        BY <1>5, <4>1, <4>2, <4>3
    <3>6. QED
      BY <1>8, <3>2, <3>3, <3>4, <3>5, SeqEqual
  <2>6. p # l
    BY <1>5, <1>7, <1>18 DEF Completes
  <2>7. OpenLiteral(q)
    BY <1>5, <1>8, <2>3, <2>4, <2>5 DEF OpenLiteral, LiteralBegun
  <2>8. ~ IsWhole(x, p)
    BY <1>1, <1>12, <2>6
  <2>9. QED
    BY <1>13, <2>4, <2>7, <2>8 DEF Outcome, Taken, Begun
<1>19. QED
  BY <1>15, <1>16, <1>17, <1>18

-----------------------------------------------------------------------------
(* Containers: D is how deep each byte of a prefix is nested. *)
Pairs(D, i, j) ==
    /\ i < j /\ D[i] = D[i - 1] + 1 /\ D[j] = D[i - 1]
    /\ \A k \in i .. j - 1 : D[k] >= D[i]

LevelAt(D, b, n, i, d, c) ==
    b[i] = c /\ D[i - 1] = d - 1 /\ D[i] = d /\ \A k \in i .. n : D[k] >= d

Levels(D, b, n, stack) ==
    /\ Len(stack) = D[n] /\ \A i \in 1 .. n : D[i] >= 1
    /\ \A d \in 1 .. Len(stack) : \E i \in 1 .. n : LevelAt(D, b, n, i, d, stack[d])
    /\ \A i, j \in 1 .. n : Pairs(D, i, j) => b[j] = Closing(b[i])

Depths(D, f, n) == \A i \in 0 .. n : D[i] = f[i].depth

LEMMA PairsMatch ==
    ASSUME NEW n, n \in Nat, NEW f, NEW D, Depths(D, f, n), NEW i \in 1 .. n, NEW j \in 1 .. n
    PROVE  Pairs(D, i, j) <=> Matching(f, i, j)
<1>1. D[i] = f[i].depth /\ D[j] = f[j].depth /\ D[i - 1] = f[i - 1].depth
  BY DEF Depths
<1>2. \A k \in i .. j - 1 : D[k] = f[k].depth
  BY DEF Depths
<1>3. QED
  BY <1>1, <1>2 DEF Pairs, Matching

LEMMA NestedLevels ==
    ASSUME NEW S, NEW b, b \in Seq(S), b # <<>>, NEW stack, NEW D, Depths(D, Scan(b), Len(b))
    PROVE  Nested(b, stack) <=> Levels(D, b, Len(b), stack)
<1>1. PICK n, f : n = Len(b) /\ f = Scan(b)
  OBVIOUS
<1>2. n \in Nat /\ n >= 1
  BY <1>1
<1>3. \A i \in 0 .. n : D[i] = f[i].depth
  BY <1>1 DEF Depths
<1>4. D[n] = f[n].depth
  BY <1>2, <1>3
<1>5. (\A i \in 1 .. n : D[i] >= 1) <=> (\A i \in 1 .. n : f[i].depth >= 1)
  BY <1>2, <1>3
<1>6. \A i \in 1 .. n : \A d, c : LevelAt(D, b, n, i, d, c) <=> OpensAt(b, i, d, c)
  <2> SUFFICES ASSUME NEW i \in 1 .. n, NEW d, NEW c
               PROVE  LevelAt(D, b, n, i, d, c) <=> OpensAt(b, i, d, c)
    OBVIOUS
  <2>1. D[i] = f[i].depth /\ D[i - 1] = f[i - 1].depth /\ \A k \in i .. n : D[k] = f[k].depth
    BY <1>2, <1>3
  <2>2. QED
    BY <1>1, <2>1 DEF LevelAt, OpensAt
<1>7. \A i, j \in 1 .. n : Pairs(D, i, j) <=> Matching(f, i, j)
  BY <1>1, <1>2, PairsMatch
<1>8. Nested(b, stack) <=>
        /\ Len(stack) = f[n].depth /\ \A i \in 1 .. n : f[i].depth >= 1
        /\ \A d \in 1 .. Len(stack) : \E i \in 1 .. n : OpensAt(b, i, d, stack[d])
        /\ \A i, j \in 1 .. n : Matching(f, i, j) => b[j] = Closing(b[i])
  BY <1>1, Zenon DEF Nested
<1>9. Levels(D, b, n, stack) <=>
        /\ Len(stack) = f[n].depth /\ \A i \in 1 .. n : f[i].depth >= 1
        /\ \A d \in 1 .. Len(stack) : \E i \in 1 .. n : OpensAt(b, i, d, stack[d])
        /\ \A i, j \in 1 .. n : Matching(f, i, j) => b[j] = Closing(b[i])
  BY <1>4, <1>5, <1>6, <1>7, Zenon DEF Levels
<1>10. QED
  BY <1>1, <1>8, <1>9, Zenon

(* One byte more, c, which makes p of b. *)
OneMore(D, b, n, c, p) ==
    /\ n \in Nat /\ n >= 1 /\ D \in [0 .. n + 1 -> Int] /\ D[0] = 0
    /\ p[n + 1] = c /\ \A i \in 1 .. n : p[i] = b[i]

LEMMA LevelGoesOn ==
    ASSUME NEW D, NEW b, NEW n, NEW c, NEW p, OneMore(D, b, n, c, p),
           NEW i \in 1 .. n, NEW d, d \in Int, NEW e, LevelAt(D, b, n, i, d, e), D[n + 1] >= d
    PROVE  LevelAt(D, p, n + 1, i, d, e)
<1>1. n \in Nat /\ p[i] = b[i]
  BY DEF OneMore
<1>2. \A k \in i .. n + 1 : k \in i .. n \/ k = n + 1
  BY <1>1
<1>3. QED
  BY <1>1, <1>2 DEF LevelAt

(* What has been closed stays so; the last byte may close something. *)
LEMMA PairsGoOn ==
    ASSUME NEW D, NEW b, NEW n, NEW c, NEW p, OneMore(D, b, n, c, p),
           NEW stack, Levels(D, b, n, stack),
           \A i \in 1 .. n : Pairs(D, i, n + 1) => c = Closing(p[i])
    PROVE  \A i, j \in 1 .. n + 1 : Pairs(D, i, j) => p[j] = Closing(p[i])
<1> SUFFICES ASSUME NEW i \in 1 .. n + 1, NEW j \in 1 .. n + 1, Pairs(D, i, j)
             PROVE  p[j] = Closing(p[i])
  OBVIOUS
<1>1. n \in Nat /\ p[n + 1] = c /\ \A k \in 1 .. n : p[k] = b[k]
  BY DEF OneMore
<1>2. i < j
  BY DEF Pairs
<1>3. i \in 1 .. n
  BY <1>1, <1>2
<1>4. CASE j = n + 1
  BY <1>1, <1>3, <1>4
<1>5. CASE j # n + 1
  <2>1. j \in 1 .. n
    BY <1>1, <1>5
  <2>2. b[j] = Closing(b[i])
    BY <1>3, <2>1 DEF Levels
  <2>3. QED
    BY <1>1, <1>3, <2>1, <2>2
<1>6. QED
  BY <1>4, <1>5

LEMMA SameLevel ==
    ASSUME NEW D, NEW b, NEW n, NEW c, NEW p, OneMore(D, b, n, c, p),
           NEW stack, Levels(D, b, n, stack), D[n + 1] = D[n]
    PROVE  Levels(D, p, n + 1, stack)
<1>1. n \in Nat /\ n >= 1 /\ D \in [0 .. n + 1 -> Int]
  BY DEF OneMore
<1>2. /\ Len(stack) = D[n] /\ D[n] \in Int /\ \A i \in 1 .. n : D[i] >= 1
      /\ \A d \in 1 .. Len(stack) : \E i \in 1 .. n : LevelAt(D, b, n, i, d, stack[d])
  BY <1>1 DEF Levels
<1>3. \A i \in 1 .. n + 1 : D[i] >= 1
  BY <1>1, <1>2
<1>4. ASSUME NEW d \in 1 .. Len(stack)
      PROVE  \E i \in 1 .. n + 1 : LevelAt(D, p, n + 1, i, d, stack[d])
  <2>1. PICK i \in 1 .. n : LevelAt(D, b, n, i, d, stack[d])
    BY <1>2
  <2>2. D[n + 1] >= d /\ d \in Int /\ i \in 1 .. n + 1
    BY <1>1, <1>2
  <2>3. LevelAt(D, p, n + 1, i, d, stack[d])
    BY <2>1, <2>2, LevelGoesOn
  <2>4. QED
    BY <2>2, <2>3
<1>5. ASSUME NEW i \in 1 .. n, Pairs(D, i, n + 1) PROVE FALSE
  <2>1. D[i] = D[i - 1] + 1 /\ D[n + 1] = D[i - 1] /\ D[n] >= D[i] /\ D[i - 1] \in Int
    <3>1. n \in i .. (n + 1) - 1 /\ i - 1 \in 0 .. n + 1
      BY <1>1
    <3>2. QED
      BY <1>1, <1>5, <3>1 DEF Pairs
  <2>2. QED
    BY <1>2, <2>1
<1>6. \A i, j \in 1 .. n + 1 : Pairs(D, i, j) => p[j] = Closing(p[i])
  BY <1>5, PairsGoOn
<1>7. QED
  BY <1>2, <1>3, <1>4, <1>6 DEF Levels

LEMMA LevelOpens ==
    ASSUME NEW D, NEW b, NEW n, NEW c, NEW p, OneMore(D, b, n, c, p),
           NEW B, NEW stack, stack \in Seq(B), c \in B, Levels(D, b, n, stack), D[n + 1] = D[n] + 1
    PROVE  Levels(D, p, n + 1, Append(stack, c))
<1>1. n \in Nat /\ n >= 1 /\ D \in [0 .. n + 1 -> Int] /\ p[n + 1] = c
  BY DEF OneMore
<1>2. /\ Len(stack) = D[n] /\ D[n] \in Int /\ \A i \in 1 .. n : D[i] >= 1
      /\ \A d \in 1 .. Len(stack) : \E i \in 1 .. n : LevelAt(D, b, n, i, d, stack[d])
  BY <1>1 DEF Levels
<1>3. \A i \in 1 .. n + 1 : D[i] >= 1
  BY <1>1, <1>2
<1>4. PICK s : s = Append(stack, c)
  OBVIOUS
<1>5. /\ Len(s) = D[n + 1] /\ Len(stack) \in Nat /\ Len(s) = Len(stack) + 1 /\ s[Len(s)] = c
      /\ \A d \in 1 .. Len(stack) : s[d] = stack[d]
  BY <1>2, <1>4
<1>6. ASSUME NEW d \in 1 .. Len(s)
      PROVE  \E i \in 1 .. n + 1 : LevelAt(D, p, n + 1, i, d, s[d])
  <2>1. CASE d = Len(s)
    <3>1. LevelAt(D, p, n + 1, n + 1, d, s[d])
      <4>1. \A k \in n + 1 .. n + 1 : k = n + 1
        BY <1>1
      <4>2. D[(n + 1) - 1] = d - 1 /\ D[n + 1] = d
        BY <1>1, <1>2, <1>5, <2>1
      <4>3. QED
        BY <1>1, <1>5, <2>1, <4>1, <4>2 DEF LevelAt
    <3>2. QED
      BY <1>1, <3>1
  <2>2. CASE d # Len(s)
    <3>1. d \in 1 .. Len(stack)
      BY <1>5, <2>2
    <3>2. PICK i \in 1 .. n : LevelAt(D, b, n, i, d, stack[d])
      BY <1>2, <3>1
    <3>3. D[n + 1] >= d /\ d \in Int /\ i \in 1 .. n + 1
      BY <1>1, <1>2, <3>1
    <3>4. LevelAt(D, p, n + 1, i, d, stack[d])
      BY <3>2, <3>3, LevelGoesOn
    <3>5. QED
      BY <1>5, <3>1, <3>3, <3>4
  <2>3. QED
    BY <2>1, <2>2
<1>7. ASSUME NEW i \in 1 .. n, Pairs(D, i, n + 1) PROVE FALSE
  <2>1. D[i] = D[i - 1] + 1 /\ D[n + 1] = D[i - 1] /\ D[n] >= D[i] /\ D[i - 1] \in Int
    BY <1>1, <1>7 DEF Pairs
  <2>2. QED
    BY <1>2, <2>1
<1>8. \A i, j \in 1 .. n + 1 : Pairs(D, i, j) => p[j] = Closing(p[i])
  BY <1>7, PairsGoOn
<1>9. QED
  BY <1>3, <1>4, <1>5, <1>6, <1>8 DEF Levels

(* A closing bracket ends the container opened last, and no other. *)
LEMMA LevelEnds ==
    ASSUME NEW D, NEW b, NEW n, NEW c, NEW p, OneMore(D, b, n, c, p),
           NEW stack, Levels(D, b, n, stack), Len(stack) \in Nat, D[n + 1] = D[n] - 1
    PROVE  /\ Len(stack) >= 1
           /\ \E i \in 1 .. n : p[i] = stack[Len(stack)] /\ Pairs(D, i, n + 1)
           /\ \A i \in 1 .. n : Pairs(D, i, n + 1) => p[i] = stack[Len(stack)]
<1>1. n \in Nat /\ n >= 1 /\ D \in [0 .. n + 1 -> Int] /\ \A i \in 1 .. n : p[i] = b[i]
  BY DEF OneMore
<1>2. PICK L : L = Len(stack)
  OBVIOUS
<1>3. L = D[n] /\ L \in Nat /\ L >= 1 /\ D[n + 1] = L - 1 /\ n \in 1 .. n
  BY <1>1, <1>2 DEF Levels
<1>4. PICK m \in 1 .. n : LevelAt(D, b, n, m, L, stack[L])
  BY <1>2, <1>3 DEF Levels
<1>5. p[m] = stack[L] /\ D[m - 1] = L - 1 /\ D[m] = L /\ \A k \in m .. n : D[k] >= L
  BY <1>1, <1>4 DEF LevelAt
<1>6. Pairs(D, m, n + 1)
  BY <1>1, <1>3, <1>5 DEF Pairs
<1>7. ASSUME NEW i \in 1 .. n, Pairs(D, i, n + 1) PROVE i = m
  <2>1. D[i - 1] = L - 1 /\ \A k \in i .. n : D[k] >= L
    <3>1. D[n + 1] = D[i - 1] /\ D[i] = D[i - 1] + 1 /\ \A k \in i .. n : D[k] >= D[i]
      BY <1>1, <1>7 DEF Pairs
    <3>2. D[i] = L
      BY <1>3, <3>1
    <3>3. QED
      BY <1>3, <3>1, <3>2
  <2>2. ~ i < m
    <3>1. ASSUME i < m PROVE FALSE
      <4>1. m - 1 \in i .. n
        BY <1>1, <3>1
      <4>2. QED
        BY <1>3, <1>5, <2>1, <4>1
    <3>2. QED
      BY <3>1
  <2>3. ~ m < i
    <3>1. ASSUME m < i PROVE FALSE
      <4>1. i - 1 \in m .. n
        BY <1>1, <3>1
      <4>2. QED
        BY <1>3, <1>5, <2>1, <4>1
    <3>2. QED
      BY <3>1
  <2>4. QED
    BY <2>2, <2>3
<1>8. QED
  BY <1>2, <1>3, <1>5, <1>6, <1>7

LEMMA LevelCloses ==
    ASSUME NEW D, NEW b, NEW n, NEW c, NEW p, OneMore(D, b, n, c, p),
           NEW B, NEW stack, stack \in Seq(B), Levels(D, b, n, stack), D[n + 1] = D[n] - 1,
           Closing(stack[Len(stack)]) = c
    PROVE  /\ \A i, j \in 1 .. n + 1 : Pairs(D, i, j) => p[j] = Closing(p[i])
           /\ Len(stack) # 1 => Levels(D, p, n + 1, Front(stack))
<1>1. n \in Nat /\ n >= 1 /\ D \in [0 .. n + 1 -> Int] /\ Len(stack) \in Nat
  BY DEF OneMore
<1>2. /\ Len(stack) = D[n] /\ D[n] \in Int /\ \A i \in 1 .. n : D[i] >= 1
      /\ \A d \in 1 .. Len(stack) : \E i \in 1 .. n : LevelAt(D, b, n, i, d, stack[d])
  BY <1>1 DEF Levels
<1>3. Len(stack) >= 1 /\ \A i \in 1 .. n : Pairs(D, i, n + 1) => p[i] = stack[Len(stack)]
  BY <1>1, LevelEnds
<1>4. \A i, j \in 1 .. n + 1 : Pairs(D, i, j) => p[j] = Closing(p[i])
  BY <1>3, PairsGoOn
<1>5. ASSUME Len(stack) # 1 PROVE Levels(D, p, n + 1, Front(stack))
  <2>1. PICK s : s = Front(stack)
    OBVIOUS
  <2>2. Len(s) = Len(stack) - 1 /\ \A d \in 1 .. Len(s) : s[d] = stack[d]
    <3>1. stack # <<>>
      BY <1>3
    <3>2. s = SubSeq(stack, 1, Len(stack) - 1)
      BY <2>1 DEF Front
    <3>3. QED
      <4>1. PICK l \in Nat : l = Len(stack) - 1
        BY <1>1, <1>3
      <4>2. 1 \in 1 .. Len(stack) + 1 /\ l \in 0 .. Len(stack) /\ 1 <= l + 1 /\ l - 1 + 1 = l
        BY <1>1, <4>1
      <4>3. Len(s) = l - 1 + 1 /\ \A k \in 1 .. l - 1 + 1 : s[k] = stack[1 + k - 1]
        BY <3>2, <4>1, <4>2, PieceIs
      <4>4. \A k \in 1 .. l : 1 + k - 1 = k
        BY <4>1
      <4>5. QED
        BY <4>1, <4>2, <4>3, <4>4
  <2>3. Len(s) = D[n + 1] /\ Len(s) >= 1 /\ Len(s) \in Nat
    BY <1>1, <1>2, <1>3, <1>5, <2>2
  <2>4. \A i \in 1 .. n + 1 : D[i] >= 1
    BY <1>1, <1>2, <2>3
  <2>5. ASSUME NEW d \in 1 .. Len(s)
        PROVE  \E i \in 1 .. n + 1 : LevelAt(D, p, n + 1, i, d, s[d])
    <3>1. d \in 1 .. Len(stack) /\ d \in Int /\ D[n + 1] >= d
      BY <1>1, <2>2, <2>3
    <3>2. PICK i \in 1 .. n : LevelAt(D, b, n, i, d, stack[d])
      BY <1>2, <3>1
    <3>3. LevelAt(D, p, n + 1, i, d, stack[d])
      BY <3>1, <3>2, LevelGoesOn
    <3>4. QED
      BY <1>1, <2>2, <3>2, <3>3
  <2>6. QED
    BY <1>4, <2>1, <2>3, <2>4, <2>5 DEF Levels
<1>6. QED
  BY <1>4, <1>5

(* The stack of containers goes with the depths. *)
Depth(p) == [i \in 0 .. Len(p) |-> Scan(p)[i].depth]

NestsOn(S, b, stack, c, p, D, n) ==
    /\ n = Len(b) /\ OneMore(D, b, n, c, p) /\ Levels(D, b, n, stack) /\ Depths(D, Scan(p), n + 1)
    /\ \A s : Levels(D, p, n + 1, s) => Nested(p, s)

LEMMA DepthIs ==
    ASSUME NEW S, NEW b, b \in Seq(S), b # <<>>, NEW stack, Nested(b, stack),
           NEW c, NEW p, Longer(S, p, b, c)
    PROVE  NestsOn(S, b, stack, c, p, Depth(p), Len(b))
<1>1. PICK n, f, D : n = Len(b) /\ f = Scan(p) /\ D = Depth(p)
  OBVIOUS
<1>2. /\ p \in Seq(S) /\ p # <<>> /\ Len(p) = n + 1 /\ n \in Nat /\ n >= 1 /\ p[n + 1] = c
      /\ \A i \in 1 .. n : p[i] = b[i]
  <2>1. n >= 1 /\ n \in Nat
    BY <1>1
  <2>2. QED
    BY <1>1, <2>1 DEF Longer
<1>3. f[0] = Outside /\ \A i \in 0 .. n + 1 : f[i].depth \in Int
  <2>1. f[0] = Outside /\ \A i \in 0 .. Len(p) : f[i] \in Places
    BY <1>1, <1>2, ScanIs
  <2>2. QED
    BY <1>2, <2>1 DEF Places
<1>4. D = [i \in 0 .. n + 1 |-> f[i].depth]
  BY <1>1, <1>2 DEF Depth
<1>5. D \in [0 .. n + 1 -> Int] /\ D[0] = 0 /\ Depths(D, f, n + 1)
  <2>1. D \in [0 .. n + 1 -> Int] /\ \A i \in 0 .. n + 1 : D[i] = f[i].depth
    BY <1>3, <1>4
  <2>2. D[0] = 0
    BY <1>2, <1>3, <2>1 DEF Outside
  <2>3. QED
    BY <2>1, <2>2 DEF Depths
<1>6. OneMore(D, b, n, c, p)
  BY <1>2, <1>5 DEF OneMore
<1>7. Depths(D, Scan(b), n)
  <2>1. ScansOn(b, c, p)
    BY ScanOn
  <2>2. QED
    BY <1>1, <1>2, <1>5, <2>1 DEF ScansOn, Depths
<1>8. Levels(D, b, n, stack)
  BY <1>1, <1>7, NestedLevels
<1>9. \A s : Levels(D, p, n + 1, s) => Nested(p, s)
  BY <1>1, <1>2, <1>5, NestedLevels
<1>10. QED
  BY <1>1, <1>5, <1>6, <1>8, <1>9 DEF NestsOn

(* What begins with a bracket is no value other than a container. *)
ToldByBracket(m) ==
    m # <<"ws">> /\ (IsValue(m) <=> IsContainer(m)) /\ ~ IsNumber(m)

LEMMA BracketTells ==
    ASSUME NEW S, NEW m, m \in Seq(S), m # <<>>, Bracket(m[1])
    PROVE  ToldByBracket(m)
<1>1. ToldByHead(m)
  BY HeadTells
<1>2. m[1] # "ws" /\ m[1] \notin Digits \cup {"-"}
  BY Zenon DEF Bracket, Digits, Brackets
<1>3. m # <<"ws">>
  <2>1. <<"ws">>[1] = "ws"
    OBVIOUS
  <2>2. QED
    BY <1>2, <2>1
<1>4. m[1] \in {"{", "["} => (IsValue(m) <=> IsContainer(m))
  BY <1>1, Zenon DEF ToldByHead
<1>5. IsNumber(m) => m[1] \in Digits \cup {"-"}
  BY <1>1, Zenon DEF ToldByHead
<1>6. ~ IsNumber(m)
  BY <1>2, <1>5, Zenon
<1>7. QED
  BY <1>3, <1>4, <1>6, Zenon DEF ToldByBracket, Bracket, Brackets

(* p begins as a container, and D is how deep its bytes are. *)
Bracketed(S, p, D) ==
    p \in Seq(S) /\ p # <<>> /\ Bracket(p[1]) /\ Depths(D, Scan(p), Len(p))

ClosedAtEnd(p, D) ==
    /\ D[Len(p)] = 0 /\ \A i \in 1 .. Len(p) : i < Len(p) => D[i] >= 1
    /\ \A i, j \in 1 .. Len(p) : Pairs(D, i, j) => p[j] = Closing(p[i])

LEMMA ClosedContainer ==
    ASSUME NEW S, NEW p, NEW D, Bracketed(S, p, D), ClosedAtEnd(p, D)
    PROVE  IsContainer(p)
<1>1. PICK f, n : f = Scan(p) /\ n = Len(p)
  OBVIOUS
<1>2. n \in Nat /\ p # <<>> /\ Bracket(p[1]) /\ Depths(D, f, n)
  BY <1>1 DEF Bracketed
<1>3. \A i \in 1 .. n : D[i] = f[i].depth
  BY <1>2 DEF Depths
<1>4. \A i \in 1 .. n : D[i] = 0 <=> i = n
  <2>1. ASSUME NEW i \in 1 .. n, i # n PROVE D[i] # 0
    <3>1. i < n
      BY <1>2, <2>1
    <3>2. D[i] >= 1
      BY <1>1, <3>1 DEF ClosedAtEnd
    <3>3. QED
      BY <3>2
  <2>2. QED
    BY <1>1, <2>1 DEF ClosedAtEnd
<1>5. \A i, j \in 1 .. n : Pairs(D, i, j) <=> Matching(f, i, j)
  BY <1>2, PairsMatch
<1>6. \A i \in 1 .. n : f[i].depth = 0 <=> i = n
  BY <1>3, <1>4
<1>7. \A i, j \in 1 .. n : Matching(f, i, j) => p[j] = Closing(p[i])
  BY <1>1, <1>5 DEF ClosedAtEnd
<1>8. p # <<>> /\ p[1] \in {"{", "["}
  BY <1>2, Zenon DEF Bracket, Brackets
<1>9. QED
  BY <1>1, <1>6, <1>7, <1>8, Zenon DEF IsContainer

(* A container that is closed by a bracket of the other kind is hopeless. *)
WrongAtEnd(p, D, i) ==
    i \in 1 .. Len(p) /\ Pairs(D, i, Len(p)) /\ p[Len(p)] # Closing(p[i])

LEMMA WrongBracket ==
    ASSUME NEW S, NEW p, NEW D, Bracketed(S, p, D),
           NEW i, WrongAtEnd(p, D, i)
    PROVE  Hopeless(S, p)
<1>1. PICK f, n : f = Scan(p) /\ n = Len(p)
  OBVIOUS
<1>2. p \in Seq(S) /\ p # <<>> /\ n \in Nat /\ n >= 1 /\ Bracket(p[1]) /\ Depths(D, f, n)
  BY <1>1 DEF Bracketed
<1>3. ASSUME NEW t \in Seq(S) PROVE p \o t # <<"ws">> /\ ~ IsValue(p \o t)
  <2>1. PICK m : m = p \o t
    OBVIOUS
  <2>2. m \in Seq(S) /\ m # <<>> /\ Len(m) >= n /\ Len(m) \in Nat /\ \A k \in 1 .. n : m[k] = p[k]
    <3>1. GoesOn(S, p, t, m)
      BY <1>2, <1>3, <2>1, LongerIs
    <3>2. QED
      BY <1>1, <3>1 DEF GoesOn
  <2>3. /\ m[1] = p[1] /\ m[i] = p[i] /\ m[n] = p[n] /\ i \in 1 .. n /\ n \in 1 .. n
        /\ i \in 1 .. Len(m) /\ n \in 1 .. Len(m)
    BY <1>1, <1>2, <2>2 DEF WrongAtEnd
  <2>4. ToldByBracket(m)
    BY <1>2, <2>2, <2>3, BracketTells
  <2>5. m # <<"ws">> /\ (IsValue(m) <=> IsContainer(m))
    BY <2>4 DEF ToldByBracket
  <2>6. Depths(D, Scan(m), n)
    <3>1. Len(p) <= Len(m) /\ \A k \in 1 .. Len(p) : m[k] = p[k]
      BY <1>1, <1>2, <2>2
    <3>2. \A k \in 0 .. Len(p) : Scan(m)[k] = Scan(p)[k]
      BY <1>2, <2>2, <3>1, ScanAgrees, SMTT(30)
    <3>3. QED
      BY <1>1, <1>2, <3>2 DEF Depths
  <2>7. Matching(Scan(m), i, n)
    BY <1>1, <1>2, <2>3, <2>6, PairsMatch DEF WrongAtEnd
  <2>8. ~ IsContainer(m)
    <3>1. m[n] # Closing(m[i])
      BY <1>1, <2>3 DEF WrongAtEnd
    <3>2. QED
      BY <2>3, <2>7, <3>1, Zenon DEF IsContainer
  <2>9. QED
    BY <2>1, <2>5, <2>8
<1>4. QED
  BY <1>2, <1>3 DEF Hopeless

-----------------------------------------------------------------------------
(* A byte within a container. *)
Closer(c) == c \in {"}", "]"}

(* Where the byte c leads to in a container, from at. *)
LeadsTo(at, c, next) ==
    /\ at.depth \in Int
    /\ at.mode = "skip" => next.mode = "in" /\ next.depth = at.depth
    /\ at.mode = "in" => /\ next.mode = IF c = "escape" THEN "skip"
                                        ELSE IF c = "quote" THEN "out" ELSE "in"
                         /\ next.depth = at.depth
    /\ at.mode = "out" =>
         /\ next.mode = IF c = "quote" THEN "in" ELSE "out"
         /\ Bracket(c) => next.depth = at.depth + 1
         /\ Closer(c) => next.depth = at.depth - 1
         /\ ~ Bracket(c) /\ ~ Closer(c) => next.depth = at.depth
    /\ Bracket(c) \/ Closer(c) => c # "quote"

LEMMA LeadsIs ==
    ASSUME NEW at, at \in Places, NEW c, NEW next, next = After(at, c)
    PROVE  LeadsTo(at, c, next)
<1>1. GoesTo(at, c, next)
  BY AfterIs
<1>2. Bracket(c) \/ Closer(c) => c # "quote"
  BY Zenon DEF Bracket, Closer, Brackets
<1>3. ~ (Bracket(c) /\ Closer(c))
  BY Zenon DEF Bracket, Closer, Brackets
<1>4. next.depth = IF at.mode = "out" /\ Bracket(c) THEN at.depth + 1
                   ELSE IF at.mode = "out" /\ Closer(c) THEN at.depth - 1 ELSE at.depth
  BY <1>1, Zenon DEF GoesTo, Bracket, Closer, Brackets
<1>5. /\ at.mode = "skip" => next.mode = "in"
      /\ at.mode = "in" =>
           next.mode = IF c = "escape" THEN "skip" ELSE IF c = "quote" THEN "out" ELSE "in"
      /\ at.mode = "out" => next.mode = IF c = "quote" THEN "in" ELSE "out"
  BY <1>1, Zenon DEF GoesTo
<1>6. at.depth \in Int
  BY DEF Places
<1>7. QED
  BY <1>2, <1>3, <1>4, <1>5, <1>6 DEF LeadsTo

(* The reader r is in a container of n bytes, and c makes it p. *)
InContainer(S, r, c, p, D, n, at, next) ==
    /\ p \in Seq(S) /\ p # <<>> /\ n \in Nat /\ Len(p) = n + 1 /\ Bracket(p[1])
    /\ OneMore(D, r.buffer, n, c, p) /\ Levels(D, r.buffer, n, r.stack)
    /\ Depths(D, Scan(p), n + 1) /\ \A s : Levels(D, p, n + 1, s) => Nested(p, s)
    /\ next = Scan(p)[n + 1] /\ LeadsTo(at, c, next)
    /\ D[n] = at.depth /\ D[n + 1] = next.depth
    /\ at.mode \in {"out", "in", "skip"}
    /\ (r.in_string <=> at.mode # "out") /\ (r.escape <=> at.mode = "skip")

LEMMA ContainerGoes ==
    ASSUME NEW S, NEW x, NEW r, NEW c, NEW p, Reads(S, x, r, c, p), OpenContainer(r)
    PROVE  InContainer(S, r, c, p, Depth(p), Len(r.buffer), Scan(r.buffer)[Len(r.buffer)],
                       Scan(p)[Len(r.buffer) + 1])
<1>1. Longer(S, p, r.buffer, c) /\ r.buffer \in Seq(S)
  BY ReadsIs
<1>2. PICK b, n, D : b = r.buffer /\ n = Len(b) /\ D = Depth(p)
  OBVIOUS
<1>3. /\ b # <<>> /\ Bracket(b[1]) /\ Nested(b, r.stack)
      /\ (r.in_string <=> Scan(b)[n].mode # "out") /\ (r.escape <=> Scan(b)[n].mode = "skip")
  BY <1>2, Zenon DEF OpenContainer, ContainerBegun
<1>4. /\ p \in Seq(S) /\ p # <<>> /\ Len(p) = n + 1 /\ n \in Nat /\ n >= 1
      /\ \A i \in 1 .. n : p[i] = b[i]
  <2>1. b \in Seq(S) /\ n = Len(b) /\ b # <<>>
    BY <1>1, <1>2, <1>3
  <2>2. n \in Nat /\ n >= 1
    BY <2>1
  <2>3. QED
    BY <1>1, <1>2, <2>2 DEF Longer
<1>5. Bracket(p[1])
  <2>1. p[1] = b[1]
    BY <1>4
  <2>2. QED
    BY <1>3, <2>1
<1>6. NestsOn(S, b, r.stack, c, p, D, n)
  BY <1>1, <1>2, <1>3, DepthIs
<1>7. PICK at, next : at = Scan(b)[n] /\ next = Scan(p)[n + 1]
  OBVIOUS
<1>8. at \in Places /\ next = After(at, c) /\ Scan(p)[n] = at
  <2>1. ScansOn(b, c, p)
    BY <1>1, <1>2, ScanOn
  <2>2. n \in 0 .. Len(b)
    BY <1>2, <1>4
  <2>3. QED
    BY <1>2, <1>7, <2>1, <2>2 DEF ScansOn
<1>9. LeadsTo(at, c, next)
  BY <1>8, LeadsIs
<1>10. D[n] = at.depth /\ D[n + 1] = next.depth
  <2>1. Depths(D, Scan(p), n + 1)
    BY <1>6 DEF NestsOn
  <2>2. n \in 0 .. n + 1 /\ n + 1 \in 0 .. n + 1
    BY <1>4
  <2>3. QED
    BY <1>7, <1>8, <2>1, <2>2 DEF Depths
<1>11. at.mode \in {"out", "in", "skip"}
  BY <1>8 DEF Places
<1>12. /\ OneMore(D, b, n, c, p) /\ Levels(D, b, n, r.stack)
       /\ Depths(D, Scan(p), n + 1) /\ \A s : Levels(D, p, n + 1, s) => Nested(p, s)
  BY <1>6 DEF NestsOn
<1>13. InContainer(S, r, c, p, D, n, at, next)
  BY <1>2, <1>3, <1>4, <1>5, <1>7, <1>9, <1>10, <1>11, <1>12, Zenon DEF InContainer
<1>14. QED
  BY <1>2, <1>7, <1>13

(* The container goes on, and the reader holds what it is to hold. *)
LEMMA ContainerTaken ==
    ASSUME NEW S, NEW x, NEW r, NEW c, NEW p, Reads(S, x, r, c, p),
           NEW D, NEW n, NEW at, NEW next, InContainer(S, r, c, p, D, n, at, next),
           NEW k, Levels(D, p, n + 1, k), NEW i, NEW e, NEW l, NEW q,
           Changed(S, q, r, p, "Container", k, i, e, l),
           i <=> next.mode # "out", e <=> next.mode = "skip"
    PROVE  Taken(S, x, r, p, q)
<1>1. /\ p \in Seq(S) /\ p # <<>> /\ n \in Nat /\ Len(p) = n + 1 /\ Bracket(p[1])
      /\ Depths(D, Scan(p), n + 1) /\ next = Scan(p)[n + 1] /\ Nested(p, k)
  BY DEF InContainer
<1>2. /\ q \in Readers(S) /\ q.buffer = p /\ q.state = "Container" /\ q.stack = k
      /\ (q.in_string <=> i) /\ (q.escape <=> e) /\ q.out = r.out /\ q.errors = r.errors
  BY DEF Changed
<1>3. OpenContainer(q)
  <2>1. (q.in_string <=> Scan(p)[Len(p)].mode # "out") /\ (q.escape <=> Scan(p)[Len(p)].mode = "skip")
    BY <1>1, <1>2
  <2>2. QED
    BY <1>1, <1>2, <2>1, Zenon DEF OpenContainer, ContainerBegun
<1>4. ~ IsContainer(p)
  <2>1. n + 1 \in 1 .. n + 1 /\ n + 1 \in 0 .. n + 1
    BY <1>1
  <2>2. Scan(p)[n + 1].depth >= 1
    BY <1>1, <2>1 DEF Depths, Levels
  <2>3. Scan(p)[n + 1].depth # 0
    BY <2>2
  <2>4. QED
    BY <1>1, <2>1, <2>3, Zenon DEF IsContainer
<1>5. ToldByBracket(p)
  BY <1>1, BracketTells
<1>6. IsWhole(x, p) <=> p = <<"ws">> \/ (IsValue(p) /\ ~ IsNumber(p))
  BY ReadsIs
<1>7. ~ IsWhole(x, p)
  BY <1>4, <1>5, <1>6 DEF ToldByBracket
<1>8. QED
  BY <1>2, <1>3, <1>7 DEF Taken, Begun

LEMMA StackChanges ==
    ASSUME NEW S, NEW a, NEW r, NEW b, NEW st, NEW k, NEW i, NEW e, NEW l,
           Changed(S, a, r, b, st, k, i, e, l), NEW h, h \in Seq(Brackets)
    PROVE  Changed(S, [a EXCEPT !.stack = h], r, b, st, h, i, e, l)
BY DEF Changed, Readers

LEMMA StackIs ==
    ASSUME NEW S, NEW r, r \in Readers(S)
    PROVE  /\ r.stack \in Seq(Brackets) /\ Len(r.stack) \in Nat
           /\ \A c : Bracket(c) => Append(r.stack, c) \in Seq(Brackets)
           /\ r.stack # <<>> => Last(r.stack) = r.stack[Len(r.stack)] /\ Front(r.stack) \in Seq(Brackets)
<1>1. PICK B : B = Brackets
  OBVIOUS
<1>2. PICK k : k = r.stack
  OBVIOUS
<1>3. k \in Seq(B)
  BY <1>1, <1>2 DEF Readers
<1>4. \A c : Bracket(c) => c \in B
  BY <1>1, Zenon DEF Bracket, Brackets
<1>5. Seq(Brackets) = Seq(B)
  BY <1>1, Zenon
<1>6. Len(k) \in Nat /\ \A c \in B : Append(k, c) \in Seq(B)
  BY <1>3
<1>7. k # <<>> => Last(k) = k[Len(k)] /\ Front(k) \in Seq(B)
  BY <1>3 DEF Last, Front
<1>8. QED
  BY <1>2, <1>3, <1>4, <1>5, <1>6, <1>7, Zenon

PopsTo(a, c, q) ==
    /\ Closing(Last(a.stack)) # c => q = fail(a)
    /\ Closing(Last(a.stack)) = c /\ Len(a.stack) = 1 => q = emit(a, a.buffer)
    /\ Closing(Last(a.stack)) = c /\ Len(a.stack) # 1 => q = [a EXCEPT !.stack = Front(a.stack)]

LEMMA PopIs ==
    ASSUME NEW a, NEW c
    PROVE  PopsTo(a, c, pop_container(a, c))
<1>1. CASE Closing(Last(a.stack)) # c
  BY <1>1, Zenon DEF PopsTo, pop_container
<1>2. CASE Closing(Last(a.stack)) = c /\ Len(a.stack) = 1
  BY <1>2, Zenon DEF PopsTo, pop_container
<1>3. CASE Closing(Last(a.stack)) = c /\ Len(a.stack) # 1
  BY <1>3, Zenon DEF PopsTo, pop_container
<1>4. QED
  BY <1>1, <1>2, <1>3, Zenon

(* A closing bracket: of the container opened last, or an error. *)
LEMMA CloseStep ==
    ASSUME NEW S, NEW x, NEW r, NEW c, NEW p, Reads(S, x, r, c, p),
           NEW D, NEW n, NEW at, NEW next, InContainer(S, r, c, p, D, n, at, next),
           at.mode = "out", Closer(c),
           NEW a, Changed(S, a, r, p, "Container", r.stack, r.in_string, r.escape, r.rest)
    PROVE  Outcome(S, x, r, p, pop_container(a, c))
<1>1. /\ p \in Seq(S) /\ p # <<>> /\ n \in Nat /\ Len(p) = n + 1 /\ Bracket(p[1])
      /\ OneMore(D, r.buffer, n, c, p) /\ Levels(D, r.buffer, n, r.stack)
      /\ Depths(D, Scan(p), n + 1) /\ D[n] = at.depth /\ D[n + 1] = next.depth
      /\ LeadsTo(at, c, next) /\ ~ r.in_string /\ ~ r.escape
  BY DEF InContainer
<1>2. D[n + 1] = D[n] - 1 /\ next.mode = "out"
  <2>1. ~ Bracket(c) /\ c # "quote"
    BY Zenon DEF Bracket, Closer, Brackets
  <2>2. next.depth = at.depth - 1 /\ next.mode = "out"
    BY <1>1, <2>1 DEF LeadsTo
  <2>3. QED
    BY <1>1, <2>2
<1>3. a.out = r.out /\ a.errors = r.errors /\ a.stack = r.stack /\ a.buffer = p
  BY DEF Changed
<1>4. PICK k : k = r.stack
  OBVIOUS
<1>5. /\ k \in Seq(Brackets) /\ Len(k) \in Nat
      /\ k # <<>> => Last(k) = k[Len(k)] /\ Front(k) \in Seq(Brackets)
  <2>1. r \in Readers(S)
    BY DEF Reads
  <2>2. QED
    BY <1>4, <2>1, StackIs
<1>6. /\ Len(k) >= 1
      /\ \E i \in 1 .. n : p[i] = k[Len(k)] /\ Pairs(D, i, n + 1)
  BY <1>1, <1>2, <1>4, <1>5, LevelEnds
<1>7. Last(k) = k[Len(k)] /\ Front(k) \in Seq(Brackets)
  <2>1. k # <<>>
    BY <1>6
  <2>2. QED
    BY <1>5, <2>1
<1>8. PICK q : q = pop_container(a, c)
  OBVIOUS
<1>9. PopsTo(a, c, q)
  BY <1>8, PopIs
<1>10. Bracketed(S, p, D)
  BY <1>1 DEF Bracketed
<1>11. CASE Closing(Last(k)) # c
  <2>1. q = fail(a)
    BY <1>3, <1>4, <1>9, <1>11 DEF PopsTo
  <2>2. q = fail(r)
    <3>1. fail(a) = Resting(a.out, a.errors + 1) /\ fail(r) = Resting(r.out, r.errors + 1)
      BY FailRests
    <3>2. QED
      BY <1>3, <2>1, <3>1
  <2>3. PICK i \in 1 .. n : p[i] = k[Len(k)] /\ Pairs(D, i, n + 1)
    BY <1>6
  <2>4. WrongAtEnd(p, D, i)
    <3>1. p[n + 1] = c
      BY <1>1 DEF OneMore
    <3>2. i \in 1 .. n + 1
      BY <1>1
    <3>3. QED
      BY <1>1, <1>7, <1>11, <2>3, <3>1, <3>2 DEF WrongAtEnd
  <2>5. Hopeless(S, p)
    BY <1>10, <2>4, WrongBracket
  <2>6. Refused(S, x, r, p, q)
    BY <2>2, <2>5, FailRefuses
  <2>7. QED
    BY <1>8, <2>6 DEF Outcome
<1>12. CASE Closing(Last(k)) = c
  <2>1. Closing(r.stack[Len(r.stack)]) = c
    BY <1>4, <1>7, <1>12
  <2>3. /\ \A i, j \in 1 .. n + 1 : Pairs(D, i, j) => p[j] = Closing(p[i])
        /\ Len(k) # 1 => Levels(D, p, n + 1, Front(k))
    BY <1>1, <1>2, <1>4, <1>5, <2>1, LevelCloses
  <2>4. CASE Len(k) = 1
    <3>1. q = emit(a, p)
      BY <1>3, <1>4, <1>9, <1>12, <2>4 DEF PopsTo
    <3>2. ClosedAtEnd(p, D)
      <4>1. D[n + 1] = 0 /\ \A i \in 1 .. n : D[i] >= 1
        BY <1>1, <1>2, <1>4, <2>4 DEF Levels
      <4>2. \A i \in 1 .. n + 1 : i < n + 1 => D[i] >= 1
        BY <1>1, <4>1
      <4>3. QED
        BY <1>1, <2>3, <4>1, <4>2 DEF ClosedAtEnd
    <3>3. ToldByBracket(p) /\ IsContainer(p)
      BY <1>1, <1>10, <3>2, BracketTells, ClosedContainer
    <3>4. IsValue(p) /\ ~ IsNumber(p) /\ p # <<"ws">>
      BY <3>3 DEF ToldByBracket
    <3>5. Ended(S, x, r, p, q)
      BY <1>3, <3>1, <3>4, EmitEnds
    <3>6. QED
      BY <1>8, <3>5 DEF Outcome
  <2>5. CASE Len(k) # 1
    <3>1. q = [a EXCEPT !.stack = Front(k)]
      BY <1>3, <1>4, <1>9, <1>12, <2>5 DEF PopsTo
    <3>2. Changed(S, q, r, p, "Container", Front(k), r.in_string, r.escape, r.rest)
      BY <1>7, <3>1, StackChanges
    <3>3. Taken(S, x, r, p, q)
      BY <1>1, <1>2, <2>3, <2>5, <3>2, ContainerTaken
    <3>4. QED
      BY <1>8, <3>3 DEF Outcome
  <2>6. QED
    BY <2>4, <2>5
<1>13. QED
  BY <1>11, <1>12

(* What consume_container() does with a byte that fits. *)
ContainerTakes(r, c, a, q) ==
    /\ r.in_string => q = StringByte(a, c, [a EXCEPT !.in_string = FALSE])
    /\ ~ r.in_string /\ c = "quote" => q = [a EXCEPT !.in_string = TRUE]
    /\ ~ r.in_string /\ Bracket(c) => q = [a EXCEPT !.stack = Append(a.stack, c)]
    /\ ~ r.in_string /\ Closer(c) => q = pop_container(a, c)
    /\ ~ r.in_string /\ c # "quote" /\ ~ Bracket(c) /\ ~ Closer(c) => q = a

LEMMA ContainerIs ==
    ASSUME NEW r, NEW c, Len(r.buffer) \in Nat, BufferSize \in Nat, ~ Len(r.buffer) >= BufferSize
    PROVE  ContainerTakes(r, c, append(r, c, r), consume_container(r, c))
<1>1. PICK a, q : a = append(r, c, r) /\ q = consume_container(r, c)
  OBVIOUS
<1>2. Len(r.buffer) < BufferSize
  OBVIOUS
<1>3. PICK s : s = StringByte(a, c, [a EXCEPT !.in_string = FALSE])
  OBVIOUS
<1>4. q = CASE Len(r.buffer) >= BufferSize -> a
            [] Len(r.buffer) < BufferSize /\ r.in_string -> s
            [] Len(r.buffer) < BufferSize /\ ~ r.in_string /\ c = "quote" ->
                   [a EXCEPT !.in_string = TRUE]
            [] Len(r.buffer) < BufferSize /\ ~ r.in_string /\ Bracket(c) ->
                 [a EXCEPT !.stack = Append(a.stack, c)]
            [] Len(r.buffer) < BufferSize /\ ~ r.in_string /\ Closer(c) -> pop_container(a, c)
            [] OTHER -> a
  BY <1>1, <1>3, Zenon DEF consume_container, Bracket, Brackets, Closer
<1>5. (Bracket(c) => c # "quote" /\ ~ Closer(c)) /\ (Closer(c) => c # "quote")
  BY Zenon DEF Bracket, Brackets, Closer
<1>6. CASE r.in_string
  <2>1. q = s
    BY <1>2, <1>4, <1>6, Zenon
  <2>2. QED
    BY <1>1, <1>3, <1>6, <2>1, Zenon DEF ContainerTakes
<1>7. CASE ~ r.in_string /\ c = "quote"
  <2>1. q = [a EXCEPT !.in_string = TRUE]
    BY <1>2, <1>4, <1>5, <1>7, Zenon
  <2>2. QED
    BY <1>1, <1>5, <1>7, <2>1, Zenon DEF ContainerTakes
<1>8. CASE ~ r.in_string /\ Bracket(c)
  <2>1. q = [a EXCEPT !.stack = Append(a.stack, c)]
    BY <1>2, <1>4, <1>5, <1>8, Zenon
  <2>2. QED
    BY <1>1, <1>5, <1>8, <2>1, Zenon DEF ContainerTakes
<1>9. CASE ~ r.in_string /\ Closer(c)
  <2>1. q = pop_container(a, c)
    BY <1>2, <1>4, <1>5, <1>9, Zenon
  <2>2. QED
    BY <1>1, <1>5, <1>9, <2>1, Zenon DEF ContainerTakes
<1>10. CASE ~ r.in_string /\ c # "quote" /\ ~ Bracket(c) /\ ~ Closer(c)
  <2>1. q = a
    BY <1>2, <1>4, <1>10, Zenon
  <2>2. QED
    BY <1>1, <1>10, <2>1, Zenon DEF ContainerTakes
<1>11. QED
  BY <1>6, <1>7, <1>8, <1>9, <1>10, Zenon

LEMMA ContainerStep ==
    ASSUME NEW S, NEW x, NEW r, NEW c, NEW p, Reads(S, x, r, c, p), OpenContainer(r)
    PROVE  Outcome(S, x, r, p, consume_container(r, c))
<1>1. PICK b, n, D, at, next : /\ b = r.buffer /\ n = Len(b) /\ D = Depth(p)
                               /\ at = Scan(b)[n] /\ next = Scan(p)[n + 1]
  OBVIOUS
<1>2. InContainer(S, r, c, p, D, n, at, next)
  BY <1>1, ContainerGoes
<1>3. /\ p \in Seq(S) /\ p # <<>> /\ n \in Nat /\ Len(p) = n + 1 /\ Bracket(p[1])
      /\ OneMore(D, b, n, c, p) /\ Levels(D, b, n, r.stack)
      /\ LeadsTo(at, c, next) /\ D[n] = at.depth /\ D[n + 1] = next.depth
      /\ at.mode \in {"out", "in", "skip"}
      /\ (r.in_string <=> at.mode # "out") /\ (r.escape <=> at.mode = "skip")
  BY <1>1, <1>2 DEF InContainer
<1>4. BufferSize \in Nat /\ Len(r.buffer) \in Nat /\ r \in Readers(S) /\ r.state = "Container"
  BY <1>1, <1>3, ReadsIs DEF Reads, OpenContainer
<1>5. p # <<"ws">>
  BY <1>3, BracketTells DEF ToldByBracket
<1>6. PICK a, q : a = append(r, c, r) /\ q = consume_container(r, c)
  OBVIOUS
<1>7. CASE Len(r.buffer) >= BufferSize
  <2>1. ~ Len(r.buffer) < BufferSize
    BY <1>4, <1>7
  <2>2. q = a
    BY <1>6, <1>7, <2>1, Zenon DEF consume_container
  <2>3. QED
    BY <1>5, <1>6, <1>7, <2>2, AppendRefuses
<1>8. CASE ~ Len(r.buffer) >= BufferSize
  <2>1. Changed(S, a, r, p, "Container", r.stack, r.in_string, r.escape, r.rest)
    BY <1>4, <1>6, <1>8, AppendTakes
  <2>2. ContainerTakes(r, c, a, q)
    BY <1>4, <1>6, <1>8, ContainerIs
  <2>3. a.stack = r.stack /\ (a.escape <=> r.escape)
    BY <2>1 DEF Changed
  <2>4. next.depth = at.depth => Levels(D, p, n + 1, r.stack)
    BY <1>3, SameLevel
  <2>5. CASE r.in_string
    <3>1. next.depth = at.depth /\ next.mode = IF at.mode = "skip" THEN "in"
                                               ELSE IF c = "escape" THEN "skip"
                                               ELSE IF c = "quote" THEN "out" ELSE "in"
      BY <1>3, <2>5 DEF LeadsTo
    <3>2. PICK closed : closed = [a EXCEPT !.in_string = FALSE]
      OBVIOUS
    <3>3. q = StringByte(a, c, closed)
      BY <2>2, <2>5, <3>2, Zenon DEF ContainerTakes
    <3>4. PICK i, e : /\ (i <=> next.mode # "out") /\ (e <=> next.mode = "skip")
                      /\ Changed(S, q, r, p, "Container", r.stack, i, e, r.rest)
      <4>1. CASE r.escape
        <5>1. q = [a EXCEPT !.escape = FALSE]
          BY <2>3, <3>3, <4>1, StringByteIs
        <5>2. Changed(S, q, r, p, "Container", r.stack, r.in_string, FALSE, r.rest)
          BY <2>1, <5>1, EscapeChanges
        <5>3. next.mode = "in"
          BY <1>3, <3>1, <4>1
        <5>4. QED
          BY <2>5, <5>2, <5>3
      <4>2. CASE ~ r.escape /\ c = "escape"
        <5>1. q = [a EXCEPT !.escape = TRUE]
          BY <2>3, <3>3, <4>2, StringByteIs
        <5>2. Changed(S, q, r, p, "Container", r.stack, r.in_string, TRUE, r.rest)
          BY <2>1, <5>1, EscapeChanges
        <5>3. next.mode = "skip"
          BY <1>3, <3>1, <4>2
        <5>4. QED
          BY <2>5, <5>2, <5>3
      <4>3. CASE ~ r.escape /\ c = "quote"
        <5>1. q = closed
          BY <2>3, <3>3, <4>3, StringByteIs
        <5>2. Changed(S, q, r, p, "Container", r.stack, FALSE, r.escape, r.rest)
          BY <2>1, <3>2, <5>1, EscapeChanges
        <5>3. next.mode = "out"
          BY <1>3, <3>1, <4>3
        <5>4. QED
          BY <4>3, <5>2, <5>3
      <4>4. CASE ~ r.escape /\ c \notin {"escape", "quote"}
        <5>1. q = a
          BY <2>3, <3>3, <4>4, StringByteIs
        <5>2. next.mode = "in"
          BY <1>3, <3>1, <4>4
        <5>3. QED
          BY <2>1, <2>5, <4>4, <5>1, <5>2
      <4>5. QED
        BY <4>1, <4>2, <4>3, <4>4
    <3>5. Taken(S, x, r, p, q)
      BY <1>2, <2>4, <3>1, <3>4, ContainerTaken
    <3>6. QED
      BY <1>6, <3>5 DEF Outcome
  <2>6. CASE ~ r.in_string
    <3>1. at.mode = "out" /\ ~ r.escape /\ next.mode = IF c = "quote" THEN "in" ELSE "out"
      BY <1>3, <2>6 DEF LeadsTo
    <3>2. CASE c = "quote"
      <4>1. q = [a EXCEPT !.in_string = TRUE]
        BY <2>2, <2>6, <3>2, Zenon DEF ContainerTakes
      <4>2. Changed(S, q, r, p, "Container", r.stack, TRUE, r.escape, r.rest)
        BY <2>1, <4>1, EscapeChanges
      <4>3. next.mode = "in" /\ next.depth = at.depth
        BY <1>3, <3>1, <3>2 DEF LeadsTo
      <4>4. Taken(S, x, r, p, q)
        <5>1. next.mode # "out" /\ next.mode # "skip"
          BY <4>3
        <5>2. PICK i, e : /\ (i <=> next.mode # "out") /\ (e <=> next.mode = "skip")
                          /\ Changed(S, q, r, p, "Container", r.stack, i, e, r.rest)
          BY <3>1, <4>2, <5>1
        <5>3. Levels(D, p, n + 1, r.stack)
          BY <2>4, <4>3
        <5>4. QED
          BY <1>2, <5>2, <5>3, ContainerTaken
      <4>5. QED
        BY <1>6, <4>4 DEF Outcome
    <3>3. CASE Bracket(c)
      <4>1. q = [a EXCEPT !.stack = Append(r.stack, c)]
        BY <2>2, <2>3, <2>6, <3>3, Zenon DEF ContainerTakes
      <4>2. Append(r.stack, c) \in Seq(Brackets) /\ r.stack \in Seq(Brackets) /\ c \in Brackets
        BY <1>4, <3>3, StackIs DEF Bracket
      <4>3. Changed(S, q, r, p, "Container", Append(r.stack, c), r.in_string, r.escape, r.rest)
        BY <2>1, <4>1, <4>2, StackChanges
      <4>4. next.mode = "out" /\ next.depth = at.depth + 1
        BY <1>3, <3>1, <3>3 DEF LeadsTo
      <4>5. Levels(D, p, n + 1, Append(r.stack, c))
        BY <1>3, <4>2, <4>4, LevelOpens
      <4>6. Taken(S, x, r, p, q)
        BY <1>2, <2>6, <3>1, <4>3, <4>4, <4>5, ContainerTaken
      <4>7. QED
        BY <1>6, <4>6 DEF Outcome
    <3>4. CASE Closer(c)
      <4>1. q = pop_container(a, c)
        BY <2>2, <2>6, <3>4, Zenon DEF ContainerTakes
      <4>2. QED
        BY <1>2, <1>6, <2>1, <3>1, <3>4, <4>1, CloseStep
    <3>5. CASE c # "quote" /\ ~ Bracket(c) /\ ~ Closer(c)
      <4>1. q = a
        BY <2>2, <2>6, <3>5, Zenon DEF ContainerTakes
      <4>2. next.mode = "out" /\ next.depth = at.depth
        BY <1>3, <3>1, <3>5 DEF LeadsTo
      <4>3. Taken(S, x, r, p, q)
        BY <1>2, <2>1, <2>4, <2>6, <3>1, <4>1, <4>2, ContainerTaken
      <4>4. QED
        BY <1>6, <4>3 DEF Outcome
    <3>6. QED
      BY <3>2, <3>3, <3>4, <3>5
  <2>7. QED
    BY <2>5, <2>6
<1>9. QED
  BY <1>7, <1>8

-----------------------------------------------------------------------------
(* Between two values: the first byte of the next one. *)
IdleTakes(r, c, q) ==
    /\ c = "ws" => q = r
    /\ Bracket(c) => q = append(r, c, [r EXCEPT !.state = "Container", !.stack = <<c>>])
    /\ c = "quote" => q = append(r, c, [r EXCEPT !.state = "StringValue"])
    /\ c \in Digits \cup {"-"} => q = append(r, c, [r EXCEPT !.state = "NumberValue"])
    /\ \A l \in Literals : c = Head(l) =>
          q = consume_literal([r EXCEPT !.state = "LiteralValue", !.rest = l], c)
    /\ \/ c = "ws" \/ Bracket(c) \/ c = "quote" \/ c \in Digits \cup {"-"}
       \/ \E l \in Literals : c = Head(l)
       \/ q = fail(r)

LEMMA IdleIs ==
    ASSUME NEW r, NEW c
    PROVE  IdleTakes(r, c, consume_idle(r, c))
<1>1. PICK q, h : /\ q = consume_idle(r, c) /\ h = CHOOSE l \in Literals : c = Head(l)
  OBVIOUS
<1>2. PICK qb, qs, qn, ql :
        /\ qb = append(r, c, [r EXCEPT !.state = "Container", !.stack = <<c>>])
        /\ qs = append(r, c, [r EXCEPT !.state = "StringValue"])
        /\ qn = append(r, c, [r EXCEPT !.state = "NumberValue"])
        /\ ql = consume_literal([r EXCEPT !.state = "LiteralValue", !.rest = h], c)
  OBVIOUS
<1>3. q = CASE c = "ws" -> r
            [] Bracket(c) -> qb
            [] c = "quote" -> qs
            [] c \in Digits \cup {"-"} -> qn
            [] \E l \in Literals : c = Head(l) -> ql
            [] OTHER -> fail(r)
  BY <1>1, <1>2, Zenon DEF consume_idle, Bracket, Brackets
<1>4. /\ Bracket(c) => c # "ws" /\ c # "quote" /\ c \notin Digits \cup {"-"}
      /\ c \in Digits \cup {"-"} => c # "ws" /\ c # "quote"
  BY Zenon DEF Bracket, Brackets, Digits
<1>5. \A l \in Literals : c = Head(l) =>
          c # "ws" /\ ~ Bracket(c) /\ c # "quote" /\ c \notin Digits \cup {"-"}
  BY LiteralsAssumption, Zenon DEF Bracket, Brackets
<1>6. CASE c = "ws"
  <2>1. q = r
    BY <1>3, <1>4, <1>5, <1>6, Zenon
  <2>2. QED
    BY <1>1, <1>4, <1>5, <1>6, <2>1, Zenon DEF IdleTakes
<1>7. CASE Bracket(c)
  <2>1. q = qb
    BY <1>3, <1>4, <1>5, <1>7, Zenon
  <2>2. QED
    BY <1>1, <1>2, <1>4, <1>5, <1>7, <2>1, Zenon DEF IdleTakes
<1>8. CASE c = "quote"
  <2>1. q = qs
    BY <1>3, <1>4, <1>5, <1>8, Zenon
  <2>2. QED
    BY <1>1, <1>2, <1>4, <1>5, <1>8, <2>1, Zenon DEF IdleTakes
<1>9. CASE c \in Digits \cup {"-"}
  <2>1. q = qn
    BY <1>3, <1>4, <1>5, <1>9, Zenon
  <2>2. QED
    BY <1>1, <1>2, <1>4, <1>5, <1>9, <2>1, Zenon DEF IdleTakes
<1>10. CASE \E l \in Literals : c = Head(l)
  <2>1. q = ql
    BY <1>3, <1>4, <1>5, <1>10, Zenon
  <2>2. h \in Literals /\ c = Head(h)
    BY <1>1, <1>10
  <2>3. \A l \in Literals : c = Head(l) => l = h
    BY <2>2, LiteralsAssumption, Zenon
  <2>4. \A l \in Literals : c = Head(l) =>
           q = consume_literal([r EXCEPT !.state = "LiteralValue", !.rest = l], c)
    BY <1>2, <2>1, <2>3, Zenon
  <2>5. QED
    BY <1>1, <1>5, <1>10, <2>4, Zenon DEF IdleTakes
<1>11. CASE /\ c # "ws" /\ ~ Bracket(c) /\ c # "quote" /\ c \notin Digits \cup {"-"}
            /\ ~ \E l \in Literals : c = Head(l)
  <2>1. q = fail(r)
    BY <1>3, <1>11, Zenon
  <2>2. QED
    BY <1>1, <1>11, <2>1, Zenon DEF IdleTakes
<1>12. QED
  BY <1>6, <1>7, <1>8, <1>9, <1>10, <1>11, Zenon

(* p is the one byte c. *)
OneByte(S, c, p) ==
    /\ p \in Seq(S) /\ p # <<>> /\ Len(p) = 1 /\ p[1] = c /\ c \in S
    /\ Scan(p)[0] = Outside /\ LeadsTo(Outside, c, Scan(p)[1])

LEMMA OneByteIs ==
    ASSUME NEW S, NEW x, NEW r, NEW c, NEW p, Reads(S, x, r, c, p), OpenIdle(r)
    PROVE  OneByte(S, c, p)
<1>1. r.buffer = <<>> /\ c \in S /\ p = Append(r.buffer, c)
  BY DEF Reads, OpenIdle
<1>2. p \in Seq(S) /\ p # <<>> /\ Len(p) = 1 /\ p[1] = c
  BY <1>1
<1>3. Scan(p)[0] = Outside /\ Scan(p)[1] = After(Scan(p)[0], p[1])
  <2>1. /\ Scan(p)[0] = Outside
        /\ \A i \in 1 .. Len(p) : Scan(p)[i] = After(Scan(p)[i - 1], p[i])
    BY <1>2, ScanIs
  <2>2. 1 \in 1 .. Len(p) /\ 1 - 1 = 0
    BY <1>2
  <2>3. QED
    BY <2>1, <2>2
<1>4. Outside \in Places
  BY DEF Outside, Places
<1>5. LeadsTo(Outside, c, Scan(p)[1])
  BY <1>2, <1>3, <1>4, LeadsIs
<1>6. QED
  BY <1>1, <1>2, <1>3, <1>5 DEF OneByte

(* append() of the first byte, which opens a value. *)
LEMMA Opens ==
    ASSUME NEW S, NEW r, r \in Readers(S), NEW st, st \in States
    PROVE  Changed(S, [r EXCEPT !.state = st], r, r.buffer, st, r.stack,
                   r.in_string, r.escape, r.rest)
BY DEF Changed, Readers

LEMMA OpensAs ==
    ASSUME NEW S, NEW x, NEW r, NEW c, NEW p, Reads(S, x, r, c, p), ~ Len(r.buffer) >= BufferSize,
           NEW st, NEW k, NEW next,
           Changed(S, next, r, r.buffer, st, k, r.in_string, r.escape, r.rest)
    PROVE  Changed(S, append(r, c, next), r, p, st, k, r.in_string, r.escape, r.rest)
<1>1. p \in Seq(S) /\ p = Append(r.buffer, c)
  <2>1. Longer(S, p, r.buffer, c)
    BY ReadsIs
  <2>2. QED
    BY <2>1 DEF Longer, Reads
<1>2. append(r, c, next) = [next EXCEPT !.buffer = p]
  BY <1>1 DEF append
<1>3. QED
  BY <1>1, <1>2 DEF Changed, Readers

LEMMA NestsFirst ==
    ASSUME NEW S, NEW c, NEW p, OneByte(S, c, p), Bracket(c)
    PROVE  Nested(p, <<c>>)
<1>1. /\ p \in Seq(S) /\ p # <<>> /\ Len(p) = 1 /\ p[1] = c /\ c \in S
      /\ Scan(p)[0] = Outside /\ LeadsTo(Outside, c, Scan(p)[1])
  BY DEF OneByte
<1>2. Scan(p)[1].depth = 1 /\ Scan(p)[0].depth = 0
  BY <1>1 DEF LeadsTo, Outside
<1>3. PICK D : D = Depth(p)
  OBVIOUS
<1>4. D[0] = 0 /\ D[1] = 1 /\ Depths(D, Scan(p), Len(p))
  BY <1>1, <1>2, <1>3 DEF Depth, Depths
<1>5. PICK k : k = <<c>>
  OBVIOUS
<1>6. Len(k) = 1 /\ k[1] = c
  BY <1>5
<1>7. LevelAt(D, p, 1, 1, 1, c)
  BY <1>1, <1>4 DEF LevelAt
<1>8. \A i, j \in 1 .. 1 : ~ Pairs(D, i, j)
  BY DEF Pairs
<1>9. Levels(D, p, 1, k)
  <2>1. \A d \in 1 .. Len(k) : \E i \in 1 .. 1 : LevelAt(D, p, 1, i, d, k[d])
    <3>1. \A d \in 1 .. Len(k) : d = 1
      BY <1>6
    <3>2. QED
      BY <1>6, <1>7, <3>1
  <2>2. Len(k) = D[1] /\ \A i \in 1 .. 1 : D[i] >= 1
    BY <1>4, <1>6
  <2>3. QED
    BY <1>8, <2>1, <2>2 DEF Levels
<1>10. QED
  BY <1>1, <1>4, <1>5, <1>9, NestedLevels

LEMMA IdleStep ==
    ASSUME NEW S, NEW x, NEW r, NEW c, NEW p, Reads(S, x, r, c, p), OpenIdle(r)
    PROVE  Outcome(S, x, r, p, consume_idle(r, c))
<1>1. PICK q : q = consume_idle(r, c)
  OBVIOUS
<1>2. IdleTakes(r, c, q)
  BY <1>1, IdleIs
<1>3. OneByte(S, c, p)
  BY OneByteIs
<1>4. /\ p \in Seq(S) /\ p # <<>> /\ Len(p) = 1 /\ p[1] = c /\ c \in S
      /\ LeadsTo(Outside, c, Scan(p)[1])
  BY <1>3 DEF OneByte
<1>5. /\ r \in Readers(S) /\ r.buffer = <<>> /\ r.state = "Idle" /\ ~ r.in_string /\ ~ r.escape
      /\ p = Append(r.buffer, c) /\ x \in DOMAIN Setups /\ x = setup /\ Setups[x].reader = "json"
  BY DEF Reads, OpenIdle
<1>6. /\ r.out \in Seq(Seq(S)) /\ r.errors \in Nat
      /\ IsWhole(x, p) <=> p = <<"ws">> \/ (IsValue(p) /\ ~ IsNumber(p))
      /\ MessagesIn(x, p) = IF p = <<"ws">> THEN <<>> ELSE <<p>>
  BY ReadsIs
<1>7. ToldByHead(p)
  BY <1>4, HeadTells
<1>8. c # "ws" => p # <<"ws">>
  <2>1. <<"ws">>[1] = "ws"
    OBVIOUS
  <2>2. QED
    BY <1>4, <2>1
<1>9. CASE c = "ws"
  <2>1. q = r
    BY <1>2, <1>9, Zenon DEF IdleTakes
  <2>2. p = <<"ws">>
    BY <1>5, <1>9
  <2>3. r.out \o <<>> = r.out
    <3>1. PICK M, o : M = Seq(S) /\ o = r.out
      OBVIOUS
    <3>2. o \in Seq(M)
      BY <1>6, <3>1
    <3>3. QED
      BY <3>1, <3>2
  <2>4. Ended(S, x, r, p, q)
    BY <1>5, <1>6, <2>1, <2>2, <2>3 DEF Ended, RestsWith
  <2>5. QED
    BY <1>1, <2>4 DEF Outcome
<1>10. CASE Bracket(c)
  <2>1. PICK k : k = <<c>>
    OBVIOUS
  <2>2. PICK next : next = [r EXCEPT !.state = "Container", !.stack = k]
    OBVIOUS
  <2>3. q = append(r, c, next)
    BY <1>2, <1>10, <2>1, <2>2, Zenon DEF IdleTakes
  <2>4. c # "ws"
    BY <1>10, Zenon DEF Bracket, Brackets
  <2>5. CASE Len(r.buffer) >= BufferSize
    BY <1>1, <1>8, <2>3, <2>4, <2>5, AppendRefuses
  <2>6. CASE ~ Len(r.buffer) >= BufferSize
    <3>1. k \in Seq(Brackets)
      BY <1>10, <2>1 DEF Bracket
    <3>2. Changed(S, next, r, r.buffer, "Container", k, r.in_string, r.escape, r.rest)
      <4>1. PICK s : s = [r EXCEPT !.state = "Container"]
        OBVIOUS
      <4>2. Changed(S, s, r, r.buffer, "Container", r.stack, r.in_string, r.escape, r.rest)
        <5>1. "Container" \in States
          BY DEF States
        <5>2. QED
          BY <1>5, <4>1, <5>1, Opens
      <4>3. next = [s EXCEPT !.stack = k]
        BY <1>5, <2>2, <4>1 DEF Readers
      <4>4. QED
        BY <3>1, <4>2, <4>3, StackChanges
    <3>3. Changed(S, q, r, p, "Container", k, r.in_string, r.escape, r.rest)
      BY <2>3, <2>6, <3>2, OpensAs
    <3>4. /\ q \in Readers(S) /\ q.buffer = p /\ q.state = "Container" /\ q.stack = k
          /\ ~ q.in_string /\ ~ q.escape /\ q.errors = r.errors /\ q.out = r.out
      BY <1>5, <3>3 DEF Changed
    <3>5. Scan(p)[1].mode = "out" /\ Scan(p)[1].depth = 1
      BY <1>4, <1>10 DEF LeadsTo, Outside
    <3>6. Nested(p, k) /\ Bracket(p[1])
      BY <1>3, <1>4, <1>10, <2>1, NestsFirst
    <3>7. OpenContainer(q)
      <4>1. /\ q.in_string <=> Scan(p)[Len(p)].mode # "out"
            /\ q.escape <=> Scan(p)[Len(p)].mode = "skip"
        BY <1>4, <3>4, <3>5
      <4>2. QED
        BY <1>4, <3>4, <3>6, <4>1, Zenon DEF OpenContainer, ContainerBegun
    <3>8. ~ IsWhole(x, p)
      <4>1. ToldByBracket(p)
        BY <1>4, <3>6, BracketTells
      <4>2. ~ IsContainer(p)
        <5>1. 1 \in 1 .. Len(p) /\ Scan(p)[1].depth # 0 /\ 1 = Len(p)
          BY <1>4, <3>5
        <5>2. QED
          BY <5>1, Zenon DEF IsContainer
      <4>3. QED
        BY <1>6, <4>1, <4>2 DEF ToldByBracket
    <3>9. Taken(S, x, r, p, q)
      BY <3>4, <3>7, <3>8 DEF Taken, Begun
    <3>10. QED
      BY <1>1, <3>9 DEF Outcome
  <2>7. QED
    BY <2>5, <2>6
<1>11. CASE c = "quote" \/ c \in Digits \cup {"-"}
  <2>1. PICK st : st = IF c = "quote" THEN "StringValue" ELSE "NumberValue"
    OBVIOUS
  <2>2. PICK next : next = [r EXCEPT !.state = st]
    OBVIOUS
  <2>3. q = append(r, c, next)
    <3>1. CASE c = "quote"
      BY <1>2, <2>1, <2>2, <3>1, Zenon DEF IdleTakes
    <3>2. CASE c # "quote" /\ c \in Digits \cup {"-"}
      BY <1>2, <2>1, <2>2, <3>2, Zenon DEF IdleTakes
    <3>3. QED
      BY <1>11, <3>1, <3>2
  <2>4. c # "ws" /\ (c \in Digits \cup {"-"} => c # "quote" /\ c \in NumberBytes)
    BY <1>11 DEF Digits, NumberBytes
  <2>5. CASE Len(r.buffer) >= BufferSize
    BY <1>1, <1>8, <2>3, <2>4, <2>5, AppendRefuses
  <2>6. CASE ~ Len(r.buffer) >= BufferSize
    <3>1. Changed(S, next, r, r.buffer, st, r.stack, r.in_string, r.escape, r.rest)
      <4>1. st \in States
        BY <2>1 DEF States
      <4>2. QED
        BY <1>5, <2>2, <4>1, Opens
    <3>2. Changed(S, q, r, p, st, r.stack, r.in_string, r.escape, r.rest)
      BY <2>3, <2>6, <3>1, OpensAs
    <3>3. /\ q \in Readers(S) /\ q.buffer = p /\ q.state = st
          /\ ~ q.in_string /\ ~ q.escape /\ q.errors = r.errors /\ q.out = r.out
      BY <1>5, <3>2 DEF Changed
    <3>4. Begun(q) /\ ~ IsWhole(x, p)
      <4>1. CASE c = "quote"
        <5>1. Scan(p)[1].mode = "in"
          BY <1>4, <4>1 DEF LeadsTo, Outside
        <5>2. StringBegun(p, q.escape)
          <6>1. \A i \in 1 .. Len(p) : i = 1
            BY <1>4
          <6>2. QED
            BY <1>4, <3>3, <4>1, <5>1, <6>1 DEF StringBegun
        <5>3. OpenString(q)
          BY <2>1, <3>3, <4>1, <5>2 DEF OpenString
        <5>4. ~ IsString(p)
          BY <1>4 DEF IsString
        <5>5. QED
          BY <1>4, <1>6, <1>7, <1>8, <2>4, <4>1, <5>3, <5>4 DEF ToldByHead, Begun
      <4>2. CASE c \in Digits \cup {"-"}
        <5>1. NumberBegun(p)
          <6>1. \A i \in 1 .. Len(p) : i = 1
            BY <1>4
          <6>2. QED
            BY <1>4, <2>4, <4>2, <6>1 DEF NumberBegun
        <5>2. OpenNumber(q)
          BY <2>1, <2>4, <3>3, <4>2, <5>1 DEF OpenNumber
        <5>3. IsValue(p) <=> IsNumber(p)
          BY <1>4, <1>7, <4>2, Zenon DEF ToldByHead
        <5>4. QED
          BY <1>6, <1>8, <2>4, <5>2, <5>3 DEF Begun
      <4>3. QED
        BY <1>11, <4>1, <4>2
    <3>5. Taken(S, x, r, p, q)
      BY <3>3, <3>4 DEF Taken
    <3>6. QED
      BY <1>1, <3>5 DEF Outcome
  <2>7. QED
    BY <2>5, <2>6
<1>12. CASE \E l \in Literals : c = Head(l)
  <2>1. PICK l \in Literals : c = Head(l)
    BY <1>12
  <2>2. l \in Seq(STRING) /\ l # <<>>
    BY LiteralsAssumption, Zenon
  <2>3. PICK s : s = [r EXCEPT !.state = "LiteralValue", !.rest = l]
    OBVIOUS
  <2>4. q = consume_literal(s, c)
    BY <1>2, <2>1, <2>3, Zenon DEF IdleTakes
  <2>5. /\ s \in Readers(S) /\ s.buffer = <<>> /\ s.state = "LiteralValue" /\ s.rest = l
        /\ s.out = r.out /\ s.errors = r.errors
    BY <1>5, <2>2, <2>3 DEF Readers, States
  <2>6. Reads(S, x, s, c, p)
    BY <1>4, <1>5, <2>5 DEF Reads
  <2>7. s.buffer \o s.rest \in Literals
    <3>1. <<>> \o l = l
      BY <2>2
    <3>2. QED
      BY <2>5, <3>1
  <2>8. Outcome(S, x, s, p, q)
    BY <2>1, <2>2, <2>4, <2>5, <2>6, <2>7, LiteralStep
  <2>9. QED
    BY <1>1, <2>5, <2>8 DEF Outcome, Taken, Ended, Refused
<1>13. CASE /\ c # "ws" /\ ~ Bracket(c) /\ c # "quote" /\ c \notin Digits \cup {"-"}
            /\ ~ \E l \in Literals : c = Head(l)
  <2>1. q = fail(r)
    BY <1>2, <1>13, Zenon DEF IdleTakes
  <2>2. ASSUME NEW t \in Seq(S) PROVE p \o t # <<"ws">> /\ ~ IsValue(p \o t)
    <3>1. PICK m : m = p \o t
      OBVIOUS
    <3>2. GoesOn(S, p, t, m)
      BY <1>4, <2>2, <3>1, LongerIs
    <3>3. m \in Seq(S) /\ m # <<>> /\ m[1] = c
      BY <1>4, <3>2 DEF GoesOn
    <3>4. m # <<"ws">>
      <4>1. <<"ws">>[1] = "ws"
        OBVIOUS
      <4>2. QED
        BY <1>13, <3>3, <4>1
    <3>5. m \notin Literals
      <4>1. Head(m) = m[1]
        BY <3>3
      <4>2. QED
        BY <1>13, <3>3, <4>1
    <3>6. ToldByHead(m)
      BY <3>3, HeadTells
    <3>7. ~ IsValue(m)
      BY <1>13, <3>3, <3>5, <3>6, Zenon DEF ToldByHead, Bracket, Brackets
    <3>8. QED
      BY <3>1, <3>4, <3>7
  <2>3. Hopeless(S, p)
    BY <1>4, <2>2 DEF Hopeless
  <2>4. Refused(S, x, r, p, q)
    BY <2>1, <2>3, FailRefuses
  <2>5. QED
    BY <1>1, <2>4 DEF Outcome
<1>14. QED
  BY <1>9, <1>10, <1>11, <1>12, <1>13

-----------------------------------------------------------------------------
(* What is emitted are values; after an error the stream does not fit.      *)
Valued(ms) == \A i \in 1 .. Len(ms) : IsValue(ms[i])

LongIn(ms, n) == \E i \in 1 .. Len(ms) : Len(ms[i]) > n

LEMMA JoinValued ==
    ASSUME NEW M, NEW a, a \in Seq(M), NEW b, b \in Seq(M), Valued(a), Valued(b)
    PROVE  Valued(a \o b)
<1>1. PICK t : t = a \o b
  OBVIOUS
<1>2. Completes(t, a, b, Len(a), Len(b))
  BY <1>1, JoinIs
<1>3. PICK n \in Nat, k \in Nat : n = Len(a) /\ k = Len(b) /\ Len(t) = n + k
  BY <1>2 DEF Completes
<1>4. ASSUME NEW i \in 1 .. n + k PROVE IsValue(t[i])
  <2>1. CASE i <= n
    BY <1>2, <1>3, <2>1 DEF Completes, Valued
  <2>2. CASE i > n
    <3>1. PICK j : j = i - n
      OBVIOUS
    <3>2. j \in 1 .. k /\ i = n + j
      BY <1>3, <2>2, <3>1
    <3>3. t[i] = b[j]
      BY <1>2, <1>3, <3>2 DEF Completes
    <3>4. QED
      BY <1>3, <3>2, <3>3 DEF Valued
  <2>3. QED
    BY <1>3, <2>1, <2>2
<1>5. QED
  BY <1>1, <1>3, <1>4 DEF Valued

LEMMA JoinLong ==
    ASSUME NEW M, NEW a, a \in Seq(M), NEW b, b \in Seq(M), NEW n, LongIn(a, n) \/ LongIn(b, n)
    PROVE  LongIn(a \o b, n)
<1>1. PICK t : t = a \o b
  OBVIOUS
<1>2. Completes(t, a, b, Len(a), Len(b))
  BY <1>1, JoinIs
<1>3. PICK l \in Nat, k \in Nat : l = Len(a) /\ k = Len(b) /\ Len(t) = l + k
  BY <1>2 DEF Completes
<1>4. CASE LongIn(a, n)
  <2>1. PICK i \in 1 .. l : Len(a[i]) > n
    BY <1>3, <1>4 DEF LongIn
  <2>2. t[i] = a[i] /\ i \in 1 .. l + k
    BY <1>2, <1>3 DEF Completes
  <2>3. QED
    BY <1>1, <1>3, <2>1, <2>2 DEF LongIn
<1>5. CASE LongIn(b, n)
  <2>1. PICK i \in 1 .. k : Len(b[i]) > n
    BY <1>3, <1>5 DEF LongIn
  <2>2. PICK j : j = l + i
    OBVIOUS
  <2>3. j \in 1 .. l + k
    BY <1>3, <2>2
  <2>4. t[j] = b[i]
    BY <1>2, <1>3, <2>2 DEF Completes
  <2>5. QED
    BY <1>1, <1>3, <2>1, <2>3, <2>4 DEF LongIn
<1>6. QED
  BY <1>4, <1>5

LEMMA HopelessIs ==
    ASSUME NEW S, NEW m, m \in Seq(S), Hopeless(S, m)
    PROVE  m # <<>> /\ m # <<"ws">> /\ ~ IsValue(m) /\ ~ IsNumber(m)
<1>1. m \o <<>> = m /\ <<>> \in Seq(S)
  BY EmptySeq
<1>2. m # <<>> /\ m # <<"ws">> /\ ~ IsValue(m)
  BY <1>1 DEF Hopeless
<1>3. QED
  BY <1>2 DEF IsValue

LEMMA HopelessGoes ==
    ASSUME NEW S, NEW m, m \in Seq(S), Hopeless(S, m), NEW c, c \in S
    PROVE  Hopeless(S, Append(m, c))
<1>1. PICK p : p = Append(m, c)
  OBVIOUS
<1>2. p \in Seq(S) /\ p # <<>>
  BY <1>1
<1>3. ASSUME NEW t \in Seq(S) PROVE p \o t # <<"ws">> /\ ~ IsValue(p \o t)
  <2>1. PICK u : u = <<c>> \o t
    OBVIOUS
  <2>2. u \in Seq(S) /\ p \o t = m \o u
    BY <1>1, <2>1
  <2>3. QED
    BY <2>2 DEF Hopeless
<1>4. QED
  BY <1>1, <1>2, <1>3 DEF Hopeless

(* An error was made for something. *)
Spoilt(S, x, cut) ==
    \/ LongIn(cut.messages, Setups[x].buffer)
    \/ Len(cut.open) > Setups[x].buffer
    \/ Hopeless(S, cut.open)

LEMMA SpoiltIs ==
    ASSUME NEW S, NEW x, x \in DOMAIN Setups, NEW cut, cut \in Cuts(S), Spoilt(S, x, cut)
    PROVE  ~ Fits(x, cut)
<1>1. PICK n \in Nat : n = Setups[x].buffer
  BY SetupsAssumption
<1>2. SUFFICES ASSUME Fits(x, cut) PROVE FALSE
  OBVIOUS
<1>3. cut.open = <<>> /\ \A i \in 1 .. Len(cut.messages) : Len(cut.messages[i]) <= n
  BY <1>1, <1>2 DEF Fits
<1>4. cut.messages \in Seq(Seq(S)) /\ cut.open \in Seq(S)
  BY DEF Cuts
<1>5. ~ LongIn(cut.messages, n)
  <2>1. ASSUME NEW i \in 1 .. Len(cut.messages) PROVE ~ Len(cut.messages[i]) > n
    <3>1. cut.messages[i] \in Seq(S)
      <4>1. PICK M, o : M = Seq(S) /\ o = cut.messages
        OBVIOUS
      <4>2. o \in Seq(M) /\ i \in 1 .. Len(o)
        BY <1>4, <4>1
      <4>3. o[i] \in M
        BY <4>2
      <4>4. QED
        BY <4>1, <4>3
    <3>2. Len(cut.messages[i]) \in Nat
      BY <3>1
    <3>3. QED
      BY <1>3, <3>2
  <2>2. QED
    BY <2>1 DEF LongIn
<1>6. ~ Len(cut.open) > n
  BY <1>3
<1>7. ~ Hopeless(S, cut.open)
  BY <1>3 DEF Hopeless
<1>8. QED
  BY <1>1, <1>5, <1>6, <1>7 DEF Spoilt

(* AddByte() of JSON. *)
Adds(x, e, c, p, next) ==
    /\ p = <<"ws">> => next.open = <<>> /\ next.messages = e.messages
    /\ p # <<"ws">> /\ IsValue(p) /\ ~ IsNumber(p) =>
         next.open = <<>> /\ next.messages = e.messages \o <<p>>
    /\ p # <<"ws">> /\ ~ (IsValue(p) /\ ~ IsNumber(p)) =>
         next.open = p /\ next.messages = e.messages

LEMMA AddsIs ==
    ASSUME NEW S, NEW x, x \in DOMAIN Setups, Setups[x].reader = "json",
           NEW e, e \in Cuts(S), NEW c, NEW p, p = Append(e.open, c)
    PROVE  Adds(x, e, c, p, AddByte(x, e, c))
<1>1. PICK next : next = AddByte(x, e, c)
  OBVIOUS
<1>2. next = IF IsWhole(x, p) THEN [open |-> <<>>, messages |-> e.messages \o MessagesIn(x, p)]
             ELSE [open |-> p, messages |-> e.messages]
  BY <1>1, Zenon DEF AddByte
<1>3. /\ IsWhole(x, p) <=> p = <<"ws">> \/ (IsValue(p) /\ ~ IsNumber(p))
      /\ MessagesIn(x, p) = IF p = <<"ws">> THEN <<>> ELSE <<p>>
  BY DEF IsWhole, MessagesIn
<1>4. e.messages \o <<>> = e.messages
  <2>1. PICK M, o : M = Seq(S) /\ o = e.messages
    OBVIOUS
  <2>2. o \in Seq(M)
    BY <2>1 DEF Cuts
  <2>3. QED
    BY <2>1, <2>2
<1>5. CASE p = <<"ws">>
  <2>1. next = [open |-> <<>>, messages |-> e.messages]
    BY <1>2, <1>3, <1>4, <1>5
  <2>2. QED
    BY <1>1, <1>5, <2>1 DEF Adds
<1>6. CASE p # <<"ws">> /\ IsValue(p) /\ ~ IsNumber(p)
  <2>1. PICK ms : ms = e.messages \o <<p>>
    OBVIOUS
  <2>2. next = [open |-> <<>>, messages |-> ms]
    BY <1>2, <1>3, <1>6, <2>1
  <2>3. next.open = <<>> /\ next.messages = ms
    BY <2>2
  <2>4. QED
    BY <1>1, <1>6, <2>1, <2>3, Zenon DEF Adds
<1>7. CASE p # <<"ws">> /\ ~ (IsValue(p) /\ ~ IsNumber(p))
  <2>1. next = [open |-> p, messages |-> e.messages]
    BY <1>2, <1>3, <1>7
  <2>2. QED
    BY <1>1, <1>7, <2>1 DEF Adds
<1>8. QED
  BY <1>5, <1>6, <1>7

CutParts(S, cut) == cut.open \in Seq(S) /\ cut.messages \in Seq(Seq(S))

LEMMA CutIs ==
    ASSUME NEW S, NEW cut, cut \in Cuts(S)
    PROVE  CutParts(S, cut)
BY DEF Cuts, CutParts

LEMMA OneLonger ==
    ASSUME NEW M, NEW a, a \in Seq(M), NEW p, p \in M, NEW n
    PROVE  /\ LongIn(a, n) => LongIn(a \o <<p>>, n)
           /\ Len(p) > n => LongIn(a \o <<p>>, n)
           /\ Valued(a) /\ IsValue(p) => Valued(a \o <<p>>)
<1>1. PICK b : b = <<p>>
  OBVIOUS
<1>2. b \in Seq(M) /\ Len(b) = 1 /\ b[1] = p
  BY <1>1
<1>3. Len(p) > n => LongIn(b, n)
  BY <1>2 DEF LongIn
<1>4. IsValue(p) => Valued(b)
  BY <1>2 DEF Valued
<1>5. (LongIn(a, n) => LongIn(a \o b, n)) /\ (LongIn(b, n) => LongIn(a \o b, n))
  BY <1>2, JoinLong
<1>6. Valued(a) /\ Valued(b) => Valued(a \o b)
  BY <1>2, JoinValued
<1>7. QED
  BY <1>1, <1>3, <1>4, <1>5, <1>6, Zenon

LEMMA SpoiltAdds ==
    ASSUME NEW S, NEW x, x \in DOMAIN Setups, Setups[x].reader = "json",
           NEW e, e \in Cuts(S), NEW c, c \in S, NEW p, p = Append(e.open, c),
           \/ LongIn(e.messages, Setups[x].buffer)
           \/ Len(p) > Setups[x].buffer /\ p # <<"ws">>
           \/ Hopeless(S, p)
    PROVE  Spoilt(S, x, AddByte(x, e, c))
<1>1. PICK next, n, ms : next = AddByte(x, e, c) /\ n = Setups[x].buffer /\ ms = e.messages
  OBVIOUS
<1>2. e.open \in Seq(S) /\ ms \in Seq(Seq(S))
  BY <1>1, CutIs DEF CutParts
<1>3. p \in Seq(S)
  BY <1>2
<1>4. Adds(x, e, c, p, next)
  BY <1>1, AddsIs
<1>5. /\ LongIn(ms, n) => LongIn(ms \o <<p>>, n)
      /\ Len(p) > n => LongIn(ms \o <<p>>, n)
  BY <1>2, <1>3, OneLonger
<1>6. CASE LongIn(ms, n)
  <2>1. next.messages = ms \/ next.messages = ms \o <<p>>
    BY <1>1, <1>4, Zenon DEF Adds
  <2>2. QED
    BY <1>1, <1>5, <1>6, <2>1, Zenon DEF Spoilt
<1>7. CASE Len(p) > n /\ p # <<"ws">>
  <2>1. next.open = p \/ next.messages = ms \o <<p>>
    BY <1>1, <1>4, <1>7, Zenon DEF Adds
  <2>2. QED
    BY <1>1, <1>5, <1>7, <2>1, Zenon DEF Spoilt
<1>8. CASE Hopeless(S, p)
  <2>1. p # <<"ws">> /\ ~ IsValue(p)
    BY <1>3, <1>8, HopelessIs
  <2>2. next.open = p
    BY <1>4, <2>1, Zenon DEF Adds
  <2>3. QED
    BY <1>1, <1>8, <2>2, Zenon DEF Spoilt
<1>9. QED
  BY <1>1, <1>6, <1>7, <1>8

(* EndNumber() of JSON. *)
EndsAs(e, cut, c) ==
    /\ c \notin NumberBytes /\ cut.open # <<>> /\ IsNumber(cut.open) =>
         e.open = <<>> /\ e.messages = cut.messages \o <<cut.open>>
    /\ ~ (c \notin NumberBytes /\ cut.open # <<>> /\ IsNumber(cut.open)) => e = cut

LEMMA EndNumberIs ==
    ASSUME NEW S, NEW x, x \in DOMAIN Setups, Setups[x].reader = "json",
           NEW cut, cut \in Cuts(S), NEW c
    PROVE  EndNumber(x, cut, c) \in Cuts(S) /\ EndsAs(EndNumber(x, cut, c), cut, c)
<1>1. PICK e : e = EndNumber(x, cut, c)
  OBVIOUS
<1>2. PICK o, ms, M : o = cut.open /\ ms = cut.messages /\ M = Seq(S)
  OBVIOUS
<1>3. o \in M /\ ms \in Seq(M) /\ <<>> \in M
  BY <1>2, CutIs, EmptySeq DEF CutParts
<1>4. Append(ms, o) = ms \o <<o>> /\ Append(ms, o) \in Seq(M)
  BY <1>3
<1>5. CASE c \notin NumberBytes /\ o # <<>> /\ IsNumber(o)
  <2>1. PICK longer : longer = Append(ms, o)
    OBVIOUS
  <2>2. e = [open |-> <<>>, messages |-> longer]
    BY <1>1, <1>2, <1>5, <2>1, Zenon DEF EndNumber
  <2>3. e.open = <<>> /\ e.messages = longer
    BY <2>2
  <2>4. e \in [open : M, messages : Seq(M)]
    BY <1>3, <1>4, <2>1, <2>2
  <2>5. QED
    BY <1>1, <1>2, <1>4, <1>5, <2>1, <2>3, <2>4, Zenon DEF EndsAs, Cuts
<1>6. CASE ~ (c \notin NumberBytes /\ o # <<>> /\ IsNumber(o))
  <2>1. e = cut
    BY <1>1, <1>2, <1>6, Zenon DEF EndNumber
  <2>2. QED
    BY <1>1, <1>2, <1>6, <2>1, Zenon DEF EndsAs
<1>7. QED
  BY <1>5, <1>6

LEMMA SpoiltStays ==
    ASSUME NEW S, NEW x, x \in DOMAIN Setups, Setups[x].reader = "json",
           NEW cut, cut \in Cuts(S), NEW c, c \in S, Spoilt(S, x, cut)
    PROVE  Spoilt(S, x, NextCut(x, cut, c))
<1>1. PICK e, n : e = EndNumber(x, cut, c) /\ n = Setups[x].buffer /\ n \in Nat
  BY SetupsAssumption
<1>2. e \in Cuts(S) /\ EndsAs(e, cut, c)
  BY <1>1, EndNumberIs
<1>3. PICK o, ms, M, p : o = cut.open /\ ms = cut.messages /\ M = Seq(S) /\ p = Append(e.open, c)
  OBVIOUS
<1>4. o \in Seq(S) /\ ms \in Seq(M) /\ Len(o) \in Nat
  <2>1. o \in Seq(S) /\ ms \in Seq(M)
    BY <1>3, CutIs DEF CutParts
  <2>2. QED
    BY <2>1
<1>5. NextCut(x, cut, c) = AddByte(x, e, c)
  BY <1>1 DEF NextCut
<1>6. CASE c \notin NumberBytes /\ o # <<>> /\ IsNumber(o)
  <2>1. e.messages = ms \o <<o>>
    BY <1>2, <1>3, <1>6 DEF EndsAs
  <2>2. ~ Hopeless(S, o)
    BY <1>4, <1>6, HopelessIs
  <2>3. LongIn(ms, n) \/ Len(o) > n
    BY <1>1, <1>3, <2>2 DEF Spoilt
  <2>4. LongIn(e.messages, n)
    <3>1. LongIn(ms \o <<o>>, n)
      BY <1>3, <1>4, <2>3, OneLonger
    <3>2. QED
      BY <2>1, <3>1
  <2>5. QED
    BY <1>1, <1>2, <1>3, <1>5, <2>4, SpoiltAdds
<1>7. CASE ~ (c \notin NumberBytes /\ o # <<>> /\ IsNumber(o))
  <2>1. e = cut
    BY <1>2, <1>3, <1>7 DEF EndsAs
  <2>2. Len(p) = Len(o) + 1 /\ p = Append(o, c)
    BY <1>3, <1>4, <2>1
  <2>3. Len(p) # 1 => p # <<"ws">>
    OBVIOUS
  <2>4. CASE LongIn(ms, n)
    BY <1>1, <1>2, <1>3, <1>5, <2>1, <2>4, SpoiltAdds
  <2>5. CASE Len(o) > n
    <3>1. Len(p) > n /\ p # <<"ws">>
      BY <1>1, <1>4, <2>2, <2>3, <2>5
    <3>2. QED
      BY <1>1, <1>2, <1>3, <1>5, <3>1, SpoiltAdds
  <2>6. CASE Hopeless(S, o)
    <3>1. Hopeless(S, p)
      BY <1>4, <2>2, <2>6, HopelessGoes
    <3>2. QED
      BY <1>1, <1>2, <1>3, <1>5, <3>1, SpoiltAdds
  <2>7. QED
    BY <1>1, <1>3, <2>4, <2>5, <2>6 DEF Spoilt
<1>8. QED
  BY <1>6, <1>7

LEMMA Regroup ==
    ASSUME NEW M, NEW a, a \in Seq(M), NEW b, b \in Seq(M), NEW d, d \in Seq(M)
    PROVE  a \o (b \o d) = (a \o b) \o d
BY ConcatAssociative

(* The reader is in step with the stream so far: cut, and the messages ms. *)
InStep(r, cut, ms) ==
    /\ Begun(r) /\ Valued(ms)
    /\ r.errors = 0 => r.buffer = cut.open /\ ms = cut.messages

LEMMA ByteStep ==
    ASSUME NEW S, NEW x, NEW r, NEW c, NEW p, Reads(S, x, r, c, p), NEW q, Outcome(S, x, r, p, q),
           NEW cut, cut \in Cuts(S), NEW em, em \in Seq(Seq(S)), InStep(r, cut, em \o r.out)
    PROVE  /\ q \in Readers(S) /\ q.errors >= r.errors
           /\ InStep(q, AddByte(x, cut, c), em \o q.out)
           /\ r.errors = 0 /\ q.errors > 0 => Spoilt(S, x, AddByte(x, cut, c))
<1>1. /\ x \in DOMAIN Setups /\ Setups[x].reader = "json" /\ r \in Readers(S) /\ c \in S
      /\ p = Append(r.buffer, c)
  BY DEF Reads
<1>2. /\ r.out \in Seq(Seq(S)) /\ r.errors \in Nat /\ r.buffer \in Seq(S)
      /\ IsWhole(x, p) <=> p = <<"ws">> \/ (IsValue(p) /\ ~ IsNumber(p))
      /\ MessagesIn(x, p) = IF p = <<"ws">> THEN <<>> ELSE <<p>>
  BY ReadsIs
<1>3. PICK next, ms, o, M : /\ next = AddByte(x, cut, c) /\ o = r.out /\ ms = em \o o /\ M = Seq(S)
  OBVIOUS
<1>4. ms \in Seq(M) /\ o \in Seq(M) /\ em \in Seq(M) /\ p \in M
  BY <1>1, <1>2, <1>3
<1>5. Begun(r) /\ Valued(ms) /\ (r.errors = 0 => r.buffer = cut.open /\ ms = cut.messages)
  BY <1>3 DEF InStep
<1>6. r.errors = 0 => Adds(x, cut, c, p, next)
  <2>1. ASSUME r.errors = 0 PROVE p = Append(cut.open, c)
    BY <1>1, <1>5, <2>1
  <2>2. QED
    BY <1>1, <1>3, <2>1, AddsIs
<1>7. CASE Taken(S, x, r, p, q)
  <2>1. /\ q \in Readers(S) /\ Begun(q) /\ q.buffer = p /\ q.errors = r.errors /\ q.out = o
        /\ ~ (p = <<"ws">> \/ (IsValue(p) /\ ~ IsNumber(p)))
    BY <1>2, <1>3, <1>7 DEF Taken
  <2>2. r.errors = 0 => next.open = p /\ next.messages = cut.messages
    BY <1>6, <2>1, Zenon DEF Adds
  <2>3. InStep(q, next, ms)
    BY <1>5, <2>1, <2>2 DEF InStep
  <2>4. q.errors >= r.errors /\ ~ (r.errors = 0 /\ q.errors > 0)
    BY <1>2, <2>1
  <2>5. QED
    BY <1>3, <2>1, <2>3, <2>4
<1>8. CASE Ended(S, x, r, p, q)
  <2>1. /\ RestsWith(S, q, o \o MessagesIn(x, p), r.errors)
        /\ p = <<"ws">> \/ (IsValue(p) /\ ~ IsNumber(p))
    BY <1>2, <1>3, <1>8 DEF Ended
  <2>2. PICK k : k = MessagesIn(x, p)
    OBVIOUS
  <2>3. /\ q \in Readers(S) /\ q.buffer = <<>> /\ q.errors = r.errors /\ q.out = o \o k
        /\ Begun(q)
    BY <2>1, <2>2 DEF RestsWith, Begun, OpenIdle
  <2>4. q.errors >= r.errors /\ ~ (r.errors = 0 /\ q.errors > 0)
    BY <1>2, <2>3
  <2>5. CASE p = <<"ws">>
    <3>1. k = <<>>
      BY <1>2, <2>2, <2>5
    <3>2. o \o k = o
      BY <1>4, <3>1
    <3>3. r.errors = 0 => next.open = <<>> /\ next.messages = cut.messages
      BY <1>6, <2>5, Zenon DEF Adds
    <3>4. InStep(q, next, ms) /\ em \o q.out = ms
      BY <1>3, <1>5, <2>3, <3>2, <3>3 DEF InStep
    <3>5. QED
      BY <1>3, <2>3, <2>4, <3>4
  <2>6. CASE p # <<"ws">>
    <3>1. k = <<p>> /\ IsValue(p) /\ ~ IsNumber(p)
      BY <1>2, <2>1, <2>2, <2>6
    <3>2. em \o q.out = ms \o <<p>>
      <4>1. k \in Seq(M)
        BY <1>4, <3>1
      <4>2. em \o (o \o k) = (em \o o) \o k
        BY <1>4, <4>1, Regroup
      <4>3. QED
        BY <1>3, <2>3, <3>1, <4>2
    <3>3. r.errors = 0 => next.open = <<>> /\ next.messages = cut.messages \o <<p>>
      BY <1>6, <2>6, <3>1, Zenon DEF Adds
    <3>4. Valued(ms \o <<p>>)
      BY <1>4, <1>5, <3>1, OneLonger
    <3>5. PICK longer : longer = ms \o <<p>>
      OBVIOUS
    <3>6. r.errors = 0 => next.open = <<>> /\ next.messages = longer
      BY <1>5, <3>3, <3>5
    <3>7. InStep(q, next, longer)
      BY <2>3, <3>4, <3>5, <3>6 DEF InStep
    <3>8. QED
      BY <1>3, <2>3, <2>4, <3>2, <3>5, <3>7
  <2>7. QED
    BY <2>5, <2>6
<1>9. CASE Refused(S, x, r, p, q)
  <2>1. /\ RestsWith(S, q, o, r.errors + 1)
        /\ (Len(p) > Setups[x].buffer /\ p # <<"ws">>) \/ Hopeless(S, p)
    BY <1>3, <1>9 DEF Refused
  <2>2. q \in Readers(S) /\ q.errors = r.errors + 1 /\ q.out = o /\ Begun(q)
    BY <2>1 DEF RestsWith, Begun, OpenIdle
  <2>3. q.errors >= r.errors /\ q.errors # 0
    BY <1>2, <2>2
  <2>4. InStep(q, next, ms)
    BY <1>5, <2>2, <2>3 DEF InStep
  <2>5. r.errors = 0 => Spoilt(S, x, next)
    <3>1. ASSUME r.errors = 0 PROVE p = Append(cut.open, c)
      BY <1>1, <1>5, <3>1
    <3>2. QED
      BY <1>1, <1>3, <2>1, <3>1, SpoiltAdds
  <2>6. QED
    BY <1>3, <2>2, <2>3, <2>4, <2>5
<1>10. QED
  BY <1>7, <1>8, <1>9 DEF Outcome

(* The reader of JSON agrees with the stream. *)
JsonAgrees(S, x, r, cut, em) ==
    InStep(r, cut, em) /\ (r.errors > 0 => Spoilt(S, x, cut))

(* A byte that does not end a number. *)
LEMMA JsonByte ==
    ASSUME NEW S, NEW x, NEW r, NEW c, NEW p, Reads(S, x, r, c, p), Begun(r),
           r.state # "NumberValue" \/ c \in NumberBytes
    PROVE  Outcome(S, x, r, p, consume_json(r, c))
<1>1. CASE OpenIdle(r)
  <2>1. consume_json(r, c) = consume_idle(r, c)
    BY <1>1 DEF consume_json, OpenIdle
  <2>2. QED
    BY <1>1, <2>1, IdleStep
<1>2. CASE OpenString(r)
  <2>1. consume_json(r, c) = consume_string(r, c)
    BY <1>2 DEF consume_json, OpenString
  <2>2. QED
    BY <1>2, <2>1, StringStep
<1>3. CASE OpenNumber(r)
  <2>1. c \in NumberBytes /\ r.state = "NumberValue"
    BY <1>3 DEF OpenNumber
  <2>2. consume_json(r, c) = consume_number(r, c)
    BY <2>1 DEF consume_json
  <2>3. consume_number(r, c) = append(r, c, r)
    BY <2>1, Zenon DEF consume_number
  <2>4. QED
    BY <1>3, <2>1, <2>2, <2>3, NumberStep
<1>4. CASE OpenLiteral(r)
  <2>1. r.state = "LiteralValue" /\ r.buffer # <<>> /\ r.rest # <<>> /\ r.buffer \o r.rest \in Literals
    BY <1>4 DEF OpenLiteral, LiteralBegun
  <2>2. consume_json(r, c) = consume_literal(r, c)
    BY <2>1 DEF consume_json
  <2>3. QED
    BY <2>1, <2>2, LiteralStep
<1>5. CASE OpenContainer(r)
  <2>1. r.state = "Container"
    BY <1>5, Zenon DEF OpenContainer
  <2>2. consume_json(r, c) = consume_container(r, c)
    BY <2>1 DEF consume_json
  <2>3. QED
    BY <1>5, <2>2, ContainerStep
<1>6. QED
  BY <1>1, <1>2, <1>3, <1>4, <1>5 DEF Begun

(* Only a number that is being read may be one. *)
LEMMA NoNumber ==
    ASSUME NEW S, NEW r, r \in Readers(S), Begun(r), r.state # "NumberValue", r.buffer # <<>>
    PROVE  ~ IsNumber(r.buffer)
<1>1. PICK b : b = r.buffer
  OBVIOUS
<1>2. b \in Seq(S) /\ b # <<>>
  BY <1>1 DEF Readers
<1>3. IsNumber(b) => b[1] \in Digits \cup {"-"}
  BY <1>2, NumberBytesOnly
<1>4. CASE OpenString(r)
  BY <1>1, <1>3, <1>4 DEF OpenString, StringBegun, Digits
<1>5. CASE OpenLiteral(r)
  <2>1. PICK l, rest, U : l = b \o rest /\ rest = r.rest /\ U = S \cup STRING
    OBVIOUS
  <2>2. l \in Literals
    BY <1>1, <1>5, <2>1 DEF OpenLiteral, LiteralBegun
  <2>3. rest \in Seq(STRING)
    BY <2>1 DEF Readers
  <2>4. S \subseteq U /\ STRING \subseteq U
    BY <2>1
  <2>5. b \in Seq(U) /\ rest \in Seq(U)
    BY <1>2, <2>3, <2>4, WiderSeq
  <2>6. Completes(l, b, rest, Len(b), Len(rest))
    BY <2>1, <2>5, JoinIs
  <2>7. l[1] = b[1]
    BY <1>2, <2>6 DEF Completes
  <2>8. l \in Seq(STRING) /\ l # <<>>
    BY <2>2, LiteralsAssumption, Zenon
  <2>9. Head(l) = l[1]
    BY <2>8
  <2>10. Head(l) \notin Digits \cup {"-"}
    BY <2>2, LiteralsAssumption, Zenon
  <2>11. QED
    BY <1>1, <1>3, <2>7, <2>9, <2>10, Zenon
<1>6. CASE OpenContainer(r)
  <2>1. Bracket(b[1])
    BY <1>1, <1>6, Zenon DEF OpenContainer, ContainerBegun
  <2>2. QED
    BY <1>1, <1>2, <2>1, BracketTells DEF ToldByBracket
<1>7. QED
  BY <1>4, <1>5, <1>6 DEF Begun, OpenIdle, OpenNumber

LEMMA EmptiedBegun ==
    ASSUME NEW S, NEW r, r \in Readers(S), Begun(r)
    PROVE  Begun(Emptied(r))
<1>1. PICK e : e = Emptied(r)
  OBVIOUS
<1>2. /\ e.buffer = r.buffer /\ e.state = r.state /\ e.stack = r.stack /\ e.rest = r.rest
      /\ e.in_string = r.in_string /\ e.escape = r.escape
  BY <1>1, EmptiedIs
<1>3. Begun(e)
  BY <1>2, Zenon DEF Begun, OpenIdle, OpenString, OpenNumber, OpenLiteral, OpenContainer
<1>4. QED
  BY <1>1, <1>3

(* A number followed by what is not of a number is none. *)
LEMMA HopelessNumber ==
    ASSUME NEW S, NEW b, b \in Seq(S), NumberBegun(b), NEW c, c \in S, c \notin NumberBytes
    PROVE  Hopeless(S, Append(b, c))
<1>1. PICK p, n : p = Append(b, c) /\ n = Len(b)
  OBVIOUS
<1>2. b # <<>> /\ b[1] \in Digits \cup {"-"}
  BY DEF NumberBegun
<1>3. p \in Seq(S) /\ p # <<>> /\ Len(p) = n + 1 /\ n \in Nat /\ n >= 1 /\ p[1] = b[1] /\ p[n + 1] = c
  BY <1>1, <1>2
<1>4. ASSUME NEW t \in Seq(S) PROVE p \o t # <<"ws">> /\ ~ IsValue(p \o t)
  <2>1. PICK m : m = p \o t
    OBVIOUS
  <2>2. GoesOn(S, p, t, m)
    BY <1>3, <1>4, <2>1, LongerIs
  <2>3. /\ m \in Seq(S) /\ m # <<>> /\ m[1] = b[1] /\ m[n + 1] = c /\ n + 1 \in 1 .. Len(m)
        /\ Len(m) # 1
    BY <1>3, <2>2 DEF GoesOn
  <2>4. m # <<"ws">>
    BY <2>3
  <2>5. ToldByHead(m)
    BY <2>3, HeadTells
  <2>6. IsValue(m) <=> IsNumber(m)
    BY <1>2, <2>3, <2>5, Zenon DEF ToldByHead
  <2>7. ~ IsNumber(m)
    <3>1. ASSUME IsNumber(m) PROVE m[n + 1] \in NumberBytes
      BY <2>3, <3>1, NumberBytesOnly
    <3>2. QED
      BY <2>3, <3>1
  <2>8. QED
    BY <2>1, <2>4, <2>6, <2>7
<1>5. QED
  BY <1>1, <1>3, <1>4 DEF Hopeless

LEMMA JsonStep ==
    ASSUME NEW S, NEW x, NEW r, NEW c, NEW q, Consumes(S, x, r, c, q),
           Setups[x].reader = "json",
           NEW cut, cut \in Cuts(S), NEW em, em \in Seq(Seq(S)), JsonAgrees(S, x, r, cut, em)
    PROVE  /\ q \in Readers(S)
           /\ JsonAgrees(S, x, Emptied(q), NextCut(x, cut, c), em \o q.out)
<1>1. /\ x \in DOMAIN Setups /\ x = setup /\ r \in Readers(S) /\ r.out = <<>> /\ c \in S
      /\ kind = "json" /\ q = consume(r, c)
  BY DEF Consumes, kind
<1>2. q = consume_json(r, c)
  BY <1>1, Zenon DEF consume
<1>3. PICK b, n : b = r.buffer /\ n = r.errors
  OBVIOUS
<1>4. b \in Seq(S) /\ n \in Nat
  BY <1>1, <1>3 DEF Readers
<1>5. /\ Begun(r) /\ Valued(em) /\ (n = 0 => b = cut.open /\ em = cut.messages)
      /\ n > 0 => Spoilt(S, x, cut)
  BY <1>3 DEF JsonAgrees, InStep
<1>6. PICK e, next : e = EndNumber(x, cut, c) /\ next = NextCut(x, cut, c)
  OBVIOUS
<1>7. e \in Cuts(S) /\ EndsAs(e, cut, c) /\ next = AddByte(x, e, c)
  BY <1>1, <1>6, EndNumberIs DEF NextCut
<1>8. n > 0 => Spoilt(S, x, next)
  BY <1>1, <1>5, <1>6, SpoiltStays
<1>9. em \o <<>> = em
  <2>1. PICK M : M = Seq(S)
    OBVIOUS
  <2>2. em \in Seq(M)
    BY <2>1
  <2>3. QED
    BY <2>2
<1>10. ASSUME q \in Readers(S), InStep(q, next, em \o q.out), n = 0 /\ q.errors > 0 => Spoilt(S, x, next)
       PROVE  JsonAgrees(S, x, Emptied(q), next, em \o q.out)
  <2>1. PICK z, ms : z = Emptied(q) /\ ms = em \o q.out
    OBVIOUS
  <2>2. z.buffer = q.buffer /\ z.errors = q.errors
    BY <1>10, <2>1, EmptiedIs
  <2>3. Begun(q) /\ Valued(ms) /\ (q.errors = 0 => q.buffer = next.open /\ ms = next.messages)
    BY <1>10, <2>1 DEF InStep
  <2>4. Begun(z)
    BY <1>10, <2>1, <2>3, EmptiedBegun
  <2>5. InStep(z, next, ms)
    BY <2>2, <2>3, <2>4 DEF InStep
  <2>6. z.errors > 0 => Spoilt(S, x, next)
    BY <1>4, <1>8, <1>10, <2>2
  <2>7. QED
    BY <2>1, <2>5, <2>6 DEF JsonAgrees
<1>11. CASE r.state # "NumberValue" \/ c \in NumberBytes
  <2>1. PICK p : p = Append(r.buffer, c)
    OBVIOUS
  <2>2. Reads(S, x, r, c, p)
    BY <1>1, <2>1 DEF Reads
  <2>3. Outcome(S, x, r, p, q)
    BY <1>2, <1>5, <1>11, <2>2, JsonByte
  <2>4. n = 0 => e = cut
    <3>1. ASSUME n = 0 PROVE c \in NumberBytes \/ cut.open = <<>> \/ ~ IsNumber(cut.open)
      BY <1>1, <1>3, <1>5, <1>11, <3>1, NoNumber
    <3>2. QED
      BY <1>7, <3>1 DEF EndsAs
  <2>5. InStep(r, e, em)
    BY <1>3, <1>5, <2>4 DEF InStep
  <2>6. InStep(r, e, em \o r.out)
    BY <1>1, <1>9, <2>5
  <2>7. /\ q \in Readers(S) /\ InStep(q, next, em \o q.out)
        /\ n = 0 /\ q.errors > 0 => Spoilt(S, x, next)
    BY <1>3, <1>7, <2>2, <2>3, <2>6, ByteStep
  <2>8. QED
    BY <1>6, <1>10, <2>7
<1>12. CASE r.state = "NumberValue" /\ c \notin NumberBytes
  <2>1. NumberBegun(b)
    BY <1>3, <1>5, <1>12
       DEF Begun, OpenIdle, OpenString, OpenNumber, OpenLiteral, OpenContainer
  <2>2. b # <<>> /\ (valid_number(b) <=> IsNumber(b)) /\ (IsNumber(b) => IsValue(b))
    <3>1. b # <<>>
      BY <2>1 DEF NumberBegun
    <3>2. QED
      BY <1>4, <3>1, ValidNumber DEF IsValue
  <2>3. PICK s : s = IF IsNumber(b) THEN emit(r, b) ELSE fail(r)
    OBVIOUS
  <2>4. q = consume_idle(s, c)
    <3>1. q = consume_number(r, c)
      BY <1>2, <1>12 DEF consume_json
    <3>2. consume_number(r, c) = consume_idle(IF valid_number(b) THEN emit(r, b) ELSE fail(r), c)
      BY <1>3, <1>12, Zenon DEF consume_number
    <3>3. s = IF valid_number(b) THEN emit(r, b) ELSE fail(r)
      BY <2>2, <2>3
    <3>4. QED
      BY <3>1, <3>2, <3>3
  <2>5. Append(<<>>, b) = <<b>> /\ <<b>> \in Seq(Seq(S)) /\ <<>> \in Seq(Seq(S))
    BY <1>4, Alone, EmptySeq
  <2>6. /\ IsNumber(b) => RestsWith(S, s, <<b>>, n)
        /\ ~ IsNumber(b) => RestsWith(S, s, <<>>, n + 1)
    <3>1. emit(r, b) = Resting(<<b>>, n) /\ fail(r) = Resting(<<>>, n + 1)
      <4>1. emit(r, b) = Resting(Append(r.out, b), r.errors) /\ fail(r) = Resting(r.out, r.errors + 1)
        BY EmitRests, FailRests
      <4>2. QED
        BY <1>1, <1>3, <2>5, <4>1
    <3>2. n + 1 \in Nat
      BY <1>4
    <3>3. RestsWith(S, Resting(<<b>>, n), <<b>>, n) /\ RestsWith(S, Resting(<<>>, n + 1), <<>>, n + 1)
      BY <1>4, <2>5, <3>2, RestingIs
    <3>4. QED
      BY <2>3, <3>1, <3>3
  <2>7. PICK o, k : /\ o = IF IsNumber(b) THEN <<b>> ELSE <<>>
                    /\ k = IF IsNumber(b) THEN n ELSE n + 1
    OBVIOUS
  <2>8. RestsWith(S, s, o, k)
    BY <2>6, <2>7
  <2>9. s \in Readers(S) /\ s.out = o /\ s.errors = k /\ s.buffer = <<>> /\ OpenIdle(s)
    BY <2>8 DEF RestsWith, OpenIdle
  <2>10. PICK p : p = Append(s.buffer, c)
    OBVIOUS
  <2>11. Reads(S, x, s, c, p)
    BY <1>1, <2>9, <2>10 DEF Reads
  <2>12. Outcome(S, x, s, p, q)
    BY <2>4, <2>9, <2>11, IdleStep
  <2>13. Valued(em \o <<b>>) \/ ~ IsNumber(b)
    <3>1. PICK M : M = Seq(S)
      OBVIOUS
    <3>2. b \in M /\ em \in Seq(M)
      BY <1>4, <3>1
    <3>3. QED
      BY <1>5, <2>2, <3>2, OneLonger
  <2>14. InStep(s, e, em \o o)
    <3>1. CASE IsNumber(b)
      <4>1. o = <<b>> /\ k = n
        BY <2>7, <3>1
      <4>2. n = 0 => e.open = <<>> /\ e.messages = em \o <<b>>
        BY <1>5, <1>7, <1>12, <2>2, <3>1 DEF EndsAs
      <4>3. QED
        BY <2>9, <2>13, <3>1, <4>1, <4>2, Zenon DEF InStep, Begun
    <3>2. CASE ~ IsNumber(b)
      <4>1. em \o o = em /\ k = n + 1 /\ k # 0
        BY <1>4, <1>9, <2>7, <3>2
      <4>2. QED
        BY <1>5, <2>9, <4>1 DEF InStep, Begun
    <3>3. QED
      BY <3>1, <3>2
  <2>15. /\ q \in Readers(S) /\ InStep(q, next, em \o q.out)
         /\ k = 0 /\ q.errors > 0 => Spoilt(S, x, next)
    BY <1>7, <2>9, <2>11, <2>12, <2>14, ByteStep
  <2>16. n = 0 /\ ~ IsNumber(b) => Spoilt(S, x, next)
    <3>1. ASSUME n = 0, ~ IsNumber(b) PROVE Spoilt(S, x, next)
      <4>1. cut.open = b /\ e = cut
        BY <1>5, <1>7, <3>1 DEF EndsAs
      <4>2. PICK t : t = Append(b, c)
        OBVIOUS
      <4>3. Hopeless(S, t)
        BY <1>1, <1>4, <1>12, <2>1, <4>2, HopelessNumber
      <4>4. QED
        BY <1>1, <1>7, <4>1, <4>2, <4>3, SpoiltAdds
    <3>2. QED
      BY <3>1
  <2>17. n = 0 /\ q.errors > 0 => Spoilt(S, x, next)
    BY <2>7, <2>15, <2>16
  <2>18. QED
    BY <1>6, <1>10, <2>15, <2>17
<1>13. QED
  BY <1>11, <1>12

-----------------------------------------------------------------------------
(* The reader agrees with the bytes s that it has read and the messages em  *)
(* that it has emitted.                                                     *)
Agrees(S, x, r, s, em) ==
    IF Setups[x].reader = "fixed" THEN FixedAgrees(r, s, em)
    ELSE /\ Cut(x, s) \in Cuts(S)
         /\ Setups[x].reader \in {"line", "line_keep"} => LineAgrees(x, r, Cut(x, s), em)
         /\ Setups[x].reader = "header" => HeaderAgrees(r, Cut(x, s), em)
         /\ Setups[x].reader = "json" => JsonAgrees(S, x, r, Cut(x, s), em)

Alphabet == Setups[setup].bytes

(* The inductive invariant. *)
ReaderInv ==
    /\ StreamInv
    /\ written \in Seq(Alphabet) /\ reader \in Readers(Alphabet) /\ reader.out = <<>>
    /\ emitted \in Seq(Seq(Alphabet))
    /\ Agrees(Alphabet, setup, reader, consumed, emitted)

LEMMA AgreesStep ==
    ASSUME NEW S, NEW x, NEW r, NEW c, NEW q, Consumes(S, x, r, c, q), S = Setups[x].bytes,
           NEW s, s \in Seq(S), NEW em, em \in Seq(Seq(S)), Agrees(S, x, r, s, em)
    PROVE  q \in Readers(S) /\ Agrees(S, x, Emptied(q), Append(s, c), em \o q.out)
<1>1. x \in DOMAIN Setups /\ c \in S
  BY DEF Consumes
<1>2. CASE Setups[x].reader = "fixed"
  BY <1>2, FixedStep DEF Agrees
<1>3. CASE Setups[x].reader # "fixed"
  <2>1. PICK cut, next, t, ms : /\ cut = Cut(x, s) /\ next = Cut(x, t) /\ t = Append(s, c)
                                /\ ms = em \o q.out
    OBVIOUS
  <2>2. cut \in Cuts(S) /\ next = NextCut(x, cut, c)
    BY <1>1, <1>3, <2>1, CutStep, CutTyped
  <2>3. next \in Cuts(S)
    BY <1>1, <1>3, <2>2, NextCutTyped
  <2>4. CASE Setups[x].reader \in {"line", "line_keep"}
    <3>1. LineAgrees(x, r, cut, em)
      BY <1>3, <2>1, <2>4 DEF Agrees
    <3>2. q \in Readers(S) /\ LineAgrees(x, Emptied(q), next, ms)
      BY <2>1, <2>2, <2>4, <3>1, LineStep
    <3>3. QED
      BY <1>3, <2>1, <2>3, <2>4, <3>2 DEF Agrees
  <2>5. CASE Setups[x].reader = "header"
    <3>1. HeaderAgrees(r, cut, em)
      BY <1>3, <2>1, <2>5 DEF Agrees
    <3>2. q \in Readers(S) /\ HeaderAgrees(Emptied(q), next, ms)
      BY <2>1, <2>2, <2>5, <3>1, HeaderStep
    <3>3. QED
      BY <1>3, <2>1, <2>3, <2>5, <3>2 DEF Agrees
  <2>6. CASE Setups[x].reader = "json"
    <3>1. JsonAgrees(S, x, r, cut, em)
      BY <1>3, <2>1, <2>6 DEF Agrees
    <3>2. q \in Readers(S) /\ JsonAgrees(S, x, Emptied(q), next, ms)
      BY <2>1, <2>2, <2>6, <3>1, JsonStep
    <3>3. QED
      BY <1>3, <2>1, <2>3, <2>6, <3>2 DEF Agrees
  <2>7. QED
    BY <1>1, <1>3, <2>4, <2>5, <2>6, SetupsAssumption
<1>4. QED
  BY <1>2, <1>3

LEMMA KeptNone ==
    ASSUME NEW x, x \in DOMAIN Setups
    PROVE  Kept(x, <<>>) = <<>>
<1>1. PICK n, b : n = Setups[x].buffer /\ n \in Nat /\ b = <<>>
  BY SetupsAssumption
<1>2. Len(b) = 0 /\ 0 % (n + 1) = 0
  BY <1>1
<1>3. CASE Setups[x].reader = "line"
  <2>1. Kept(x, b) = SubSeq(b, 1, 0)
    BY <1>1, <1>2, <1>3 DEF Kept
  <2>2. QED
    BY <1>1, <2>1
<1>4. CASE Setups[x].reader # "line"
  <2>1. Kept(x, b) = SubSeq(b, 1, 0)
    BY <1>1, <1>2, <1>4 DEF Kept
  <2>2. QED
    BY <1>1, <2>1
<1>5. QED
  BY <1>3, <1>4

LEMMA FreshIs ==
    ASSUME NEW S
    PROVE  RestsWith(S, Fresh, <<>>, 0)
<1>1. PICK f, o : f = Fresh /\ o = <<>>
  OBVIOUS
<1>2. f = [buffer |-> <<>>, state |-> "Idle", stack |-> <<>>, in_string |-> FALSE,
           escape |-> FALSE, rest |-> <<>>, out |-> o, errors |-> 0]
  BY <1>1 DEF Fresh
<1>3. o \in Seq(Seq(S))
  BY <1>1, EmptySeq
<1>4. RestsWith(S, f, o, 0)
  BY <1>2, <1>3 DEF RestsWith, Readers, States
<1>5. QED
  BY <1>1, <1>4

LEMMA AgreesInit ==
    ASSUME NEW S, NEW x, x \in DOMAIN Setups
    PROVE  Agrees(S, x, Fresh, <<>>, <<>>)
<1>1. PICK r : r = Fresh
  OBVIOUS
<1>2. r.buffer = <<>> /\ r.errors = 0 /\ OpenIdle(r)
  BY <1>1, FreshIs DEF RestsWith, OpenIdle
<1>3. CASE Setups[x].reader = "fixed"
  BY <1>1, <1>2, <1>3, FixedInit DEF Agrees
<1>4. CASE Setups[x].reader # "fixed"
  <2>1. PICK cut : cut = Cut(x, <<>>)
    OBVIOUS
  <2>2. <<>> \in Seq(S)
    BY EmptySeq
  <2>3. cut \in Cuts(S) /\ cut = NoCut
    BY <1>4, <2>1, <2>2, CutTyped
  <2>4. cut.open = <<>> /\ cut.messages = <<>>
    BY <2>3 DEF NoCut
  <2>5. LineAgrees(x, r, cut, <<>>)
    BY <1>2, <2>4, KeptNone DEF LineAgrees
  <2>6. HeaderAgrees(r, cut, <<>>)
    <3>1. Len(r.buffer) < HeaderSize
      BY <1>2, FramesAssumption
    <3>2. QED
      BY <1>2, <2>4, <3>1 DEF HeaderAgrees
  <2>7. JsonAgrees(S, x, r, cut, <<>>)
    <3>1. Valued(<<>>)
      BY DEF Valued
    <3>2. QED
      BY <1>2, <2>4, <3>1 DEF JsonAgrees, InStep, Begun
  <2>8. QED
    BY <1>1, <1>4, <2>1, <2>3, <2>5, <2>6, <2>7 DEF Agrees
<1>5. QED
  BY <1>3, <1>4

(* The parts of a sequence are of its elements. *)
LEMMA PartsTyped ==
    ASSUME NEW U, NEW a, a \in Seq(U), NEW b, b \in Seq(U), NEW S, a \o b \in Seq(S)
    PROVE  a \in Seq(S) /\ b \in Seq(S)
<1>1. PICK t : t = a \o b
  OBVIOUS
<1>2. Completes(t, a, b, Len(a), Len(b)) /\ t \in Seq(S)
  BY <1>1, JoinIs
<1>3. PICK n \in Nat, k \in Nat : n = Len(a) /\ k = Len(b) /\ Len(t) = n + k
  BY <1>2 DEF Completes
<1>4. \A i \in 1 .. n : a[i] \in S
  <2>1. ASSUME NEW i \in 1 .. n PROVE a[i] \in S
    <3>1. t[i] = a[i] /\ i \in 1 .. Len(t)
      BY <1>2, <1>3 DEF Completes
    <3>2. QED
      BY <1>2, <3>1
  <2>2. QED
    BY <2>1
<1>5. \A i \in 1 .. k : b[i] \in S
  <2>1. ASSUME NEW i \in 1 .. k PROVE b[i] \in S
    <3>1. t[n + i] = b[i] /\ n + i \in 1 .. Len(t)
      BY <1>2, <1>3 DEF Completes
    <3>2. QED
      BY <1>2, <3>1
  <2>2. QED
    BY <2>1
<1>6. QED
  BY <1>3, <1>4, <1>5

LEMMA ReaderInit == Init => ReaderInv
<1> SUFFICES ASSUME Init PROVE ReaderInv
  OBVIOUS
<1>1. StreamInv
  BY StreamInit
<1>2. /\ setup \in DOMAIN Setups /\ reader = Fresh
      /\ consumed = <<>> /\ emitted = <<>> /\ written = <<>>
  BY DEF Init
<1>3. PICK S : S = Alphabet
  OBVIOUS
<1>4. reader \in Readers(S) /\ reader.out = <<>>
  BY <1>2, FreshIs DEF RestsWith
<1>5. Agrees(S, setup, reader, consumed, emitted)
  BY <1>2, AgreesInit
<1>6. written \in Seq(S) /\ emitted \in Seq(Seq(S))
  BY <1>2, EmptySeq
<1>7. QED
  BY <1>1, <1>3, <1>4, <1>5, <1>6 DEF ReaderInv

(* What has been read is of the bytes of the setup, and so is the next byte. *)
LEMMA ReadTyped ==
    ASSUME ReaderInv
    PROVE  consumed \in Seq(Alphabet) /\ (ring.count > 0 => Head(Content(ring)) \in Alphabet)
<1>1. /\ RingOK(ring) /\ ring.cells \in [Cells -> Bytes] /\ consumed \in Seq(Bytes)
      /\ written = consumed \o Content(ring) /\ written \in Seq(Alphabet)
  BY DEF ReaderInv, StreamInv, StreamInOrder
<1>2. PICK cells, h, c : Ring(Bytes, cells, h, c) /\ ring = RingAt(cells, h, c)
  <2>1. PICK r : r = ring
    OBVIOUS
  <2>2. RingOK(r) /\ r.cells \in [Cells -> Bytes]
    BY <1>1, <2>1
  <2>3. QED
    BY <2>1, <2>2, RingParts
<1>3. PICK s : s = Content(ring)
  OBVIOUS
<1>4. s \in Seq(Bytes) /\ Len(s) = c /\ ring.count = c
  <2>1. Content(ring) \in Seq(Bytes) /\ Len(Content(ring)) = c
    BY <1>2, ContentAt
  <2>2. ring.count = c
    BY <1>2 DEF RingAt
  <2>3. QED
    BY <1>3, <2>1, <2>2
<1>5. consumed \in Seq(Alphabet) /\ s \in Seq(Alphabet)
  BY <1>1, <1>3, <1>4, PartsTyped
<1>6. c > 0 => Head(s) \in Alphabet
  BY <1>4, <1>5
<1>7. QED
  BY <1>3, <1>4, <1>5, <1>6

LEMMA ReaderStep == ReaderInv /\ [Next]_vars => ReaderInv'
<1> SUFFICES ASSUME ReaderInv, [Next]_vars PROVE ReaderInv'
  OBVIOUS
<1>1. StreamInv /\ StreamInv'
  BY StreamStep DEF ReaderInv
<1>2. PICK S, x : S = Alphabet /\ x = setup
  OBVIOUS
<1>3. /\ written \in Seq(S) /\ reader \in Readers(S) /\ reader.out = <<>>
      /\ emitted \in Seq(Seq(S)) /\ Agrees(S, x, reader, consumed, emitted)
  BY <1>2 DEF ReaderInv
<1>4. S = Setups[x].bytes /\ x \in DOMAIN Setups /\ consumed \in Seq(S)
  BY <1>1, <1>2, ReadTyped DEF Alphabet, StreamInv
<1>5. ASSUME setup' = setup, written' \in Seq(S), reader' \in Readers(S), reader'.out = <<>>,
             emitted' \in Seq(Seq(S)), Agrees(S, x, reader', consumed', emitted')
      PROVE  ReaderInv'
  <2>1. Alphabet' = S
    BY <1>2, <1>5 DEF Alphabet
  <2>2. QED
    BY <1>1, <1>2, <1>5, <2>1 DEF ReaderInv
<1>6. CASE PollByte
  <2>1. PICK c, q : c = Head(Content(ring)) /\ q = consume(reader, c)
    OBVIOUS
  <2>2. c \in S
    BY <1>2, <1>6, <2>1, ReadTyped DEF PollByte
  <2>3. /\ reader' = Emptied(q) /\ emitted' = emitted \o q.out /\ consumed' = Append(consumed, c)
        /\ setup' = setup /\ written' = written
    BY <1>6, <2>1 DEF PollByte, Emptied
  <2>4. Consumes(S, x, reader, c, q)
    BY <1>2, <1>3, <1>4, <2>1, <2>2 DEF Consumes
  <2>5. q \in Readers(S) /\ Agrees(S, x, Emptied(q), Append(consumed, c), emitted \o q.out)
    BY <1>3, <1>4, <2>4, AgreesStep
  <2>6. Emptied(q) \in Readers(S) /\ Emptied(q).out = <<>>
    BY <2>5, EmptiedIs
  <2>7. emitted \o q.out \in Seq(Seq(S))
    <3>1. PICK M, o : M = Seq(S) /\ o = q.out
      OBVIOUS
    <3>2. o \in Seq(M) /\ emitted \in Seq(M)
      BY <1>3, <2>5, <3>1 DEF Readers
    <3>3. emitted \o o \in Seq(M)
      BY <3>2
    <3>4. QED
      BY <3>1, <3>3
  <2>8. QED
    BY <1>3, <1>5, <2>3, <2>5, <2>6, <2>7
<1>7. ASSUME NEW chunk \in Chunks, write(chunk) PROVE ReaderInv'
  <2>1. PICK fit : fit = Fitting(ring, chunk)
    OBVIOUS
  <2>2. chunk \in Seq(S)
    BY <1>2, <1>4 DEF Chunks
  <2>3. fit \in Seq(S)
    <3>1. Capacity - ring.count \in Nat
      BY <1>1, RingAssumption DEF StreamInv, RingOK
    <3>2. QED
      BY <2>1, <2>2, <3>1 DEF Fitting, free
  <2>4. /\ written' = written \o fit /\ reader' = reader /\ emitted' = emitted
        /\ consumed' = consumed /\ setup' = setup
    BY <1>7, <2>1 DEF write
  <2>5. written \o fit \in Seq(S)
    BY <1>3, <2>3
  <2>6. QED
    BY <1>3, <1>5, <2>4, <2>5
<1>8. CASE clear
  <2>1. /\ written' = consumed /\ reader' = reader /\ emitted' = emitted
        /\ consumed' = consumed /\ setup' = setup
    BY <1>8 DEF clear
  <2>2. QED
    BY <1>3, <1>4, <1>5, <2>1
<1>9. CASE UNCHANGED vars
  <2>1. /\ written' = written /\ reader' = reader /\ emitted' = emitted
        /\ consumed' = consumed /\ setup' = setup
    BY <1>9 DEF vars
  <2>2. QED
    BY <1>3, <1>5, <2>1
<1>10. QED
  BY <1>6, <1>7, <1>8, <1>9 DEF Next

(* Whatever the reader, its options, the sizes of its buffer and of the     *)
(* stream, and however the bytes are written and split: what consume()      *)
(* hands to the callback are the messages of the bytes read, in order,      *)
(* whole, and each once; of JSON as long as there has been no error, or     *)
(* when the bytes read are values that fit.                                 *)
THEOREM ReaderMessagesAsFramed == Spec => []MessagesAsFramed
<1>1. ReaderInv => MessagesAsFramed
  <2> SUFFICES ASSUME ReaderInv PROVE MessagesAsFramed
    OBVIOUS
  <2>1. PICK S, x : S = Alphabet /\ x = setup
    OBVIOUS
  <2>2. /\ x \in DOMAIN Setups /\ reader \in Readers(S) /\ consumed \in Seq(S)
        /\ Agrees(S, x, reader, consumed, emitted) /\ kind = Setups[x].reader
    BY <2>1, ReadTyped DEF ReaderInv, StreamInv, kind
  <2>3. CASE kind = "fixed"
    <3>1. FixedAgrees(reader, consumed, emitted)
      BY <2>2, <2>3 DEF Agrees
    <3>2. emitted = FixedFrames(consumed)
      BY <2>2, <3>1, FixedIs
    <3>3. QED
      BY <2>3, <3>2 DEF MessagesAsFramed
  <2>4. CASE kind # "fixed"
    <3>1. PICK cut : cut = Cut(x, consumed)
      OBVIOUS
    <3>2. cut \in Cuts(S)
      BY <2>2, <2>4, <3>1 DEF Agrees
    <3>3. ASSUME kind # "json" \/ reader.errors = 0 \/ Fits(x, cut)
          PROVE  emitted = cut.messages
      <4>1. CASE kind \in {"line", "line_keep"}
        BY <2>2, <2>4, <3>1, <4>1 DEF Agrees, LineAgrees
      <4>2. CASE kind = "header"
        BY <2>2, <2>4, <3>1, <4>2 DEF Agrees, HeaderAgrees
      <4>3. CASE kind = "json"
        <5>1. JsonAgrees(S, x, reader, cut, emitted)
          BY <2>2, <2>4, <3>1, <4>3 DEF Agrees
        <5>2. reader.errors \in Nat
          BY <2>2 DEF Readers
        <5>3. reader.errors = 0
          <6>1. Spoilt(S, x, cut) => ~ Fits(x, cut)
            BY <2>2, <3>2, SpoiltIs
          <6>2. QED
            BY <3>3, <4>3, <5>1, <5>2, <6>1 DEF JsonAgrees
        <5>4. QED
          BY <5>1, <5>3 DEF JsonAgrees, InStep
      <4>4. QED
        BY <2>2, <2>4, <4>1, <4>2, <4>3, SetupsAssumption
    <3>4. QED
      BY <2>1, <2>4, <3>1, <3>3 DEF MessagesAsFramed
  <2>5. QED
    BY <2>3, <2>4
<1>2. QED
  BY <1>1, ReaderInit, ReaderStep, PTL DEF Spec

(* After errors and overflows too, what the JSON reader hands to the        *)
(* callback is a whole value: after fail() it never begins in the middle of *)
(* one with a state, a stack or a flag of the value before.                 *)
THEOREM ReaderEmittedIsValue == Spec => []EmittedIsValue
<1>1. ReaderInv => EmittedIsValue
  <2> SUFFICES ASSUME ReaderInv, kind = "json" PROVE Valued(emitted)
    BY DEF EmittedIsValue, Valued
  <2>1. PICK S, x : S = Alphabet /\ x = setup
    OBVIOUS
  <2>2. Agrees(S, x, reader, consumed, emitted) /\ Setups[x].reader = "json"
    BY <2>1 DEF ReaderInv, kind
  <2>3. JsonAgrees(S, x, reader, Cut(x, consumed), emitted)
    BY <2>2 DEF Agrees
  <2>4. QED
    BY <2>3 DEF JsonAgrees, InStep
<1>2. QED
  BY <1>1, ReaderInit, ReaderStep, PTL DEF Spec
=============================================================================
