--------------------------- MODULE ArduinoProofs ---------------------------
(* TLAPS proofs about ArduinoEventLoop. *)
EXTENDS ArduinoEventLoop, EventLoopProofs, WellFoundedInduction

(* Every step of the loop on the cooperative scheduler is a step of the     *)
(* facade over an arbitrary scheduler, or leaves the facade alone.          *)
LEMMA StepIsFacadeStep == [Next]_vars => [ELNext]_elVars
  <1> SUFFICES ASSUME [Next]_vars PROVE [ELNext]_elVars
    OBVIOUS
  <1>1. ASSUME NEW c \in Callables, NEW k \in Kinds, NEW p, NEW d, NEW f,
               RegisterTimer(c, k, p, d, f)
        PROVE  ELNext
    BY <1>1 DEF RegisterTimer, ELNext, Register
  <1>2. ASSUME NEW c \in Callables, NEW p \in Periods, on_repeat_us(c, p) PROVE ELNext
    BY <1>1, <1>2 DEF on_repeat_us, Kinds
  <1>3. ASSUME NEW c \in Callables, NEW d \in Delays, on_delay_us(c, d) PROVE ELNext
    BY <1>1, <1>3 DEF on_delay_us, Kinds
  <1>4. ASSUME NEW c \in Callables, remove(c) PROVE ELNext
    BY <1>4 DEF remove, ELNext, UseHandle
  <1>5. ASSUME NEW c \in Callables, NEW e \in BOOLEAN, set_callback_enabled(c, e) PROVE ELNext
    BY <1>5 DEF set_callback_enabled, ELNext, UseHandle
  <1>6. ASSUME NEW r, NEW b, NEW p, NEW d, add_raw(r, b, p, d) PROVE UNCHANGED elVars
    BY <1>6 DEF add_raw
  <1>7. CASE request_exit \/ Tick
    BY <1>7 DEF request_exit, Tick
  <1>8. CASE Scan
    <2>1. CASE PollEntry
      BY <2>1 DEF PollEntry, ELNext
    <2>2. CASE PollReturns
      BY <2>2 DEF PollReturns, ELNext
    <2>3. CASE BeginPass \/ SkipEntry \/ PollNothing \/ EndPass
      BY <2>3 DEF BeginPass, SkipEntry, PollNothing, EndPass
    <2> QED
      BY <1>8, <2>1, <2>2, <2>3 DEF Scan
  <1>9. CASE UNCHANGED vars
    BY <1>9 DEF vars
  <1> QED
    BY <1>2, <1>3, <1>4, <1>5, <1>6, <1>7, <1>8, <1>9 DEF Next

(* So what EventLoopProofs shows of the facade over an arbitrary scheduler  *)
(* holds here as well.                                                      *)
LEMMA ArduinoIsFacade == Spec => ELSpec
  <1>1. Init => ELInit
    BY DEF Init
  <1> QED
    BY <1>1, StepIsFacadeStep, PTL DEF Spec, ELSpec

(* Hence the slot-table guarantees hold for it without restriction on how   *)
(* the application uses handles, callbacks and timers.                      *)
THEOREM ArduinoHandleSafety == Spec => [](LiveHandleValid /\ StaleHandleRejected)
  BY ArduinoIsFacade, LiveHandlesValid, StaleHandlesRejected, PTL

(* And so do the guarantees for the stored callables: none is destroyed     *)
(* twice, leaked or started after its removal.                              *)
THEOREM ArduinoCallableSafety == Spec => []DestroyedOnce /\ RunsOnlyLive
  BY ArduinoIsFacade, CallablesDestroyedOnce, CallbacksRunOnlyLive, PTL
-----------------------------------------------------------------------------
(* The task array. *)

(* A set of numbers has a least one. *)
LEMMA LeastIn ==
    ASSUME NEW S \in SUBSET Nat, NEW n \in S
    PROVE  \E m \in S : \A k \in S : m <= k
  <1>1. PICK R : R = OpToRel(<, Nat)
    OBVIOUS
  <1>2. IsWellFoundedOn(R, Nat)
    BY <1>1, NatLessThanWellFounded, Zenon
  <1>3. PICK m \in S : \A k \in S : ~ (<<k, m>> \in R)
    BY <1>2, WFMin, Zenon
  <1>4. \A k \in S : <<k, m>> \in R <=> k < m
    BY <1>1 DEF OpToRel
  <1>5. \A k \in S : ~ (k < m)
    BY <1>3, <1>4, Zenon
  <1> QED
    BY <1>5

(* compact_inactive() entry by entry, for the first m entries. *)
KeptOf(ts, m, f) ==
    f = [n \in 0 .. m |-> IF n = 0 THEN <<>>
                          ELSE IF Occupied(ts[n]) THEN Append(f[n - 1], ts[n]) ELSE f[n - 1]]

LEMMA KeptExists ==
    ASSUME NEW ts, NEW len \in Nat
    PROVE  \E f : KeptOf(ts, len, f)
  <1> DEFINE Bad == {m \in 0 .. len : ~ \E f : KeptOf(ts, m, f)}
  <1> SUFFICES ASSUME ~ \E f : KeptOf(ts, len, f) PROVE FALSE
    OBVIOUS
  <1>1. len \in Bad /\ Bad \in SUBSET Nat
    OBVIOUS
  <1>2. PICK m \in Bad : \A k \in Bad : m <= k
    <2> HIDE DEF Bad
    <2> QED
      BY <1>1, LeastIn
  <1>3. m # 0
    <2>1. KeptOf(ts, 0, [n \in 0 .. 0 |-> <<>>])
      BY DEF KeptOf
    <2> QED
      BY <2>1
  <1>4. m \in Nat /\ m - 1 \in 0 .. len /\ m - 1 \notin Bad
    BY <1>2, <1>3
  <1>5. PICK f : KeptOf(ts, m - 1, f)
    BY <1>4
  <1> DEFINE g == [n \in 0 .. m |-> IF n = m THEN (IF Occupied(ts[m]) THEN Append(f[m - 1], ts[m]) ELSE f[m - 1])
                                    ELSE f[n]]
             h == [n \in 0 .. m |-> IF n = 0 THEN <<>>
                          ELSE IF Occupied(ts[n]) THEN Append(g[n - 1], ts[n]) ELSE g[n - 1]]
  <1>6. ASSUME NEW n \in 0 .. m PROVE g[n] = h[n]
    <2>1. CASE n = m
      BY <1>3, <1>4, <2>1
    <2>2. CASE n = 0
      BY <1>3, <1>4, <1>5, <2>2 DEF KeptOf
    <2>3. CASE n # m /\ n # 0
      <3>1. /\ n \in 0 .. m - 1 /\ n - 1 \in 0 .. m /\ n - 1 # m
        BY <1>4, <2>3
      <3>2. f[n] = IF Occupied(ts[n]) THEN Append(f[n - 1], ts[n]) ELSE f[n - 1]
        BY <1>5, <2>3, <3>1 DEF KeptOf
      <3> QED
        BY <2>3, <3>1, <3>2
    <2> QED
      BY <2>1, <2>2, <2>3
  <1>7. g = h
    BY <1>6
  <1>8. KeptOf(ts, m, g)
    BY <1>7, Zenon DEF KeptOf
  <1> QED
    BY <1>2, <1>8

(* What is left of the first n entries: the occupied ones, of which those   *)
(* before the first hole stay where they are.                               *)
Left(ts, n, cs) ==
    /\ cs \in Seq(Entry) /\ Len(cs) <= n
    /\ \A j \in 1 .. Len(cs) : Occupied(cs[j]) /\ \E k \in 1 .. n : ts[k] = cs[j]
    /\ \A k \in 1 .. n : Occupied(ts[k]) => \E j \in 1 .. Len(cs) : cs[j] = ts[k]
    /\ OneEach(ts) => OneEach(cs)
    /\ \A m \in 0 .. n : (\A k \in 1 .. m : Occupied(ts[k])) =>
          m <= Len(cs) /\ \A k \in 1 .. m : cs[k] = ts[k]

LEMMA LeftGrows ==
    ASSUME NEW ts \in Seq(Entry), NEW n \in 1 .. Len(ts), NEW cs, Left(ts, n - 1, cs)
    PROVE  Left(ts, n, IF Occupied(ts[n]) THEN Append(cs, ts[n]) ELSE cs)
  <1>0. /\ ts[n] \in Entry /\ cs \in Seq(Entry) /\ Len(cs) \in Nat /\ Len(cs) <= n - 1 /\ n - 1 \in Nat
        /\ n \in Nat /\ Len(ts) \in Nat
    BY DEF Left
  <1>1. CASE ~ Occupied(ts[n])
    <2>1. \A k \in 1 .. n : Occupied(ts[k]) => k \in 1 .. n - 1
      BY <1>0, <1>1
    <2>2. ASSUME NEW m \in 0 .. n, \A k \in 1 .. m : Occupied(ts[k])
          PROVE  m \in 0 .. n - 1
      BY <1>0, <1>1, <2>2
    <2>3. \A k \in 1 .. n - 1 : k \in 1 .. n
      BY <1>0
    <2>4. \A j \in 1 .. Len(cs) : Occupied(cs[j]) /\ \E k \in 1 .. n : ts[k] = cs[j]
      BY <2>3 DEF Left
    <2>5. \A k \in 1 .. n : Occupied(ts[k]) => \E j \in 1 .. Len(cs) : cs[j] = ts[k]
      BY <2>1 DEF Left
    <2>6. \A m \in 0 .. n : (\A k \in 1 .. m : Occupied(ts[k])) =>
             m <= Len(cs) /\ \A k \in 1 .. m : cs[k] = ts[k]
      BY <2>2 DEF Left
    <2>7. Left(ts, n, cs)
      <3>1. Len(cs) <= n
        BY <1>0
      <3>2. OneEach(ts) => OneEach(cs)
        BY DEF Left
      <3> QED
        BY <1>0, <2>4, <2>5, <2>6, <3>1, <3>2 DEF Left
    <2> QED
      BY <1>1, <2>7
  <1>2. CASE Occupied(ts[n])
    <2> DEFINE ds == Append(cs, ts[n])
    <2>1. /\ ds \in Seq(Entry) /\ Len(ds) = Len(cs) + 1 /\ Len(ds) <= n
          /\ \A j \in 1 .. Len(cs) : ds[j] = cs[j]
          /\ ds[Len(cs) + 1] = ts[n]
      BY <1>0
    <2> HIDE DEF ds
    <2>2. \A j \in 1 .. Len(ds) : j \in 1 .. Len(cs) \/ j = Len(cs) + 1
      BY <1>0, <2>1
    <2>3. ASSUME NEW j \in 1 .. Len(ds)
          PROVE  Occupied(ds[j]) /\ \E k \in 1 .. n : ts[k] = ds[j]
      <3>1. CASE j \in 1 .. Len(cs)
        <4>1. Occupied(cs[j]) /\ \E k \in 1 .. n - 1 : ts[k] = cs[j]
          BY <3>1 DEF Left
        <4> QED
          BY <1>0, <2>1, <3>1, <4>1
      <3>2. CASE j = Len(cs) + 1
        BY <1>0, <1>2, <2>1, <3>2
      <3> QED
        BY <2>2, <3>1, <3>2
    <2>4. ASSUME NEW k \in 1 .. n, Occupied(ts[k])
          PROVE  \E j \in 1 .. Len(ds) : ds[j] = ts[k]
      <3>1. CASE k = n
        <4>1. Len(cs) + 1 \in 1 .. Len(ds)
          BY <1>0, <2>1
        <4> QED
          BY <2>1, <3>1, <4>1
      <3>2. CASE k # n
        <4>1. k \in 1 .. n - 1
          BY <1>0, <3>2
        <4>2. PICK j \in 1 .. Len(cs) : cs[j] = ts[k]
          BY <2>4, <4>1 DEF Left
        <4> QED
          BY <1>0, <2>1, <4>2
      <3> QED
        BY <3>1, <3>2
    <2>5. ASSUME OneEach(ts) PROVE OneEach(ds)
      <3>1. ASSUME NEW j \in 1 .. Len(cs) PROVE cs[j].task # ts[n].task
        <4>1. PICK k \in 1 .. n - 1 : ts[k] = cs[j]
          BY DEF Left
        <4>2. k \in 1 .. Len(ts) /\ n \in 1 .. Len(ts) /\ k # n
          BY <1>0
        <4> QED
          BY <1>2, <2>5, <4>1, <4>2 DEF OneEach
      <3>2. OneEach(cs)
        BY <2>5 DEF Left
      <3>3. ASSUME NEW j \in 1 .. Len(ds), NEW k \in 1 .. Len(ds), ds[j].task = ds[k].task, Occupied(ds[k])
            PROVE  j = k
        BY <2>1, <2>2, <3>1, <3>2, <3>3 DEF OneEach
      <3> QED
        BY <3>3 DEF OneEach
    <2>6. ASSUME NEW m \in 0 .. n, \A k \in 1 .. m : Occupied(ts[k])
          PROVE  m <= Len(ds) /\ \A k \in 1 .. m : ds[k] = ts[k]
      <3>1. CASE m # n
        <4>1. m \in 0 .. n - 1
          BY <1>0, <3>1
        <4>2. m <= Len(cs) /\ \A k \in 1 .. m : cs[k] = ts[k]
          BY <2>6, <4>1 DEF Left
        <4> QED
          BY <1>0, <2>1, <4>1, <4>2
      <3>2. CASE m = n
        <4>1. n - 1 \in 0 .. n - 1 /\ \A k \in 1 .. n - 1 : k \in 1 .. n
          BY <1>0
        <4>2. n - 1 <= Len(cs) /\ \A k \in 1 .. n - 1 : cs[k] = ts[k]
          BY <2>6, <3>2, <4>1 DEF Left
        <4>3. Len(cs) = n - 1
          BY <1>0, <4>2
        <4>4. \A k \in 1 .. n : k \in 1 .. n - 1 \/ k = n
          BY <1>0
        <4> QED
          BY <1>0, <2>1, <3>2, <4>2, <4>3, <4>4
      <3> QED
        BY <3>1, <3>2
    <2>7. Left(ts, n, ds)
      BY <2>1, <2>3, <2>4, <2>5, <2>6 DEF Left
    <2> QED
      BY <1>2, <2>7 DEF ds
  <1> QED
    BY <1>1, <1>2

(* Compaction keeps the occupied entries, and those before the first hole   *)
(* in their places. *)
LEMMA CompactKeeps ==
    ASSUME NEW ts \in Seq(Entry)
    PROVE  Left(ts, Len(ts), compact_inactive(ts))
  <1> DEFINE kept == CHOOSE f : KeptOf(ts, Len(ts), f)
             Bad == {n \in 0 .. Len(ts) : ~ Left(ts, n, kept[n])}
  <1>0. Len(ts) \in Nat
    OBVIOUS
  <1>1. KeptOf(ts, Len(ts), kept)
    BY <1>0, KeptExists
  <1>2. compact_inactive(ts) = kept[Len(ts)]
    BY DEF compact_inactive, KeptOf
  <1> HIDE DEF kept
  <1>3. ASSUME Bad # {} PROVE FALSE
    <2>1. PICK n \in Bad : \A k \in Bad : n <= k
      <3>1. Bad \in SUBSET Nat
        BY <1>0
      <3> HIDE DEF Bad
      <3> QED
        BY <1>3, <3>1, LeastIn
    <2>2. n # 0
      <3>1. kept[0] = <<>>
        BY <1>0, <1>1 DEF KeptOf
      <3>2. Left(ts, 0, <<>>)
        BY DEF Left, OneEach
      <3> QED
        BY <2>1, <3>1, <3>2
    <2>3. n \in 1 .. Len(ts) /\ n - 1 \in 0 .. Len(ts) /\ n - 1 \notin Bad
      BY <1>0, <2>1, <2>2
    <2>4. Left(ts, n - 1, kept[n - 1])
      BY <2>3
    <2>5. kept[n] = IF Occupied(ts[n]) THEN Append(kept[n - 1], ts[n]) ELSE kept[n - 1]
      BY <1>1, <2>2, <2>3 DEF KeptOf
    <2> QED
      BY <2>1, <2>3, <2>4, <2>5, LeftGrows
  <1> QED
    BY <1>0, <1>2, <1>3

(* The entries of an array, wherever they lie. *)
Lists(ts, e) == Occupied(e) /\ \E k \in 1 .. Len(ts) : ts[k] = e

LEMMA CompactLists ==
    ASSUME NEW ts \in Seq(Entry), NEW cs, cs = compact_inactive(ts)
    PROVE  /\ cs \in Seq(Entry)
           /\ \A e : Lists(cs, e) <=> Lists(ts, e)
           /\ OneEach(ts) => OneEach(cs)
           /\ \A m \in 0 .. Len(ts) : (\A k \in 1 .. m : Occupied(ts[k])) =>
                 m <= Len(cs) /\ \A k \in 1 .. m : cs[k] = ts[k]
  <1>1. Left(ts, Len(ts), cs)
    BY CompactKeeps
  <1>2. ASSUME NEW e PROVE Lists(cs, e) <=> Lists(ts, e)
    <2>1. \A j \in 1 .. Len(cs) : \E k \in 1 .. Len(ts) : ts[k] = cs[j]
      BY <1>1 DEF Left
    <2>2. \A k \in 1 .. Len(ts) : Occupied(ts[k]) => \E j \in 1 .. Len(cs) : cs[j] = ts[k]
      BY <1>1 DEF Left
    <2>3. Lists(cs, e) => Lists(ts, e)
      BY <2>1 DEF Lists
    <2>4. Lists(ts, e) => Lists(cs, e)
      BY <2>2 DEF Lists
    <2> QED
      BY <2>3, <2>4
  <1> QED
    BY <1>1, <1>2 DEF Left

LEMMA AddLists ==
    ASSUME NEW ts \in Seq(Entry), NEW task \in Slots \cup RawTasks, NEW periodic \in BOOLEAN,
           NEW period \in Nat, NEW due \in Nat, periodic \/ period = 0,
           NEW new, new = Add(ts, task, periodic, period, due),
           NEW e, e = [task |-> task, period_us |-> period, next_due_us |-> due, periodic |-> periodic]
    PROVE  /\ new \in Seq(Entry)
           /\ \A x : Lists(new, x) <=> Lists(ts, x) \/ (~ AddFails(ts, periodic, period) /\ x = e)
           /\ OneEach(ts) /\ (\A k \in 1 .. Len(ts) : ts[k].task # task) => OneEach(new)
           /\ \A m \in 0 .. Len(ts) : (\A k \in 1 .. m : Occupied(ts[k])) =>
                 m <= Len(new) /\ \A k \in 1 .. m : new[k] = ts[k]
  <1>1. PICK cs : cs = compact_inactive(ts)
    OBVIOUS
  <1>2. /\ cs \in Seq(Entry)
        /\ \A x : Lists(cs, x) <=> Lists(ts, x)
        /\ OneEach(ts) => OneEach(cs)
        /\ \A m \in 0 .. Len(ts) : (\A k \in 1 .. m : Occupied(ts[k])) =>
              m <= Len(cs) /\ \A k \in 1 .. m : cs[k] = ts[k]
    BY <1>1, CompactLists
  <1>3. Occupied(e) /\ e.task = task /\ (~ AddFails(ts, periodic, period) => e \in Entry)
    BY TaskNamesAssumption DEF Entry, Occupied, AddFails
  <1>4. CASE AddFails(ts, periodic, period)
    <2>1. new = cs
      BY <1>1, <1>4 DEF Add
    <2> QED
      BY <1>2, <1>4, <2>1
  <1>5. CASE ~ AddFails(ts, periodic, period)
    <2>1. new = Append(cs, e)
      BY <1>1, <1>5 DEF Add
    <2>2. /\ new \in Seq(Entry) /\ Len(new) = Len(cs) + 1 /\ Len(cs) \in Nat
          /\ \A k \in 1 .. Len(cs) : new[k] = cs[k]
          /\ new[Len(cs) + 1] = e
      BY <1>2, <1>3, <1>5, <2>1
    <2>3. \A k \in 1 .. Len(new) : k \in 1 .. Len(cs) \/ k = Len(cs) + 1
      BY <2>2
    <2>4. 1 .. Len(cs) \subseteq 1 .. Len(new) /\ Len(cs) + 1 \in 1 .. Len(new)
      BY <2>2
    <2>5. ASSUME NEW x PROVE Lists(new, x) <=> Lists(cs, x) \/ x = e
      BY <1>3, <2>2, <2>3, <2>4 DEF Lists
    <2>6. ASSUME OneEach(ts), \A k \in 1 .. Len(ts) : ts[k].task # task PROVE OneEach(new)
      <3>1. ASSUME NEW k \in 1 .. Len(cs) PROVE cs[k].task # task
        <4>1. CASE Occupied(cs[k])
          <5>1. Lists(ts, cs[k])
            BY <1>2, <4>1 DEF Lists
          <5> QED
            BY <2>6, <5>1 DEF Lists
        <4>2. CASE ~ Occupied(cs[k])
          BY <4>2, TaskNamesAssumption DEF Occupied
        <4> QED
          BY <4>1, <4>2
      <3>2. OneEach(cs)
        BY <1>2, <2>6
      <3>3. ASSUME NEW j \in 1 .. Len(new), NEW k \in 1 .. Len(new),
                   new[j].task = new[k].task, Occupied(new[k])
            PROVE  j = k
        BY <1>3, <2>2, <2>3, <3>1, <3>2, <3>3 DEF OneEach
      <3> QED
        BY <3>3 DEF OneEach
    <2>7. ASSUME NEW m \in 0 .. Len(ts), \A k \in 1 .. m : Occupied(ts[k])
          PROVE  m <= Len(new) /\ \A k \in 1 .. m : new[k] = ts[k]
      <3>1. m <= Len(cs) /\ \A k \in 1 .. m : cs[k] = ts[k]
        BY <1>2, <2>7
      <3> QED
        BY <2>2, <3>1
    <2> QED
      BY <1>2, <1>5, <2>2, <2>5, <2>6, <2>7
  <1> QED
    BY <1>4, <1>5

LEMMA UnscheduleLists ==
    ASSUME NEW ts \in Seq(Entry), NEW task \in Slots, NEW new, new = Unschedule(ts, task)
    PROVE  /\ new \in Seq(Entry)
           /\ \A x : Lists(new, x) <=> Lists(ts, x) /\ x.task # task
           /\ OneEach(ts) => OneEach(new)
           /\ pc # "idle" => /\ Len(new) = Len(ts)
                             /\ \A k \in 1 .. Len(ts) :
                                  new[k] = IF ts[k].task = task THEN [ts[k] EXCEPT !.task = NoTask] ELSE ts[k]
  <1>1. PICK cl : cl = [k \in 1 .. Len(ts) |->
                      IF ts[k].task = task THEN [ts[k] EXCEPT !.task = NoTask] ELSE ts[k]]
    OBVIOUS
  <1>2. new = IF pc = "idle" THEN compact_inactive(cl) ELSE cl
    BY <1>1, Zenon DEF Unschedule
  <1>3. ASSUME NEW k \in 1 .. Len(ts) PROVE [ts[k] EXCEPT !.task = NoTask] \in Entry
    <2>1. ts[k] \in Entry
      OBVIOUS
    <2> QED
      BY <2>1 DEF Entry
  <1>4. cl \in Seq(Entry) /\ Len(cl) = Len(ts)
    BY <1>1, <1>3
  <1>5. ASSUME NEW k \in 1 .. Len(ts)
        PROVE  /\ ts[k] \in Entry
               /\ ts[k].task = task => ~ Occupied(cl[k])
               /\ ts[k].task # task => cl[k] = ts[k]
    <2>1. ts[k] \in Entry
      OBVIOUS
    <2>2. cl[k] = IF ts[k].task = task THEN [ts[k] EXCEPT !.task = NoTask] ELSE ts[k]
      BY <1>1
    <2>3. [ts[k] EXCEPT !.task = NoTask].task = NoTask
      BY <2>1 DEF Entry
    <2> QED
      BY <2>1, <2>2, <2>3 DEF Occupied
  <1>6. ASSUME NEW x PROVE Lists(cl, x) <=> Lists(ts, x) /\ x.task # task
    BY <1>4, <1>5 DEF Lists
  <1>7. OneEach(ts) => OneEach(cl)
    BY <1>4, <1>5 DEF OneEach, Occupied
  <1>8. CASE pc = "idle"
    <2>1. /\ new \in Seq(Entry)
          /\ \A x : Lists(new, x) <=> Lists(cl, x)
          /\ OneEach(cl) => OneEach(new)
      BY <1>2, <1>4, <1>8, CompactLists
    <2> QED
      BY <1>6, <1>7, <1>8, <2>1
  <1>9. CASE pc # "idle"
    BY <1>1, <1>2, <1>4, <1>6, <1>7, <1>9
  <1> QED
    BY <1>8, <1>9

(* A periodic entry that is due moves on to the first point of its grid     *)
(* after now_us. *)
LEMMA NextDueIs ==
    ASSUME NEW e \in Entry, e.period_us # 0, now_us \in Nat
    PROVE  /\ NextDue(e) \in Nat
           /\ e.next_due_us <= now_us =>
                /\ \E n \in 1 .. now_us + 1 : NextDue(e) = e.next_due_us + n * e.period_us
                /\ now_us < NextDue(e) /\ NextDue(e) <= now_us + e.period_us
  <1>1. e.period_us \in Nat \ {0} /\ e.next_due_us \in Nat
    BY DEF Entry
  <1>2. CASE now_us < e.next_due_us
    BY <1>1, <1>2 DEF NextDue
  <1>3. CASE e.next_due_us <= now_us
    <2>1. PICK late \in Nat : late = now_us - e.next_due_us
      BY <1>1, <1>3
    <2>2. PICK n : n = late \div e.period_us
      OBVIOUS
    <2>3. n \in Nat /\ n <= late /\ n * e.period_us <= late /\ late < n * e.period_us + e.period_us
      BY <1>1, <2>1, <2>2
    <2>4. NextDue(e) = e.next_due_us + (n + 1) * e.period_us
      BY <1>1, <1>3, <2>1, <2>2 DEF NextDue
    <2>5. PICK p \in Nat \ {0} : p = e.period_us
      BY <1>1
    <2>6. n \in Nat /\ (n + 1) * p = n * p + p /\ n * p \in Nat /\ (n + 1) * p \in Nat
      BY <2>3, <2>5
    <2>7. n + 1 \in 1 .. now_us + 1
      BY <1>1, <2>1, <2>3
    <2>8. PICK m \in Nat : m = (n + 1) * p
      BY <2>6
    <2>9. NextDue(e) = e.next_due_us + m /\ late < m /\ m <= late + p
      <3>1. NextDue(e) = e.next_due_us + m
        BY <2>4, <2>5, <2>8
      <3>2. PICK q \in Nat : q = n * p
        BY <2>6
      <3>3. m = q + p /\ late < q + p /\ q <= late
        BY <2>3, <2>5, <2>6, <2>8, <3>2
      <3> QED
        BY <2>1, <2>5, <3>1, <3>3
    <2>10. \E k \in 1 .. now_us + 1 : NextDue(e) = e.next_due_us + k * e.period_us
      BY <2>4, <2>7
    <2> HIDE DEF NextDue
    <2>11. NextDue(e) \in Nat /\ now_us < NextDue(e) /\ NextDue(e) <= now_us + p
      BY <1>1, <1>3, <2>1, <2>5, <2>9
    <2> QED
      BY <2>5, <2>10, <2>11
  <1> QED
    BY <1>1, <1>2, <1>3

LEMMA AfterPollLists ==
    ASSUME NEW ts \in Seq(Entry), i \in 1 .. Len(ts), OneEach(ts), now_us \in Nat,
           NEW new, new = AfterPoll(ts)
    PROVE  /\ new \in Seq(Entry) /\ OneEach(new) /\ Len(new) = Len(ts)
           /\ ~ Occupied(ts[i]) => new = ts
           /\ Occupied(ts[i]) /\ ~ ts[i].periodic =>
                \A x : Lists(new, x) <=> Lists(ts, x) /\ x.task # ts[i].task
           /\ Occupied(ts[i]) /\ ts[i].periodic =>
                \A x : Lists(new, x) <=>
                         \/ Lists(ts, x) /\ x.task # ts[i].task
                         \/ x = [ts[i] EXCEPT !.next_due_us = NextDue(ts[i])]
  <1>0. ts[i] \in Entry /\ ~ (i > Len(ts))
    OBVIOUS
  <1>1. CASE ~ Occupied(ts[i])
    <2>1. new = ts
      BY <1>1 DEF AfterPoll
    <2> QED
      BY <1>1, <2>1
  <1>2. ASSUME NEW e \in Entry, Occupied(ts[i]), new = [ts EXCEPT ![i] = e],
               e.task = ts[i].task \/ ~ Occupied(e)
        PROVE  /\ new \in Seq(Entry) /\ OneEach(new) /\ Len(new) = Len(ts)
               /\ \A x : Lists(new, x) <=> (Lists(ts, x) /\ x.task # ts[i].task) \/ (Occupied(e) /\ x = e)
    <2>1. /\ new \in Seq(Entry) /\ Len(new) = Len(ts) /\ new[i] = e
          /\ \A k \in 1 .. Len(ts) : k # i => new[k] = ts[k]
      BY <1>2
    <2>2. \A k \in 1 .. Len(ts) : k # i => ts[k].task # ts[i].task
      BY <1>2 DEF OneEach
    <2>3. OneEach(new)
      BY <1>2, <2>1, <2>2 DEF OneEach, Occupied
    <2>4. ASSUME NEW x
          PROVE  Lists(new, x) <=> (Lists(ts, x) /\ x.task # ts[i].task) \/ (Occupied(e) /\ x = e)
      <3>1. ASSUME Lists(new, x) PROVE (Lists(ts, x) /\ x.task # ts[i].task) \/ (Occupied(e) /\ x = e)
        BY <2>1, <2>2, <3>1 DEF Lists
      <3>2. ASSUME Lists(ts, x), x.task # ts[i].task PROVE Lists(new, x)
        BY <2>1, <3>2 DEF Lists
      <3>3. ASSUME Occupied(e), x = e PROVE Lists(new, x)
        BY <2>1, <3>3 DEF Lists
      <3> QED
        BY <3>1, <3>2, <3>3
    <2> QED
      BY <2>1, <2>3, <2>4
  <1>3. CASE Occupied(ts[i]) /\ ~ ts[i].periodic
    <2>1. PICK e : e = [ts[i] EXCEPT !.task = NoTask]
      OBVIOUS
    <2>2. e \in Entry /\ ~ Occupied(e)
      BY <1>0, <2>1 DEF Entry, Occupied
    <2>3. new = [ts EXCEPT ![i] = e]
      BY <1>0, <1>3, <2>1 DEF AfterPoll
    <2> QED
      BY <1>2, <1>3, <2>2, <2>3
  <1>4. CASE Occupied(ts[i]) /\ ts[i].periodic
    <2>1. PICK due : due = NextDue(ts[i])
      OBVIOUS
    <2>2. due \in Nat
      BY <1>0, <1>4, <2>1, NextDueIs DEF Entry
    <2>3. PICK e : e = [ts[i] EXCEPT !.next_due_us = due]
      OBVIOUS
    <2>4. e \in Entry /\ Occupied(e) /\ e.task = ts[i].task
      BY <1>0, <1>4, <2>2, <2>3 DEF Entry, Occupied
    <2>5. new = [ts EXCEPT ![i] = e]
      BY <1>0, <1>4, <2>1, <2>3 DEF AfterPoll
    <2> QED
      BY <1>2, <1>4, <2>1, <2>3, <2>4, <2>5
  <1> QED
    BY <1>1, <1>3, <1>4

-----------------------------------------------------------------------------
(* The entries and the registrations. *)

(* The invariants, put in terms of the entries alone. *)
LEMMA ListedServe ==
    EntriesServe <=> \A e : Lists(tasks, e) /\ e.task \in Slots => \E c \in Callables : Serves(e, c)
  BY TaskNamesAssumption DEF EntriesServe, Lists, Occupied

LEMMA ListedServeNext ==
    EntriesServe' <=>
        \A e : Lists(tasks', e) /\ e.task \in Slots => \E c \in Callables : Serves(e, c)'
  BY TaskNamesAssumption DEF EntriesServe, Lists, Occupied

LEMMA ListedIsOne ==
    ASSUME NEW ts, OneEach(ts), NEW d, NEW e, Lists(ts, d), Lists(ts, e), d.task = e.task
    PROVE  d = e
  BY DEF Lists, OneEach

LEMMA ScheduledIsListed ==
    ASSUME NEW t, t # NoTask
    PROVE  Scheduled(t) <=> \E e : Lists(tasks, e) /\ e.task = t
  BY DEF Scheduled, Lists, Occupied

(* The registration of a callable and what was asked for stay. *)
Untouched(c) ==
    /\ regs'[c] = regs[c] /\ promise'[c].period = promise[c].period
    /\ Live(c) => callback_tasks'[regs[c].handle.slot].enabled = callback_tasks[regs[c].handle.slot].enabled

LEMMA StillServes ==
    ASSUME NEW c \in Callables, Untouched(c), NEW e, Serves(e, c)
    PROVE  Serves(e, c)'
  BY DEF Untouched, Serves, Live

(* Two live registrations do not share a slot. *)
LEMMA OneOwner ==
    ASSUME ELInv, NEW c \in Callables, NEW d \in Callables, Live(c), Live(d),
           regs[c].handle.slot = regs[d].handle.slot
    PROVE  c = d
  BY DEF ELInv, HandleTrace, TraceOf, Live

(* The callable being executed, and whether its registration is over. *)
LEMMA PolledOwner ==
    ASSUME ELInv, PollAgrees, polled \in Slots, NEW c, c = callback_tasks[polled].stored
    PROVE  /\ c \in Callables /\ regs[c].handle.slot = polled
           /\ callback_used[polled] <=> Live(c)
           /\ ~ Live(c) => Over(c)
           /\ \A d \in Callables : Live(d) /\ regs[d].handle.slot = polled => d = c
  <1>1. callback_tasks[polled].invoking
    BY DEF PollAgrees
  <1>2. c \in Callables
    BY <1>1 DEF ELInv, SlotFlags, ELTypeOK, Task
  <1>3. /\ regs[c].handle.slot = polled
        /\ callback_tasks[polled].active => Live(c)
        /\ ~ callback_tasks[polled].active => Over(c)
    BY <1>2, NoCallableAssumption DEF ELInv, StoredOwner, Live, Over
  <1>4. Live(c) => ~ Over(c)
    BY DEF Live, Over
  <1>5. callback_used[polled] <=> callback_tasks[polled].active
    BY DEF ELInv, SlotFlags
  <1>6. ASSUME NEW d \in Callables, Live(d), regs[d].handle.slot = polled PROVE d = c
    BY <1>6 DEF Live, ELInv, HandleTrace, TraceOf
  <1> QED
    BY <1>2, <1>3, <1>4, <1>5, <1>6

(* Entries are added behind the one being scanned, which stays. *)
LEMMA AddKeepsPolled ==
    ASSUME SchedTypeOK, PollAgrees, InCallback # "anything", MayRegister,
           NEW task \in Slots \cup RawTasks, NEW periodic \in BOOLEAN, NEW period \in Nat, NEW due \in Nat,
           periodic \/ period = 0,
           tasks' = Add(tasks, task, periodic, period, due) \/ tasks' = tasks,
           UNCHANGED <<pc, i, now_us, polled>>,
           \A s \in Slots : /\ callback_tasks'[s].invoking = callback_tasks[s].invoking
                            /\ callback_used[s] => callback_used'[s]
                            /\ polled = s => callback_used'[s] = callback_used[s]
    PROVE  PollAgrees'
  <1>1. ASSUME pc = "poll", tasks' = Add(tasks, task, periodic, period, due)
        PROVE  i <= Len(tasks') /\ tasks'[i] = tasks[i]
    <2>1. i \in 1 .. Len(tasks)
      BY <1>1 DEF PollAgrees, SchedTypeOK
    <2>2. ~ Hole
      BY <1>1 DEF MayRegister
    <2>3. \A k \in 1 .. i : Occupied(tasks[k])
      BY <2>1, <2>2 DEF Hole
    <2>4. PICK new : new = tasks'
      OBVIOUS
    <2>5. PICK e : e = [task |-> task, period_us |-> period, next_due_us |-> due, periodic |-> periodic]
      OBVIOUS
    <2>6. tasks \in Seq(Entry) /\ new = Add(tasks, task, periodic, period, due)
      BY <1>1, <2>4 DEF SchedTypeOK
    <2>7. \A m \in 0 .. Len(tasks) : (\A k \in 1 .. m : Occupied(tasks[k])) =>
              m <= Len(new) /\ \A k \in 1 .. m : new[k] = tasks[k]
      BY <2>5, <2>6, AddLists
    <2>8. i <= Len(new) /\ \A k \in 1 .. i : new[k] = tasks[k]
      BY <2>1, <2>3, <2>7
    <2> QED
      BY <2>1, <2>4, <2>8
  <1>2. pc = "poll" => i <= Len(tasks') /\ tasks'[i] = tasks[i]
    BY <1>1 DEF PollAgrees
  <1> QED
    BY <1>2 DEF PollAgrees

(* What a registration does, whatever its outcome. *)
LEMMA RegisterEffect ==
    ASSUME ELInv, SchedTypeOK, NEW c \in Callables, NEW k \in Kinds, NEW period \in Nat, NEW due \in Nat,
           NEW from \in Nat, RegisterTimer(c, k, period, due, from)
    PROVE  /\ regs[c].phase = "new"
           /\ \A d \in Callables : d # c => Untouched(d) /\ promise'[d] = promise[d]
           /\ promise' \in [Callables -> Promise]
           /\ ExecutingKept
           /\ \/ regs'[c].phase = "rejected" /\ tasks' = tasks /\ callback_used' = callback_used
              \/ /\ regs'[c].phase = "rejected" /\ callback_used' = callback_used
                 /\ \E s \in Slots :
                      /\ ~ callback_used[s] /\ AddFails(tasks, k = "repeat", period)
                      /\ tasks' = Add(tasks, s, k = "repeat", period, due)
              \/ \E s \in Slots :
                   /\ ~ AddFails(tasks, k = "repeat", period)
                   /\ tasks' = Add(tasks, s, k = "repeat", period, due)
                   /\ Live(c)' /\ regs'[c].kind = k /\ regs'[c].handle.slot = s
                   /\ promise'[c].period = period
                   /\ callback_tasks'[s].enabled
                   /\ ~ callback_used[s] /\ ~ callback_tasks[s].invoking
                   /\ callback_used' = [callback_used EXCEPT ![s] = TRUE]
  <1>1. Register(c, k)
    BY DEF RegisterTimer, Register
  <1>2. regs[c].phase = "new"
    BY DEF RegisterTimer, RejectTableFull, RejectBusySlot, RejectUnscheduled, Accept
  <1>3. ExecutingKept
    BY <1>1, RegisterKeepsExecuting
  <1>4. promise' = promise \/ promise' = [promise EXCEPT ![c] =
                                  [since |-> clock, from |-> from, period |-> period, runs |-> 0]]
    BY DEF RegisterTimer
  <1>5. clock \in Nat /\ promise \in [Callables -> Promise]
    BY ClockAssumption DEF SchedTypeOK
  <1>6. promise' \in [Callables -> Promise] /\ \A d \in Callables : d # c => promise'[d] = promise[d]
    <2>1. [since |-> clock, from |-> from, period |-> period, runs |-> 0] \in Promise
      BY <1>5 DEF Promise
    <2> QED
      BY <1>4, <1>5, <2>1
  <1>7. ASSUME NEW d \in Callables, d # c PROVE Untouched(d)
    BY <1>1, <1>6, <1>7, RegisterKeepsOthers DEF Untouched
  <1>8. CASE RejectTableFull(c) /\ UNCHANGED <<tasks, promise>>
    BY <1>2, <1>3, <1>6, <1>7, <1>8 DEF RejectTableFull, Reject, ELInv, ELTypeOK, Registration
  <1>9. CASE \E s \in Slots : RejectBusySlot(c, s) /\ UNCHANGED <<tasks, promise>>
    BY <1>2, <1>3, <1>6, <1>7, <1>9 DEF RejectBusySlot, Reject, ELInv, ELTypeOK, Registration
  <1>10. ASSUME NEW s \in Slots, AddFails(tasks, k = "repeat", period), RejectUnscheduled(c, s),
                tasks' = Add(tasks, s, k = "repeat", period, due)
         PROVE  /\ regs'[c].phase = "rejected" /\ callback_used' = callback_used
                /\ ~ callback_used[s] /\ AddFails(tasks, k = "repeat", period)
                /\ tasks' = Add(tasks, s, k = "repeat", period, due)
    BY <1>10 DEF RejectUnscheduled, FirstUnused, Reject, ELInv, ELTypeOK, Registration
  <1>11. ASSUME NEW s \in Slots, ~ AddFails(tasks, k = "repeat", period), Accept(c, k, s),
                tasks' = Add(tasks, s, k = "repeat", period, due),
                promise' = [promise EXCEPT ![c] =
                                  [since |-> clock, from |-> from, period |-> period, runs |-> 0]]
         PROVE  /\ ~ AddFails(tasks, k = "repeat", period)
                /\ tasks' = Add(tasks, s, k = "repeat", period, due)
                /\ Live(c)' /\ regs'[c].kind = k /\ regs'[c].handle.slot = s
                /\ promise'[c].period = period
                /\ callback_tasks'[s].enabled
                /\ ~ callback_used[s] /\ ~ callback_tasks[s].invoking
                /\ callback_used' = [callback_used EXCEPT ![s] = TRUE]
    <2>1. promise'[c].period = period
      BY <1>5, <1>11
    <2>2. Live(c)' /\ regs'[c].kind = k /\ regs'[c].handle.slot = s
      BY <1>11 DEF Accept, Live, ELInv, ELTypeOK
    <2>3. /\ ~ callback_used[s] /\ ~ callback_tasks[s].invoking
          /\ callback_used' = [callback_used EXCEPT ![s] = TRUE]
      BY <1>11 DEF Accept, FirstUnused, set_ok
    <2>4. callback_tasks'[s].enabled
      BY <1>11 DEF Accept, set, set_ok, clear, destroy_now, ELInv, ELTypeOK, Task
    <2> QED
      BY <1>11, <2>1, <2>2, <2>3, <2>4
  <1> QED
    BY <1>2, <1>3, <1>6, <1>7, <1>8, <1>9, <1>10, <1>11 DEF RegisterTimer

-----------------------------------------------------------------------------
(* The array, the scan and the registrations agree, action by action. *)

(* A slot that is not in use has no entry. *)
LEMMA UnusedHasNone ==
    ASSUME ELInv, EntriesServe, NEW s \in Slots, ~ callback_used[s]
    PROVE  \A k \in 1 .. Len(tasks) : tasks[k].task # s
  <1> SUFFICES ASSUME NEW k \in 1 .. Len(tasks), tasks[k].task = s PROVE FALSE
    OBVIOUS
  <1>1. PICK c \in Callables : Serves(tasks[k], c)
    BY DEF EntriesServe
  <1>2. valid(regs[c].handle)
    BY <1>1, LiveIsValid DEF Serves, Live
  <1> QED
    BY <1>1, <1>2 DEF Serves, valid

LEMMA RegisterKeepsTasks ==
    ASSUME ELInv, SchedTypeOK, TasksInv, InCallback # "anything", MayRegister,
           NEW c \in Callables, NEW k \in Kinds, NEW period \in Nat, NEW due \in Nat, NEW from \in Nat,
           k = "delay" => period = 0, RegisterTimer(c, k, period, due, from),
           UNCHANGED <<clock, pc, i, now_us, polled>>
    PROVE  SchedTypeOK' /\ TasksInv'
  <1> DEFINE periodic == (k = "repeat")
  <1>0. /\ tasks \in Seq(Entry) /\ periodic \in BOOLEAN /\ (periodic \/ period = 0)
        /\ OneEach(tasks) /\ EntriesServe /\ PollAgrees
    BY DEF SchedTypeOK, TasksInv, Kinds
  <1>1. /\ regs[c].phase = "new"
        /\ \A d \in Callables : d # c => Untouched(d) /\ promise'[d] = promise[d]
        /\ promise' \in [Callables -> Promise]
        /\ ExecutingKept
    BY RegisterEffect
  <1>2. ASSUME NEW e, Lists(tasks, e), e.task \in Slots
        PROVE  \E d \in Callables : Serves(e, d)'
    <2>1. PICK d \in Callables : Serves(e, d)
      BY <1>0, <1>2, ListedServe
    <2>2. d # c
      BY <1>1, <2>1 DEF Serves, Live
    <2> QED
      BY <1>1, <2>1, <2>2, StillServes
  <1>3. ASSUME tasks' \in Seq(Entry), OneEach(tasks'),
               \A e : Lists(tasks', e) /\ e.task \in Slots => \E d \in Callables : Serves(e, d)',
               PollAgrees'
        PROVE  SchedTypeOK' /\ TasksInv'
    <2>1. EntriesServe'
      BY <1>3, ListedServeNext
    <2>2. SchedTypeOK'
      BY <1>1, <1>3 DEF SchedTypeOK
    <2>3. OneEach(tasks)'
      BY <1>3
    <2> QED
      BY <1>3, <2>1, <2>2, <2>3 DEF TasksInv
  <1>4. CASE tasks' = tasks /\ callback_used' = callback_used
    <2>1. PollAgrees'
      BY <1>1, <1>4 DEF ExecutingKept, TasksInv, PollAgrees
    <2> QED
      BY <1>0, <1>2, <1>3, <1>4, <2>1
  <1>5. ASSUME NEW s \in Slots, ~ callback_used[s], tasks' = Add(tasks, s, periodic, period, due),
               callback_used' = callback_used
                 \/ (~ callback_tasks[s].invoking /\ callback_used' = [callback_used EXCEPT ![s] = TRUE]),
               ~ AddFails(tasks, periodic, period) =>
                  Live(c)' /\ regs'[c].kind = k /\ regs'[c].handle.slot = s /\ promise'[c].period = period
        PROVE  SchedTypeOK' /\ TasksInv'
    <2>1. PICK e : e = [task |-> s, period_us |-> period, next_due_us |-> due, periodic |-> periodic]
      OBVIOUS
    <2>2. PICK new : new = tasks'
      OBVIOUS
    <2>3. \A j \in 1 .. Len(tasks) : tasks[j].task # s
      BY <1>0, <1>5, UnusedHasNone
    <2>4. /\ new \in Seq(Entry) /\ OneEach(new)
          /\ \A x : Lists(new, x) <=> Lists(tasks, x) \/ (~ AddFails(tasks, periodic, period) /\ x = e)
      <3>1. new = Add(tasks, s, periodic, period, due)
        BY <1>5, <2>2
      <3> HIDE DEF periodic
      <3> QED
        BY <1>0, <2>1, <2>3, <3>1, AddLists
    <2>5. ~ AddFails(tasks, periodic, period) => Serves(e, c)'
      <3>1. e.task = s /\ e.period_us = period /\ e.periodic = periodic
        BY <2>1
      <3> QED
        BY <1>5, <3>1 DEF Serves
    <2>6. \A s0 \in Slots :
             /\ callback_tasks'[s0].invoking = callback_tasks[s0].invoking
             /\ callback_used[s0] => callback_used'[s0]
             /\ polled = s0 => callback_used'[s0] = callback_used[s0]
      BY <1>0, <1>1, <1>5 DEF ExecutingKept, PollAgrees, ELInv, ELTypeOK
    <2>7. PollAgrees'
      <3>1. s \in Slots \cup RawTasks
        OBVIOUS
      <3> HIDE DEF periodic
      <3> QED
        BY <1>0, <1>5, <2>6, <3>1, AddKeepsPolled
    <2>8. \A x : Lists(tasks', x) /\ x.task \in Slots => \E d \in Callables : Serves(x, d)'
      BY <1>2, <2>2, <2>4, <2>5
    <2> QED
      BY <1>3, <2>2, <2>4, <2>7, <2>8
  <1>6. \/ tasks' = tasks /\ callback_used' = callback_used
        \/ /\ callback_used' = callback_used
           /\ \E s \in Slots :
                /\ ~ callback_used[s] /\ AddFails(tasks, periodic, period)
                /\ tasks' = Add(tasks, s, periodic, period, due)
        \/ \E s \in Slots :
             /\ tasks' = Add(tasks, s, periodic, period, due)
             /\ Live(c)' /\ regs'[c].kind = k /\ regs'[c].handle.slot = s
             /\ promise'[c].period = period
             /\ ~ callback_used[s] /\ ~ callback_tasks[s].invoking
             /\ callback_used' = [callback_used EXCEPT ![s] = TRUE]
    BY RegisterEffect
  <1> HIDE DEF periodic
  <1> QED
    BY <1>4, <1>5, <1>6

(* The tasks of the application's own. *)
LEMMA RawKeepsTasks ==
    ASSUME ELInv, SchedTypeOK, TasksInv, InCallback # "anything",
           NEW r \in RawTasks, NEW periodic \in BOOLEAN, NEW period \in Nat, NEW due \in Nat,
           periodic \/ period = 0, add_raw(r, periodic, period, due)
    PROVE  /\ SchedTypeOK' /\ TasksInv'
           /\ \A e : e.task \in Slots => (Lists(tasks', e) <=> Lists(tasks, e))
           /\ UNCHANGED <<elVars, clock, now_us, polled, promise>>
  <1>0. /\ tasks \in Seq(Entry) /\ OneEach(tasks) /\ EntriesServe /\ PollAgrees
        /\ MayRegister /\ UNCHANGED <<elVars, clock, pc, i, now_us, polled, promise>>
        /\ \A k \in 1 .. Len(tasks) : tasks[k].task # r
    BY DEF SchedTypeOK, TasksInv, add_raw, Scheduled
  <1>1. PICK e : e = [task |-> r, period_us |-> period, next_due_us |-> due, periodic |-> periodic]
    OBVIOUS
  <1>2. PICK new : new = tasks'
    OBVIOUS
  <1>3. /\ new \in Seq(Entry) /\ OneEach(new)
        /\ \A x : Lists(new, x) <=> Lists(tasks, x) \/ (~ AddFails(tasks, periodic, period) /\ x = e)
    <2>1. r \in Slots \cup RawTasks /\ new = Add(tasks, r, periodic, period, due)
      BY <1>2 DEF add_raw
    <2> QED
      BY <1>0, <1>1, <2>1, AddLists
  <1>4. e.task \notin Slots
    BY <1>1, TaskNamesAssumption
  <1>5. \A x : x.task \in Slots => (Lists(tasks', x) <=> Lists(tasks, x))
    BY <1>2, <1>3, <1>4
  <1>6. PollAgrees'
    <2>1. r \in Slots \cup RawTasks /\ tasks' = Add(tasks, r, periodic, period, due)
      BY DEF add_raw
    <2>2. \A s \in Slots : /\ callback_tasks'[s].invoking = callback_tasks[s].invoking
                           /\ callback_used[s] => callback_used'[s]
                           /\ polled = s => callback_used'[s] = callback_used[s]
      BY <1>0 DEF elVars
    <2> QED
      BY <1>0, <2>1, <2>2, AddKeepsPolled
  <1>7. EntriesServe'
    <2>1. \A d \in Callables : Untouched(d)
      BY <1>0 DEF Untouched, elVars
    <2> QED
      BY <1>0, <1>5, <2>1, StillServes, ListedServe, ListedServeNext
  <1>8. SchedTypeOK'
    BY <1>0, <1>2, <1>3 DEF SchedTypeOK
  <1>9. OneEach(tasks)'
    BY <1>2, <1>3
  <1> QED
    BY <1>0, <1>5, <1>6, <1>7, <1>8, <1>9 DEF TasksInv

(* Removal ends the registration that has the slot now, and takes its entry *)
(* out. *)
LEMMA RemoveKeepsTasks ==
    ASSUME ELInv, SchedTypeOK, TasksInv, NEW c \in Callables, remove(c)
    PROVE  /\ SchedTypeOK' /\ TasksInv'
           /\ \A e : Lists(tasks', e) <=> Lists(tasks, e) /\ e.task # regs[c].handle.slot
           /\ \E d \in Callables :
                /\ Live(d) /\ regs[d].handle.slot = regs[c].handle.slot
                /\ regs'[d].phase = "removed"
                /\ \A o \in Callables \ {d} : Untouched(o)
           /\ ExecutingKept
  <1> DEFINE s == regs[c].handle.slot
  <1>0. /\ tasks \in Seq(Entry) /\ OneEach(tasks) /\ EntriesServe /\ PollAgrees
        /\ UNCHANGED <<clock, pc, i, now_us, polled, promise>>
        /\ Remove(regs[c].handle) /\ valid(regs[c].handle) /\ tasks' = Unschedule(tasks, s)
    BY DEF SchedTypeOK, TasksInv, remove
  <1>1. s \in Slots /\ callback_used[s] /\ callback_tasks[s].active
    <2>1. s \in Nat
      BY DEF ELInv, ELTypeOK, Registration, Handle
    <2> QED
      BY <1>0, <2>1, MaxCallbacksAssumption DEF valid, Slots
  <1>2. PICK new : new = tasks'
    OBVIOUS
  <1>3. /\ new \in Seq(Entry) /\ OneEach(new)
        /\ \A x : Lists(new, x) <=> Lists(tasks, x) /\ x.task # s
        /\ pc # "idle" => /\ Len(new) = Len(tasks)
                          /\ \A k \in 1 .. Len(tasks) :
                               new[k] = IF tasks[k].task = s THEN [tasks[k] EXCEPT !.task = NoTask] ELSE tasks[k]
    <2>1. new = Unschedule(tasks, s)
      BY <1>0, <1>2
    <2> HIDE DEF s
    <2> QED
      BY <1>0, <1>1, <2>1, UnscheduleLists
  <1>4. PICK d \in Callables : d = callback_tasks[s].stored
    BY <1>1 DEF ELInv, SlotFlags, ELTypeOK, Task
  <1>5. Live(d) /\ regs[d].handle.slot = s
    BY <1>1, <1>4, NoCallableAssumption DEF ELInv, StoredOwner, Live
  <1>6. regs'[d].phase = "removed" /\ \A o \in Callables \ {d} : regs'[o] = regs[o]
    BY <1>0, <1>4 DEF Remove, EndRegistration, ELInv, ELTypeOK, Registration
  <1>7. ASSUME NEW o \in Callables \ {d} PROVE Untouched(o)
    <2>1. ASSUME Live(o)
          PROVE  callback_tasks'[regs[o].handle.slot] = callback_tasks[regs[o].handle.slot]
      <3>1. regs[o].handle.slot # s
        BY <1>5, <2>1, OneOwner
      <3>2. regs[o].handle.slot \in Slots
        BY <2>1 DEF ELInv, HandleTrace, TraceOf, Live
      <3> QED
        BY <1>0, <3>1, <3>2 DEF Remove, ELInv, ELTypeOK
    <2> QED
      BY <1>0, <1>6, <2>1 DEF Untouched
  <1>8. ExecutingKept
    BY <1>0, UseKeepsExecuting DEF UseHandle
  <1>9. EntriesServe'
    <2>1. ASSUME NEW e, Lists(tasks', e), e.task \in Slots
          PROVE  \E o \in Callables : Serves(e, o)'
      <3>1. Lists(tasks, e) /\ e.task # s
        BY <1>2, <1>3, <2>1
      <3>2. PICK o \in Callables : Serves(e, o)
        BY <1>0, <2>1, <3>1, ListedServe
      <3>3. o # d
        BY <1>5, <3>1, <3>2 DEF Serves
      <3> QED
        BY <1>7, <3>2, <3>3, StillServes
    <2> QED
      BY <2>1, ListedServeNext
  <1>10. PollAgrees'
    <2>1. /\ callback_used'[s] = FALSE
          /\ \A t \in Slots : t # s => callback_used'[t] = callback_used[t]
      BY <1>0, <1>1 DEF Remove, ELInv, ELTypeOK
    <2>2. ASSUME pc = "poll"
          PROVE  /\ i <= Len(tasks')
                 /\ IF polled \in Slots /\ ~ callback_used'[polled]
                    THEN ~ Occupied(tasks'[i])
                    ELSE tasks'[i].task = polled /\ tasks'[i].next_due_us <= now_us
      <3>1. i \in 1 .. Len(tasks) /\ tasks[i] \in Entry
        BY <1>0, <2>2 DEF PollAgrees, SchedTypeOK
      <3>2. /\ Len(tasks') = Len(tasks)
            /\ tasks[i].task = s => tasks'[i].task = NoTask
            /\ tasks[i].task # s => tasks'[i] = tasks[i]
        <4>1. [tasks[i] EXCEPT !.task = NoTask].task = NoTask
          BY <3>1 DEF Entry
        <4> QED
          BY <1>2, <1>3, <2>2, <3>1, <4>1
      <3>3. CASE polled = s
        BY <1>0, <1>1, <2>1, <2>2, <3>2, <3>3 DEF PollAgrees, Occupied
      <3>4. CASE polled # s
        <4>1. tasks[i].task # s
          BY <1>0, <1>1, <2>2, <3>4, TaskNamesAssumption DEF PollAgrees, Occupied
        <4> QED
          BY <1>0, <2>1, <2>2, <3>2, <3>4, <4>1 DEF PollAgrees
      <3> QED
        BY <3>3, <3>4
    <2> QED
      BY <1>0, <1>8, <2>2 DEF PollAgrees, ExecutingKept
  <1>11. SchedTypeOK'
    BY <1>0, <1>2, <1>3 DEF SchedTypeOK
  <1>12. OneEach(tasks)'
    BY <1>2, <1>3
  <1> QED
    BY <1>2, <1>3, <1>5, <1>6, <1>7, <1>8, <1>9, <1>10, <1>11, <1>12 DEF TasksInv

(* Compaction between passes. *)
LEMMA CompactKeepsTasks ==
    ASSUME SchedTypeOK, TasksInv, pc # "poll", pc' # "poll",
           tasks' = compact_inactive(tasks) \/ tasks' = tasks,
           UNCHANGED <<elVars, promise, polled>>
    PROVE  /\ tasks' \in Seq(Entry) /\ TasksInv'
           /\ \A e : Lists(tasks', e) <=> Lists(tasks, e)
           /\ \A c \in Callables : Untouched(c)
  <1>0. /\ tasks \in Seq(Entry) /\ OneEach(tasks) /\ EntriesServe /\ PollAgrees
    BY DEF SchedTypeOK, TasksInv
  <1>1. PICK new : new = tasks'
    OBVIOUS
  <1>2. new \in Seq(Entry) /\ OneEach(new) /\ \A e : Lists(new, e) <=> Lists(tasks, e)
    <2>1. CASE new = tasks
      BY <1>0, <2>1
    <2>2. CASE new = compact_inactive(tasks)
      BY <1>0, <2>2, CompactLists
    <2> QED
      BY <1>1, <2>1, <2>2
  <1>3. \A c \in Callables : Untouched(c)
    BY DEF Untouched, elVars
  <1>4. EntriesServe'
    BY <1>0, <1>1, <1>2, <1>3, StillServes, ListedServe, ListedServeNext
  <1>5. PollAgrees'
    BY <1>0 DEF PollAgrees, elVars
  <1>6. OneEach(tasks)'
    BY <1>1, <1>2
  <1> QED
    BY <1>1, <1>2, <1>3, <1>4, <1>5, <1>6 DEF TasksInv

(* The callable of a task that is due starts to run. *)
LEMMA EnterKeepsTasks ==
    ASSUME ELInv, SchedTypeOK, TasksInv, PollEntry
    PROVE  /\ SchedTypeOK' /\ TasksInv'
           /\ \A c \in Callables : Untouched(c)
           /\ polled = NoTask /\ polled' = tasks[i].task
           /\ Lists(tasks, tasks[i]) /\ tasks[i].next_due_us <= now_us
           /\ polled' \in Slots =>
                /\ poll_runs(callback_tasks[polled'])
                /\ callback_tasks'[polled'].stored = callback_tasks[polled'].stored
  <1>0. /\ tasks \in Seq(Entry) /\ OneEach(tasks) /\ EntriesServe /\ PollAgrees
        /\ pc = "scan" /\ pc' = "poll" /\ i \in 1 .. Len(tasks) /\ polled' = tasks[i].task
        /\ Due(tasks[i]) /\ UNCHANGED <<tasks, clock, i, now_us>>
    BY DEF SchedTypeOK, TasksInv, PollEntry
  <1>1. /\ tasks[i] \in Entry /\ polled = NoTask /\ \A s \in Slots : ~ callback_tasks[s].invoking
    BY <1>0, TaskNamesAssumption DEF PollAgrees
  <1>2. Occupied(tasks[i]) /\ tasks[i].next_due_us <= now_us /\ Lists(tasks, tasks[i])
    <2>1. now_us \in Nat /\ tasks[i].next_due_us \in Nat
      BY <1>1 DEF SchedTypeOK, Entry
    <2> QED
      BY <1>0, <2>1 DEF Due, Lists
  <1>3. ASSUME tasks[i].task \in RawTasks, UNCHANGED <<elVars, promise>>
        PROVE  /\ promise' \in [Callables -> Promise] /\ \A c \in Callables : Untouched(c)
               /\ UNCHANGED <<regs, callback_used>> /\ callback_tasks' = callback_tasks
    BY <1>3 DEF SchedTypeOK, Untouched, elVars
  <1>4. ASSUME tasks[i].task \in Slots, PollEnter(tasks[i].task),
               promise' = [promise EXCEPT ![callback_tasks[tasks[i].task].stored].runs = @ + 1]
        PROVE  /\ promise' \in [Callables -> Promise] /\ \A c \in Callables : Untouched(c)
               /\ UNCHANGED <<regs, callback_used>>
               /\ \A s \in Slots : callback_tasks'[s].invoking <=> tasks[i].task = s
               /\ poll_runs(callback_tasks[tasks[i].task])
               /\ callback_tasks'[tasks[i].task].stored = callback_tasks[tasks[i].task].stored
    <2> DEFINE s == tasks[i].task
    <2>1. /\ UNCHANGED <<regs, callback_used>> /\ poll_runs(callback_tasks[s])
          /\ callback_tasks' = [callback_tasks EXCEPT ![s] = poll_enter(callback_tasks[s])]
      BY <1>4 DEF PollEnter
    <2>2. callback_tasks \in [Slots -> Task]
      BY DEF ELInv, ELTypeOK
    <2>3. /\ callback_tasks'[s].invoking /\ callback_tasks'[s].stored = callback_tasks[s].stored
          /\ callback_tasks'[s].enabled = callback_tasks[s].enabled
          /\ \A t \in Slots : t # s => callback_tasks'[t] = callback_tasks[t]
      BY <1>4, <2>1, <2>2 DEF poll_enter, Task
    <2>4. promise \in [Callables -> Promise]
      BY DEF SchedTypeOK
    <2>5. promise' \in [Callables -> Promise] /\ \A c \in Callables : promise'[c].period = promise[c].period
      <3>1. PICK o : o = callback_tasks[s].stored
        OBVIOUS
      <3>2. promise' = [promise EXCEPT ![o] = [promise[o] EXCEPT !.runs = @ + 1]]
        BY <1>4, <3>1
      <3>3. ASSUME NEW c \in Callables
            PROVE  /\ [promise[c] EXCEPT !.runs = @ + 1] \in Promise
                   /\ [promise[c] EXCEPT !.runs = @ + 1].period = promise[c].period
        <4>1. promise[c] \in Promise
          BY <2>4
        <4> QED
          BY <4>1 DEF Promise
      <3> QED
        BY <2>4, <3>2, <3>3
    <2>6. ASSUME NEW c \in Callables PROVE Untouched(c)
      <3>1. Live(c) => regs[c].handle.slot \in Slots
        BY DEF ELInv, HandleTrace, TraceOf, Live
      <3> QED
        BY <2>1, <2>3, <2>5, <3>1 DEF Untouched
    <2>7. \A t \in Slots : callback_tasks'[t].invoking <=> t = s
      BY <1>1, <2>3
    <2> QED
      BY <2>1, <2>3, <2>5, <2>6, <2>7
  <1>5. /\ promise' \in [Callables -> Promise] /\ \A c \in Callables : Untouched(c)
        /\ UNCHANGED <<regs, callback_used>>
        /\ \A s \in Slots : callback_tasks'[s].invoking <=> tasks[i].task = s
        /\ polled' \in Slots =>
                /\ poll_runs(callback_tasks[polled'])
                /\ callback_tasks'[polled'].stored = callback_tasks[polled'].stored
    <2>1. \/ tasks[i].task \in RawTasks /\ UNCHANGED <<elVars, promise>>
          \/ /\ tasks[i].task \in Slots /\ PollEnter(tasks[i].task)
             /\ promise' = [promise EXCEPT ![callback_tasks[tasks[i].task].stored].runs = @ + 1]
      BY DEF PollEntry
    <2>2. CASE tasks[i].task \in RawTasks /\ UNCHANGED <<elVars, promise>>
      BY <1>0, <1>1, <1>3, <2>2, TaskNamesAssumption
    <2>3. CASE /\ tasks[i].task \in Slots /\ PollEnter(tasks[i].task)
               /\ promise' = [promise EXCEPT ![callback_tasks[tasks[i].task].stored].runs = @ + 1]
      BY <1>0, <1>4, <2>3
    <2> QED
      BY <2>1, <2>2, <2>3
  <1>6. EntriesServe'
    BY <1>0, <1>5, StillServes, ListedServe, ListedServeNext
  <1>7. tasks[i].task \in Slots => callback_used[tasks[i].task]
    BY <1>0, UnusedHasNone
  <1>8. PollAgrees'
    BY <1>0, <1>2, <1>5, <1>7 DEF PollAgrees, Occupied
  <1>9. SchedTypeOK'
    BY <1>0, <1>1, <1>5 DEF SchedTypeOK, Entry
  <1>10. OneEach(tasks)'
    BY <1>0
  <1> QED
    BY <1>0, <1>1, <1>2, <1>5, <1>6, <1>8, <1>9, <1>10 DEF TasksInv

(* The array after poll() returned, or had nothing to do: the entry scanned *)
(* moves on, is consumed, or was empty. *)
LEMMA MovesOnOrGoes ==
    ASSUME SchedTypeOK, OneEach(tasks), i \in 1 .. Len(tasks), NEW e, e = tasks[i],
           tasks' = AfterPoll(tasks)
    PROVE  /\ tasks' \in Seq(Entry) /\ OneEach(tasks')
           /\ ~ Occupied(e) => tasks' = tasks
           /\ \A x : x.task # e.task => (Lists(tasks', x) <=> Lists(tasks, x))
           /\ Occupied(e) /\ ~ e.periodic => \A x : Lists(tasks', x) => x.task # e.task
           /\ Occupied(e) /\ e.periodic =>
                \A x : x.task = e.task =>
                    (Lists(tasks', x) <=> x = [e EXCEPT !.next_due_us = NextDue(e)])
  <1>1. tasks \in Seq(Entry) /\ now_us \in Nat /\ e \in Entry
    BY DEF SchedTypeOK
  <1>2. PICK new : new = tasks'
    OBVIOUS
  <1>3. /\ new \in Seq(Entry) /\ OneEach(new)
        /\ ~ Occupied(e) => new = tasks
        /\ Occupied(e) /\ ~ e.periodic => \A x : Lists(new, x) <=> Lists(tasks, x) /\ x.task # e.task
        /\ Occupied(e) /\ e.periodic =>
                \A x : Lists(new, x) <=>
                         \/ Lists(tasks, x) /\ x.task # e.task
                         \/ x = [e EXCEPT !.next_due_us = NextDue(e)]
    BY <1>1, <1>2, AfterPollLists
  <1>4. PICK due : due = NextDue(e)
    OBVIOUS
  <1>5. [e EXCEPT !.next_due_us = due].task = e.task
    BY <1>1 DEF Entry
  <1> QED
    BY <1>2, <1>3, <1>4, <1>5

(* An entry that moves on serves the same registration. *)
LEMMA MovedServes ==
    ASSUME NEW c \in Callables, NEW e, Serves(e, c), Untouched(c), NEW due, NEW x,
           x = [e EXCEPT !.next_due_us = due], e \in Entry
    PROVE  Serves(x, c)'
  <1>1. x.task = e.task /\ x.periodic = e.periodic /\ x.period_us = e.period_us
    BY DEF Entry
  <1>2. Serves(e, c)'
    BY StillServes
  <1> QED
    BY <1>1, <1>2 DEF Serves

(* The task that is due is disabled: its entry moves on, or is lost when it *)
(* is a delay's. *)
LEMMA PollNothingKeepsTasks ==
    ASSUME ELInv, SchedTypeOK, TasksInv, PollNothing
    PROVE  /\ SchedTypeOK' /\ TasksInv'
           /\ \A c \in Callables : Untouched(c)
           /\ i \in 1 .. Len(tasks) /\ Lists(tasks, tasks[i]) /\ tasks[i].task \in Slots
           /\ tasks[i].next_due_us <= now_us /\ tasks' = AfterPoll(tasks)
           /\ UNCHANGED <<elVars, clock, now_us, polled, promise>>
           /\ ~ poll_runs(callback_tasks[tasks[i].task])
  <1>0. /\ tasks \in Seq(Entry) /\ OneEach(tasks) /\ EntriesServe /\ PollAgrees
        /\ pc = "scan" /\ i \in 1 .. Len(tasks) /\ Due(tasks[i]) /\ tasks[i].task \in Slots
        /\ tasks' = AfterPoll(tasks) /\ i' = i + 1
        /\ UNCHANGED <<elVars, clock, pc, now_us, polled, promise>>
    BY DEF SchedTypeOK, TasksInv, PollNothing
  <1>1. PICK e \in Entry : e = tasks[i]
    BY <1>0
  <1>2. Occupied(e) /\ e.next_due_us <= now_us /\ Lists(tasks, e)
    <2>1. now_us \in Nat /\ e.next_due_us \in Nat
      BY <1>1 DEF SchedTypeOK, Entry
    <2> QED
      BY <1>0, <1>1, <2>1 DEF Due, Lists
  <1>3. \A c \in Callables : Untouched(c)
    BY <1>0 DEF Untouched, elVars
  <1>4. /\ tasks' \in Seq(Entry) /\ OneEach(tasks')
        /\ \A x : x.task # e.task => (Lists(tasks', x) <=> Lists(tasks, x))
        /\ ~ e.periodic => \A x : Lists(tasks', x) => x.task # e.task
        /\ e.periodic => \A x : x.task = e.task =>
                    (Lists(tasks', x) <=> x = [e EXCEPT !.next_due_us = NextDue(e)])
    BY <1>0, <1>1, <1>2, MovesOnOrGoes
  <1>5. ASSUME NEW x, Lists(tasks', x), x.task \in Slots
        PROVE  \E c \in Callables : Serves(x, c)'
    <2>1. CASE x.task # e.task
      BY <1>0, <1>3, <1>4, <1>5, <2>1, ListedServe, StillServes
    <2>2. CASE x.task = e.task
      <3>1. x = [e EXCEPT !.next_due_us = NextDue(e)]
        BY <1>4, <1>5, <2>2
      <3>2. PICK c \in Callables : Serves(e, c)
        BY <1>0, <1>1 DEF EntriesServe
      <3> QED
        BY <1>3, <3>1, <3>2, MovedServes
    <2> QED
      BY <2>1, <2>2
  <1>6. EntriesServe'
    BY <1>5, ListedServeNext
  <1>7. PollAgrees'
    BY <1>0 DEF PollAgrees, elVars
  <1>8. SchedTypeOK'
    BY <1>0, <1>4 DEF SchedTypeOK
  <1>9. OneEach(tasks)'
    BY <1>4
  <1>10. ~ poll_runs(callback_tasks[tasks[i].task])
    BY DEF PollNothing
  <1> QED
    BY <1>0, <1>1, <1>2, <1>3, <1>6, <1>7, <1>8, <1>9, <1>10 DEF TasksInv

(* poll() returns: what became of the registration of the callable, and of  *)
(* the entry scanned. *)
ReturnCases(c) ==
    \/ ~ Live(c) /\ Over(c) /\ regs'[c].phase \in {"removed", "done"} /\ tasks' = tasks
    \/ /\ Live(c) /\ regs[c].kind = "delay" /\ regs'[c].phase = "done"
       /\ Serves(tasks[i], c) /\ tasks[i].task = polled
       /\ \A x : Lists(tasks', x) => x.task # polled
    \/ /\ Live(c) /\ regs[c].kind = "repeat" /\ Untouched(c)
       /\ Serves(tasks[i], c) /\ tasks[i].task = polled /\ tasks[i].next_due_us <= now_us
       /\ \A x : x.task = polled =>
             (Lists(tasks', x) <=> x = [tasks[i] EXCEPT !.next_due_us = NextDue(tasks[i])])

LEMMA ReturnKeepsTasks ==
    ASSUME ELInv, SchedTypeOK, TasksInv, PollReturns
    PROVE  /\ SchedTypeOK' /\ TasksInv'
           /\ \A e : e.task # polled => (Lists(tasks', e) <=> Lists(tasks, e))
           /\ polled # NoTask /\ polled' = NoTask /\ UNCHANGED <<clock, now_us, promise>>
           /\ polled \notin Slots => UNCHANGED elVars
           /\ polled \in Slots =>
                \E c \in Callables :
                   /\ c = callback_tasks[polled].stored /\ regs[c].handle.slot = polled
                   /\ \A d \in Callables \ {c} : Untouched(d)
                   /\ ReturnCases(c)
  <1>0. /\ tasks \in Seq(Entry) /\ OneEach(tasks) /\ EntriesServe /\ PollAgrees
        /\ pc = "poll" /\ pc' = "scan" /\ i \in 1 .. Len(tasks) /\ polled # NoTask /\ polled' = NoTask
        /\ tasks' = AfterPoll(tasks) /\ i' = i + 1
        /\ UNCHANGED <<clock, now_us, promise>>
    BY DEF SchedTypeOK, TasksInv, PollReturns, PollAgrees
  <1>1. PICK e \in Entry : e = tasks[i]
    BY <1>0
  <1>2. /\ tasks' \in Seq(Entry) /\ OneEach(tasks')
        /\ ~ Occupied(e) => tasks' = tasks
        /\ \A x : x.task # e.task => (Lists(tasks', x) <=> Lists(tasks, x))
        /\ Occupied(e) /\ ~ e.periodic => \A x : Lists(tasks', x) => x.task # e.task
        /\ Occupied(e) /\ e.periodic => \A x : x.task = e.task =>
                    (Lists(tasks', x) <=> x = [e EXCEPT !.next_due_us = NextDue(e)])
    BY <1>0, <1>1, MovesOnOrGoes
  <1>3. \A x : x.task # polled => (Lists(tasks', x) <=> Lists(tasks, x))
    BY <1>0, <1>1, <1>2 DEF PollAgrees
  <1>4. SchedTypeOK'
    BY <1>0, <1>2, TaskNamesAssumption DEF SchedTypeOK
  <1>5. OneEach(tasks)'
    BY <1>2
  <1>6. ASSUME \A s \in Slots : ~ callback_tasks'[s].invoking PROVE PollAgrees'
    BY <1>0, <1>6, TaskNamesAssumption DEF PollAgrees
  <1>7. CASE polled \notin Slots
    <2>1. UNCHANGED elVars
      BY <1>7 DEF PollReturns
    <2>2. \A c \in Callables : Untouched(c)
      BY <1>0, <2>1 DEF Untouched, elVars
    <2>3. PollAgrees'
      BY <1>0, <1>6, <1>7, <2>1 DEF PollAgrees, elVars
    <2>4. EntriesServe'
      BY <1>0, <1>3, <1>7, <2>2, StillServes, ListedServe, ListedServeNext
    <2> QED
      BY <1>0, <1>3, <1>4, <1>5, <1>7, <2>1, <2>3, <2>4 DEF TasksInv
  <1>8. CASE polled \in Slots
    <2>0. PollLeave(polled)
      BY <1>8 DEF PollReturns
    <2>1. PICK c : c = callback_tasks[polled].stored
      OBVIOUS
    <2>2. /\ c \in Callables /\ regs[c].handle.slot = polled
          /\ callback_used[polled] <=> Live(c)
          /\ ~ Live(c) => Over(c)
          /\ \A d \in Callables : Live(d) /\ regs[d].handle.slot = polled => d = c
      BY <1>0, <1>8, <2>1, PolledOwner
    <2>3. /\ \A d \in Callables : d # c => regs'[d] = regs[d]
          /\ \A t \in Slots : t # polled => callback_tasks'[t] = callback_tasks[t]
          /\ Over(c) => regs'[c].phase \in {"removed", "done"}
          /\ Live(c) /\ regs[c].kind = "delay" => regs'[c].phase = "done"
          /\ Live(c) /\ regs[c].kind # "delay" =>
               /\ regs'[c] = regs[c] /\ regs[c].handle.slot = polled
               /\ callback_tasks'[polled].enabled = callback_tasks[polled].enabled
      BY <1>8, <2>0, <2>1, <2>2, LeaveEffect
    <2>4. ASSUME NEW d \in Callables \ {c} PROVE Untouched(d)
      <3>1. Live(d) => regs[d].handle.slot \in Slots \ {polled}
        BY <2>2 DEF ELInv, HandleTrace, TraceOf, Live
      <3> QED
        BY <1>0, <2>3, <3>1 DEF Untouched
    <2>5. PollAgrees'
      <3>1. ~ callback_tasks'[polled].invoking
        BY <1>8, <2>0 DEF PollLeave, poll_leave, clear, destroy_now, ELInv, ELTypeOK, Task
      <3>2. \A s \in Slots : ~ callback_tasks'[s].invoking
        BY <1>0, <2>3, <3>1 DEF PollAgrees
      <3> QED
        BY <1>6, <3>2
    <2>6. Live(c) => Serves(e, c) /\ e.task = polled /\ e.next_due_us <= now_us /\ Occupied(e)
      <3>1. ASSUME Live(c) PROVE e.task = polled /\ e.next_due_us <= now_us
        BY <1>0, <1>1, <1>8, <2>2, <3>1 DEF PollAgrees
      <3>2. ASSUME Live(c) PROVE Serves(e, c)
        <4>1. PICK d \in Callables : Serves(e, d)
          BY <1>0, <1>1, <1>8, <3>1, <3>2 DEF EntriesServe
        <4>2. d = c
          BY <2>2, <3>1, <3>2, <4>1 DEF Serves
        <4> QED
          BY <4>1, <4>2
      <3> QED
        BY <1>0, <3>1, <3>2 DEF Occupied
    <2>7. ReturnCases(c)
      <3>1. CASE ~ Live(c)
        <4>1. ~ Occupied(e)
          BY <1>0, <1>1, <1>8, <2>2, <3>1 DEF PollAgrees
        <4>2. regs'[c].phase \in {"removed", "done"}
          BY <2>2, <2>3, <3>1
        <4> QED
          BY <1>2, <2>2, <3>1, <4>1, <4>2 DEF ReturnCases
      <3>2. CASE Live(c) /\ regs[c].kind = "delay"
        <4>1. ~ e.periodic
          BY <2>6, <3>2 DEF Serves
        <4> QED
          BY <1>1, <1>2, <2>3, <2>6, <3>2, <4>1 DEF ReturnCases
      <3>3. CASE Live(c) /\ regs[c].kind # "delay"
        <4>1. regs[c].kind = "repeat" /\ e.periodic
          BY <2>2, <2>6, <3>3 DEF Serves, ELInv, ELTypeOK, Registration, Kinds
        <4>2. Untouched(c)
          BY <1>0, <2>3, <3>3 DEF Untouched
        <4> QED
          BY <1>1, <1>2, <2>6, <3>3, <4>1, <4>2 DEF ReturnCases
      <3> QED
        BY <3>1, <3>2, <3>3
    <2>8. EntriesServe'
      <3>1. ASSUME NEW x, Lists(tasks', x), x.task \in Slots
            PROVE  \E d \in Callables : Serves(x, d)'
        <4>1. CASE x.task # polled
          <5>1. PICK d \in Callables : Serves(x, d)
            BY <1>0, <1>3, <3>1, <4>1, ListedServe
          <5>2. d # c
            BY <2>2, <4>1, <5>1 DEF Serves
          <5> QED
            BY <2>4, <5>1, <5>2, StillServes
        <4>2. CASE x.task = polled
          <5>1. CASE ~ Live(c)
            <6>1. Lists(tasks, x)
              BY <2>7, <3>1, <5>1 DEF ReturnCases
            <6>2. PICK d \in Callables : Serves(x, d)
              BY <1>0, <3>1, <6>1, ListedServe
            <6> QED
              BY <2>2, <4>2, <5>1, <6>2 DEF Serves
          <5>2. CASE Live(c)
            <6>1. /\ Untouched(c) /\ Serves(e, c)
                  /\ x = [e EXCEPT !.next_due_us = NextDue(e)]
              BY <1>1, <2>7, <3>1, <4>2, <5>2 DEF ReturnCases
            <6> QED
              BY <2>2, <6>1, MovedServes
          <5> QED
            BY <5>1, <5>2
        <4> QED
          BY <4>1, <4>2
      <3> QED
        BY <3>1, ListedServeNext
    <2> QED
      BY <1>0, <1>3, <1>4, <1>5, <1>8, <2>1, <2>2, <2>4, <2>5, <2>7, <2>8 DEF TasksInv
  <1> QED
    BY <1>7, <1>8

LEMMA TasksInvInit == Init => SchedTypeOK /\ TasksInv
  <1> SUFFICES ASSUME Init PROVE SchedTypeOK /\ TasksInv
    OBVIOUS
  <1>1. tasks = <<>> /\ clock = 0 /\ now_us = 0 /\ pc = "idle" /\ i = 1 /\ polled = NoTask
    BY DEF Init
  <1>2. \A s \in Slots : ~ callback_tasks[s].invoking
    BY DEF Init, ELInit, EmptyTask
  <1>3. promise \in [Callables -> Promise]
    BY DEF Init, Promise
  <1>4. SchedTypeOK
    BY <1>1, <1>3, ClockAssumption DEF SchedTypeOK
  <1> QED
    BY <1>1, <1>2, <1>4, TaskNamesAssumption DEF TasksInv, OneEach, EntriesServe, PollAgrees

LEMMA TasksInvStep ==
    InCallback # "anything" /\ ELInv /\ SchedTypeOK /\ TasksInv /\ [Next]_vars => SchedTypeOK' /\ TasksInv'
  <1> SUFFICES ASSUME InCallback # "anything", ELInv, SchedTypeOK, TasksInv, [Next]_vars
               PROVE  SchedTypeOK' /\ TasksInv'
    OBVIOUS
  <1>0. clock \in Nat /\ ClockMax \in Nat /\ MaxTime \in Nat /\ clock <= MaxTime /\ MaxTime <= ClockMax
    BY ClockAssumption DEF SchedTypeOK
  <1>1. ASSUME NEW c \in Callables, NEW p \in Periods, on_repeat_us(c, p) PROVE SchedTypeOK' /\ TasksInv'
    BY <1>0, <1>1, RequestsAssumption, RegisterKeepsTasks DEF on_repeat_us, Kinds
  <1>2. ASSUME NEW c \in Callables, NEW d \in Delays, on_delay_us(c, d) PROVE SchedTypeOK' /\ TasksInv'
    <2>1. DelayDue(d) \in Nat
      BY <1>0, RequestsAssumption DEF DelayDue
    <2> QED
      BY <1>2, <2>1, RegisterKeepsTasks DEF on_delay_us, Kinds
  <1>3. ASSUME NEW c \in Callables, remove(c) PROVE SchedTypeOK' /\ TasksInv'
    BY <1>3, RemoveKeepsTasks
  <1>4. ASSUME NEW c \in Callables, NEW e \in BOOLEAN, set_callback_enabled(c, e)
        PROVE  SchedTypeOK' /\ TasksInv'
    <2>1. UNCHANGED <<schedVars, promise, regs, callback_used>> /\ ExecutingKept
      BY <1>4, UseKeepsExecuting DEF set_callback_enabled, SetEnabled, UseHandle
    <2>2. SchedTypeOK'
      BY <2>1 DEF SchedTypeOK, schedVars
    <2>3. EntriesServe' /\ OneEach(tasks)'
      BY <2>1 DEF TasksInv, EntriesServe, Serves, Live, schedVars
    <2>4. PollAgrees'
      BY <2>1 DEF TasksInv, PollAgrees, ExecutingKept, schedVars
    <2> QED
      BY <2>2, <2>3, <2>4 DEF TasksInv
  <1>5. ASSUME NEW r \in RawTasks, NEW p \in Periods, add_raw(r, TRUE, p, clock)
        PROVE  SchedTypeOK' /\ TasksInv'
    BY <1>0, <1>5, RequestsAssumption, RawKeepsTasks
  <1>6. ASSUME NEW r \in RawTasks, NEW d \in Delays, add_raw(r, FALSE, 0, DelayDue(d))
        PROVE  SchedTypeOK' /\ TasksInv'
    <2>1. DelayDue(d) \in Nat
      BY <1>0, RequestsAssumption DEF DelayDue
    <2> QED
      BY <1>6, <2>1, RawKeepsTasks
  <1>7. CASE BeginPass \/ EndPass
    <2>1. TasksInv' /\ tasks' \in Seq(Entry)
      BY <1>7, CompactKeepsTasks DEF BeginPass, EndPass
    <2> QED
      BY <1>0, <1>7, <2>1 DEF BeginPass, EndPass, SchedTypeOK
  <1>8. CASE SkipEntry
    <2>1. TasksInv'
      BY <1>8, CompactKeepsTasks DEF SkipEntry
    <2> QED
      BY <1>8, <2>1 DEF SkipEntry, SchedTypeOK
  <1>9. CASE PollEntry
    BY <1>9, EnterKeepsTasks
  <1>10. CASE PollNothing
    BY <1>10, PollNothingKeepsTasks
  <1>11. CASE PollReturns
    BY <1>11, ReturnKeepsTasks
  <1>12. CASE request_exit \/ Tick \/ UNCHANGED vars
    <2>1. UNCHANGED <<elVars, tasks, pc, i, now_us, polled, promise>> /\ (clock' = clock \/ (clock < MaxTime /\ clock' = clock + 1))
      BY <1>12 DEF request_exit, Tick, vars, schedVars
    <2>2. SchedTypeOK'
      BY <1>0, <2>1 DEF SchedTypeOK
    <2>3. TasksInv'
      BY <2>1 DEF TasksInv, EntriesServe, Serves, Live, PollAgrees, elVars
    <2> QED
      BY <2>2, <2>3
  <1> QED
    BY <1>1, <1>2, <1>3, <1>4, <1>5, <1>6, <1>7, <1>8, <1>9, <1>10, <1>11, <1>12 DEF Next, Scan

(* As long as callbacks register nothing behind a hole, the array has no    *)
(* entry for a slot that was released, and one at most for each slot.       *)
THEOREM ArduinoEntriesMatch ==
    InCallback # "anything" /\ Spec => []EntriesMatchRegistrations
  <1> SUFFICES ASSUME InCallback # "anything" PROVE Spec => []EntriesMatchRegistrations
    OBVIOUS
  <1>1. ELInv /\ SchedTypeOK /\ TasksInv => EntriesMatchRegistrations
    <2> SUFFICES ASSUME ELInv, SchedTypeOK, TasksInv, NEW k \in 1 .. Len(tasks), tasks[k].task \in Slots
                 PROVE  /\ callback_used[tasks[k].task]
                        /\ \A j \in 1 .. Len(tasks) : tasks[j].task = tasks[k].task => j = k
      BY DEF EntriesMatchRegistrations
    <2>1. callback_used[tasks[k].task]
      BY UnusedHasNone DEF TasksInv
    <2>2. Occupied(tasks[k])
      BY TaskNamesAssumption DEF Occupied
    <2> QED
      BY <2>1, <2>2 DEF TasksInv, OneEach
  <1>2. Spec => []ELInv
    BY ArduinoIsFacade, ELInvariant, PTL
  <1> QED
    BY <1>1, <1>2, TasksInvInit, TasksInvStep, PTL DEF Spec

-----------------------------------------------------------------------------
(* What the timer service sees of a callable, after the step, and that it   *)
(* sees no change. *)
Shown(c, st, o, p, d) ==
    /\ StatusOf(c)' = st /\ OnOf(c)' = o /\ PeriodOf(c)' = p /\ NextDueOf(c)' = d

Same(c) == Shown(c, StatusOf(c), OnOf(c), PeriodOf(c), NextDueOf(c))

OthersSame(c) == \A d \in Callables : d # c => Same(d)

(* The steps of the timer service, callable by callable. *)
LEMMA ServiceStutters ==
    ASSUME \A d \in Callables : Same(d), UNCHANGED <<clock, now_us, RunningTimer>>
    PROVE  UNCHANGED Service!vars
  BY DEF Same, Shown, Service!vars

LEMMA ServiceStarts ==
    ASSUME NEW c \in Callables, NEW p \in Periods \cup {0}, NEW d \in 0 .. ClockMax,
           StatusOf(c) = "new", d >= clock, Shown(c, "live", TRUE, p, d), OthersSame(c),
           UNCHANGED <<clock, now_us, RunningTimer>>
    PROVE  Service!Next
  <1>1. Service!Start(c, p, d)
    BY DEF Same, Shown, OthersSame, Service!Start
  <1> QED
    BY <1>1 DEF Service!Next

LEMMA ServiceRefuses ==
    ASSUME NEW c \in Callables, StatusOf(c) = "new", OthersSame(c),
           Shown(c, "over", OnOf(c), PeriodOf(c), NextDueOf(c)), UNCHANGED <<clock, now_us, RunningTimer>>
    PROVE  Service!Next
  <1>1. Service!Refuse(c)
    BY DEF Same, Shown, OthersSame, Service!Refuse
  <1> QED
    BY <1>1 DEF Service!Next

LEMMA ServiceCancels ==
    ASSUME NEW c \in Callables, StatusOf(c) = "live", OthersSame(c),
           Shown(c, "over", FALSE, 0, 0), UNCHANGED <<clock, now_us, RunningTimer>>
    PROVE  Service!Next
  <1>1. Service!Cancel(c)
    BY DEF Same, Shown, OthersSame, Service!Cancel, Service!End
  <1> QED
    BY <1>1 DEF Service!Next

LEMMA ServiceSwitches ==
    ASSUME NEW c \in Callables, NEW e \in BOOLEAN, StatusOf(c) = "live", OthersSame(c),
           Shown(c, StatusOf(c), e, PeriodOf(c), NextDueOf(c)), UNCHANGED <<clock, now_us, RunningTimer>>
    PROVE  Service!Next
  <1>1. Service!Switch(c, e)
    BY DEF Same, Shown, OthersSame, Service!Switch
  <1> QED
    BY <1>1 DEF Service!Next

LEMMA ServiceFires ==
    ASSUME NEW c \in Callables, StatusOf(c) = "live", OnOf(c), now_us >= NextDueOf(c),
           \A d \in Callables : Same(d), RunningTimer = NoCallable, RunningTimer' = c,
           UNCHANGED <<clock, now_us>>
    PROVE  Service!Next
  <1>1. Service!Fire(c)
    BY DEF Same, Shown, Service!Fire
  <1> QED
    BY <1>1 DEF Service!Next

(* The entry of c moves on along the grid. *)
MovesTo(c, d) ==
    /\ \E n \in 1 .. now_us + 1 : d = NextDueOf(c) + n * PeriodOf(c)
    /\ now_us < d /\ d <= now_us + PeriodOf(c)
    /\ Shown(c, StatusOf(c), OnOf(c), PeriodOf(c), d)

LEMMA ServiceMovesOn ==
    ASSUME NEW c \in Callables, OthersSame(c), NEW d, MovesTo(c, d)
    PROVE  Service!MoveOn(c)
  <1> DEFINE due == [x \in Callables |-> NextDueOf(x)]
             period == [x \in Callables |-> PeriodOf(x)]
  <1>1. PICK n \in 1 .. now_us + 1 : d = NextDueOf(c) + n * PeriodOf(c)
    BY DEF MovesTo
  <1>2. due' = [due EXCEPT ![c] = due[c] + n * period[c]]
    BY <1>1 DEF MovesTo, Same, Shown, OthersSame
  <1>3. \E m \in 1 .. now_us + 1 : due' = [due EXCEPT ![c] = due[c] + m * period[c]]
    BY <1>2
  <1>4. now_us < due'[c] /\ due'[c] <= now_us + period[c]
    BY DEF MovesTo, Shown
  <1>5. /\ [x \in Callables |-> StatusOf(x)]' = [x \in Callables |-> StatusOf(x)]
        /\ [x \in Callables |-> OnOf(x)]' = [x \in Callables |-> OnOf(x)]
        /\ period' = period
    BY DEF MovesTo, Same, Shown, OthersSame
  <1> QED
    BY <1>3, <1>4, <1>5 DEF Service!MoveOn

LEMMA ServicePasses ==
    ASSUME NEW c \in Callables, StatusOf(c) = "live", ~ OnOf(c), PeriodOf(c) # 0,
           now_us >= NextDueOf(c), OthersSame(c), NEW d, MovesTo(c, d),
           UNCHANGED <<clock, now_us, RunningTimer>>
    PROVE  Service!Next
  <1>1. Service!Pass(c)
    BY ServiceMovesOn DEF Service!Pass
  <1> QED
    BY <1>1 DEF Service!Next

LEMMA ServiceReturns ==
    ASSUME NEW c \in Callables, RunningTimer = c, RunningTimer' = NoCallable,
           UNCHANGED <<clock, now_us>>, OthersSame(c), NEW d,
           \/ StatusOf(c) = "live" /\ PeriodOf(c) = 0 /\ Shown(c, "over", FALSE, 0, 0)
           \/ StatusOf(c) = "live" /\ PeriodOf(c) # 0 /\ MovesTo(c, d)
           \/ StatusOf(c) # "live" /\ Same(c)
    PROVE  Service!Next
  <1>1. c # NoCallable
    BY NoCallableAssumption
  <1>2. CASE StatusOf(c) = "live" /\ PeriodOf(c) = 0 /\ Shown(c, "over", FALSE, 0, 0)
    BY <1>1, <1>2 DEF Same, Shown, OthersSame, Service!Return, Service!End, Service!Next
  <1>3. CASE StatusOf(c) = "live" /\ PeriodOf(c) # 0 /\ MovesTo(c, d)
    BY <1>1, <1>3, ServiceMovesOn DEF Service!Return, Service!Next
  <1>4. CASE StatusOf(c) # "live" /\ Same(c)
    <2>1. \A x \in Callables : Same(x)
      BY <1>4 DEF OthersSame
    <2> QED
      BY <1>1, <1>4, <2>1 DEF Same, Shown, Service!Return, Service!Next
  <1> QED
    BY <1>2, <1>3, <1>4

LEMMA ServiceLooks ==
    ASSUME \A d \in Callables : Same(d), RunningTimer = NoCallable, now_us' = clock,
           UNCHANGED <<clock, RunningTimer>>
    PROVE  Service!Next
  BY DEF Same, Shown, Service!Look, Service!Next

LEMMA ServiceAdvances ==
    ASSUME \A d \in Callables : Same(d), UNCHANGED <<now_us, RunningTimer>>, clock' = clock + 1
    PROVE  Service!Next
  BY DEF Same, Shown, Service!Advance, Service!Next

-----------------------------------------------------------------------------
(* When a registration is due, in terms of its entry. *)
LEMMA DueIs ==
    ASSUME NEW c \in Callables, OneEach(tasks)
    PROVE  /\ ~ Live(c) => NextDueOf(c) = 0
           /\ \A e : Live(c) /\ Lists(tasks, e) /\ e.task = regs[c].handle.slot =>
                 NextDueOf(c) = e.next_due_us
  <1>1. ~ Live(c) => NextDueOf(c) = 0
    BY DEF NextDueOf, EntriesOf
  <1>2. ASSUME NEW e, Live(c), Lists(tasks, e), e.task = regs[c].handle.slot
        PROVE  NextDueOf(c) = e.next_due_us
    <2>1. PICK k \in 1 .. Len(tasks) : tasks[k] = e
      BY <1>2 DEF Lists
    <2>2. EntriesOf(c) = {k}
      BY <1>2, <2>1 DEF EntriesOf, OneEach, Lists
    <2>3. (CHOOSE j \in {k} : TRUE) = k
      OBVIOUS
    <2> QED
      BY <2>1, <2>2, <2>3, Zenon DEF NextDueOf
  <1> QED
    BY <1>1, <1>2

LEMMA DueIsNext ==
    ASSUME NEW c \in Callables, OneEach(tasks')
    PROVE  /\ ~ Live(c)' => NextDueOf(c)' = 0
           /\ \A e : Live(c)' /\ Lists(tasks', e) /\ e.task = regs'[c].handle.slot =>
                 NextDueOf(c)' = e.next_due_us
  <1>1. ~ Live(c)' => NextDueOf(c)' = 0
    BY DEF NextDueOf, EntriesOf
  <1>2. ASSUME NEW e, Live(c)', Lists(tasks', e), e.task = regs'[c].handle.slot
        PROVE  NextDueOf(c)' = e.next_due_us
    <2>1. PICK k \in 1 .. Len(tasks') : tasks'[k] = e
      BY <1>2 DEF Lists
    <2>2. EntriesOf(c)' = {k}
      BY <1>2, <2>1 DEF EntriesOf, OneEach, Lists
    <2>3. (CHOOSE j \in {k} : TRUE) = k
      OBVIOUS
    <2>4. NextDueOf(c)' = IF EntriesOf(c)' = {} THEN 0
                          ELSE tasks'[CHOOSE j \in EntriesOf(c)' : TRUE].next_due_us
      BY DEF NextDueOf
    <2> QED
      BY <2>1, <2>2, <2>3, <2>4, Zenon
  <1> QED
    BY <1>1, <1>2

(* A live registration whose entry is listed is scheduled. *)
LEMMA ListedNext ==
    ASSUME NEW t \in Slots
    PROVE  Scheduled(t)' <=> \E e : Lists(tasks', e) /\ e.task = t
  BY TaskNamesAssumption DEF Scheduled, Lists, Occupied

(* The service sees no change of a registration that is left alone, with    *)
(* its entry. *)
EntryKept(t) == \A e : e.task = t => (Lists(tasks', e) <=> Lists(tasks, e))

LEMMA UntouchedIsSame ==
    ASSUME ELInv, OneEach(tasks), OneEach(tasks'), NEW c \in Callables, TimerAgrees(c), Untouched(c),
           Live(c) => EntryKept(regs[c].handle.slot)
    PROVE  TimerAgrees(c)' /\ Same(c)
  <1>1. Live(c)' = Live(c) /\ StatusOf(c)' = StatusOf(c) /\ OnOf(c)' = OnOf(c) /\ PeriodOf(c)' = PeriodOf(c)
    BY DEF Untouched, Live, StatusOf, OnOf, PeriodOf
  <1>2. CASE ~ Live(c)
    BY <1>1, <1>2, DueIs, DueIsNext DEF TimerAgrees, Same, Shown
  <1>3. CASE Live(c)
    <2>1. regs[c].handle.slot \in Slots /\ regs'[c] = regs[c]
      BY <1>3 DEF ELInv, HandleTrace, TraceOf, Live, Untouched
    <2>2. PICK e : Lists(tasks, e) /\ e.task = regs[c].handle.slot
      BY <1>3, <2>1, TaskNamesAssumption, ScheduledIsListed DEF TimerAgrees
    <2>3. Lists(tasks', e)
      BY <1>3, <2>2 DEF EntryKept
    <2>4. NextDueOf(c)' = NextDueOf(c)
      BY <1>1, <1>3, <2>1, <2>2, <2>3, DueIs, DueIsNext
    <2>5. Scheduled(regs[c].handle.slot)'
      BY <2>1, <2>2, <2>3, TaskNamesAssumption DEF Scheduled, Lists
    <2>6. TimerAgrees(c)'
      BY <1>3, <2>1, <2>5 DEF TimerAgrees, Untouched, Live
    <2> QED
      BY <1>1, <2>4, <2>6 DEF Same, Shown
  <1> QED
    BY <1>2, <1>3

(* The callable that is running stays when the poll goes on. *)
LEMMA RunningKept ==
    ASSUME PollAgrees, polled' = polled, ExecutingKept
    PROVE  UNCHANGED RunningTimer
  BY DEF RunningTimer, PollAgrees, ExecutingKept

-----------------------------------------------------------------------------
(* Each action as a step of the timer service. *)

(* What the service sees of a registration before it is made, and after. *)
LEMMA NewShows ==
    ASSUME NEW c \in Callables, regs[c].phase = "new"
    PROVE  StatusOf(c) = "new" /\ OnOf(c) = FALSE /\ PeriodOf(c) = 0 /\ NextDueOf(c) = 0
  BY DEF StatusOf, OnOf, PeriodOf, NextDueOf, EntriesOf, Live

LEMMA OverShows ==
    ASSUME NEW c \in Callables, regs'[c].phase \in {"removed", "done", "rejected"}
    PROVE  TimerAgrees(c)' /\ Shown(c, "over", FALSE, 0, 0)
  <1>1. ~ Live(c)'
    BY DEF Live
  <1>2. NextDueOf(c)' = 0
    BY <1>1 DEF NextDueOf, EntriesOf
  <1> QED
    BY <1>1, <1>2 DEF TimerAgrees, Shown, StatusOf, OnOf, PeriodOf

(* A live registration whose entry is known. *)
LEMMA LiveShows ==
    ASSUME ELInv', OneEach(tasks'), NEW c \in Callables, Live(c)', NEW e, Lists(tasks', e),
           e.task = regs'[c].handle.slot
    PROVE  /\ Scheduled(regs[c].handle.slot)'
           /\ Shown(c, "live", callback_tasks'[regs'[c].handle.slot].enabled, promise'[c].period, e.next_due_us)
  <1>1. NextDueOf(c)' = e.next_due_us
    BY DueIsNext
  <1>2. Scheduled(regs[c].handle.slot)'
    BY DEF Scheduled, Lists
  <1>3. callback_tasks'[regs'[c].handle.slot].enabled \in BOOLEAN
    <2>1. regs'[c].handle.slot \in Slots
      BY DEF ELInv, HandleTrace, TraceOf, Live
    <2> QED
      BY <2>1 DEF ELInv, ELTypeOK, Task
  <1>4. OnOf(c)' = callback_tasks'[regs'[c].handle.slot].enabled
    BY <1>3 DEF OnOf
  <1>5. StatusOf(c)' = "live" /\ PeriodOf(c)' = promise'[c].period
    BY DEF StatusOf, PeriodOf, Live
  <1> QED
    BY <1>1, <1>2, <1>4, <1>5 DEF Shown

(* A registration starts, or is refused. *)
LEMMA RegisterMaps ==
    ASSUME ELInv, ELInv', SchedTypeOK, TasksInv, TasksInv', TimersInv,
           NEW c \in Callables, NEW k \in Kinds, NEW period \in Periods \cup {0}, NEW due \in 0 .. ClockMax,
           due >= clock, NEW from \in Nat, k = "delay" => period = 0,
           RegisterTimer(c, k, period, due, from), UNCHANGED <<clock, pc, i, now_us, polled>>
    PROVE  TimersInv' /\ [Service!Next]_(Service!vars)
  <1>0. /\ OneEach(tasks) /\ OneEach(tasks') /\ EntriesServe /\ PollAgrees /\ tasks \in Seq(Entry)
        /\ period \in Nat /\ due \in Nat
    BY RequestsAssumption, ClockAssumption DEF TasksInv, SchedTypeOK
  <1>1. /\ regs[c].phase = "new"
        /\ \A d \in Callables : d # c => Untouched(d)
        /\ ExecutingKept
        /\ \/ regs'[c].phase = "rejected" /\ tasks' = tasks
           \/ /\ regs'[c].phase = "rejected"
              /\ \E s \in Slots :
                   /\ ~ callback_used[s] /\ AddFails(tasks, k = "repeat", period)
                   /\ tasks' = Add(tasks, s, k = "repeat", period, due)
           \/ \E s \in Slots :
                /\ ~ AddFails(tasks, k = "repeat", period)
                /\ tasks' = Add(tasks, s, k = "repeat", period, due)
                /\ Live(c)' /\ regs'[c].handle.slot = s
                /\ promise'[c].period = period
                /\ callback_tasks'[s].enabled
                /\ ~ callback_used[s]
    BY <1>0, RegisterEffect
  <1>2. UNCHANGED <<clock, now_us, RunningTimer>>
    BY <1>0, <1>1, RunningKept
  <1>3. ASSUME \A d \in Callables : d # c /\ Live(d) => EntryKept(regs[d].handle.slot)
        PROVE  OthersSame(c) /\ \A d \in Callables : d # c => TimerAgrees(d)'
    BY <1>0, <1>1, <1>3, UntouchedIsSame DEF TimersInv, OthersSame
  <1>4. ASSUME regs'[c].phase = "rejected",
               \A d \in Callables : d # c /\ Live(d) => EntryKept(regs[d].handle.slot)
        PROVE  TimersInv' /\ [Service!Next]_(Service!vars)
    <2>1. TimerAgrees(c)' /\ Shown(c, "over", OnOf(c), PeriodOf(c), NextDueOf(c)) /\ StatusOf(c) = "new"
      BY <1>1, <1>4, NewShows, OverShows
    <2> QED
      BY <1>2, <1>3, <1>4, <2>1, ServiceRefuses DEF TimersInv
  <1>5. ASSUME NEW s \in Slots, ~ callback_used[s], tasks' = Add(tasks, s, k = "repeat", period, due),
               NEW e, e = [task |-> s, period_us |-> period, next_due_us |-> due, periodic |-> (k = "repeat")]
        PROVE  /\ \A x : Lists(tasks', x) <=> Lists(tasks, x) \/ (~ AddFails(tasks, k = "repeat", period) /\ x = e)
               /\ \A d \in Callables : Live(d) => EntryKept(regs[d].handle.slot)
    <2>1. PICK periodic \in BOOLEAN : periodic = (k = "repeat")
      OBVIOUS
    <2>2. PICK new : new = tasks'
      OBVIOUS
    <2>3. periodic \/ period = 0
      BY <2>1 DEF Kinds
    <2>4. \A x : Lists(new, x) <=> Lists(tasks, x) \/ (~ AddFails(tasks, periodic, period) /\ x = e)
      <3>1. new = Add(tasks, s, periodic, period, due) /\ s \in Slots \cup RawTasks
        BY <1>5, <2>1, <2>2
      <3>2. e = [task |-> s, period_us |-> period, next_due_us |-> due, periodic |-> periodic]
        BY <1>5, <2>1
      <3> QED
        BY <1>0, <2>3, <3>1, <3>2, AddLists
    <2>5. e.task = s
      BY <1>5
    <2>6. ASSUME NEW d \in Callables, Live(d) PROVE EntryKept(regs[d].handle.slot)
      <3>1. regs[d].handle.slot # s
        BY <1>5, <2>6, LiveIsValid DEF Live, valid
      <3> QED
        BY <2>2, <2>4, <2>5, <3>1 DEF EntryKept
    <2> QED
      BY <2>1, <2>2, <2>4, <2>6
  <1>6. CASE regs'[c].phase = "rejected" /\ tasks' = tasks
    BY <1>4, <1>6 DEF EntryKept
  <1>7. ASSUME regs'[c].phase = "rejected", NEW s \in Slots, ~ callback_used[s],
               tasks' = Add(tasks, s, k = "repeat", period, due)
        PROVE  TimersInv' /\ [Service!Next]_(Service!vars)
    BY <1>4, <1>5, <1>7
  <1>8. ASSUME NEW s \in Slots, ~ AddFails(tasks, k = "repeat", period),
               tasks' = Add(tasks, s, k = "repeat", period, due),
               Live(c)', regs'[c].handle.slot = s, promise'[c].period = period,
               callback_tasks'[s].enabled, ~ callback_used[s]
        PROVE  TimersInv' /\ [Service!Next]_(Service!vars)
    <2>1. PICK e : e = [task |-> s, period_us |-> period, next_due_us |-> due, periodic |-> (k = "repeat")]
      OBVIOUS
    <2>2. e.task = s /\ e.next_due_us = due
      BY <2>1
    <2>3. /\ Lists(tasks', e)
          /\ \A d \in Callables : Live(d) => EntryKept(regs[d].handle.slot)
      BY <1>5, <1>8, <2>1
    <2>4. /\ Scheduled(regs[c].handle.slot)'
          /\ Shown(c, "live", callback_tasks'[s].enabled, period, due)
      BY <1>0, <1>8, <2>2, <2>3, LiveShows
    <2>5. callback_tasks'[s].enabled = TRUE
      BY <1>8 DEF ELInv, ELTypeOK, Task
    <2>6. TimerAgrees(c)'
      BY <1>8, <2>4 DEF TimerAgrees
    <2>7. StatusOf(c) = "new"
      BY <1>1, NewShows
    <2> QED
      BY <1>2, <1>3, <2>3, <2>4, <2>5, <2>6, <2>7, ServiceStarts DEF TimersInv
  <1> QED
    BY <1>1, <1>6, <1>7, <1>8

(* A step that leaves registrations, their entries and the running callback *)
(* alone is invisible. *)
LEMMA NothingShows ==
    ASSUME ELInv, OneEach(tasks), OneEach(tasks'), TimersInv, \A c \in Callables : Untouched(c),
           \A c \in Callables : Live(c) => EntryKept(regs[c].handle.slot),
           UNCHANGED <<clock, now_us, RunningTimer>>
    PROVE  TimersInv' /\ [Service!Next]_(Service!vars)
  <1>1. \A c \in Callables : TimerAgrees(c)' /\ Same(c)
    BY UntouchedIsSame DEF TimersInv
  <1> QED
    BY <1>1, ServiceStutters DEF TimersInv

(* The registration that has the slot of the handle is cancelled. *)
LEMMA RemoveMaps ==
    ASSUME ELInv, SchedTypeOK, TasksInv, TimersInv, NEW c \in Callables, remove(c)
    PROVE  TimersInv' /\ [Service!Next]_(Service!vars)
  <1>0. OneEach(tasks) /\ OneEach(tasks') /\ PollAgrees /\ UNCHANGED <<clock, now_us, polled>>
    BY RemoveKeepsTasks DEF TasksInv, remove
  <1>1. /\ \A e : Lists(tasks', e) <=> Lists(tasks, e) /\ e.task # regs[c].handle.slot
        /\ ExecutingKept
    BY RemoveKeepsTasks
  <1>2. PICK d \in Callables :
           /\ Live(d) /\ regs[d].handle.slot = regs[c].handle.slot
           /\ regs'[d].phase = "removed"
           /\ \A o \in Callables \ {d} : Untouched(o)
    BY RemoveKeepsTasks
  <1>3. UNCHANGED <<clock, now_us, RunningTimer>>
    BY <1>0, <1>1, RunningKept
  <1>4. ASSUME NEW o \in Callables, o # d PROVE TimerAgrees(o)' /\ Same(o)
    <2>1. ASSUME Live(o) PROVE EntryKept(regs[o].handle.slot)
      BY <1>1, <1>2, <1>4, <2>1, OneOwner DEF EntryKept
    <2> QED
      BY <1>0, <1>2, <1>4, <2>1, UntouchedIsSame DEF TimersInv
  <1>5. TimerAgrees(d)' /\ Shown(d, "over", FALSE, 0, 0) /\ StatusOf(d) = "live"
    BY <1>2, OverShows DEF StatusOf, Live
  <1> QED
    BY <1>3, <1>4, <1>5, ServiceCancels DEF TimersInv, OthersSame

(* The application does not disable a delay. *)
LEMMA EnabledMaps ==
    ASSUME ELInv, TasksInv, TasksInv', TimersInv, DisableDelays = FALSE,
           NEW c \in Callables, NEW e \in BOOLEAN, set_callback_enabled(c, e)
    PROVE  TimersInv' /\ [Service!Next]_(Service!vars)
  <1> DEFINE s == regs[c].handle.slot
  <1>0. /\ OneEach(tasks) /\ OneEach(tasks') /\ PollAgrees /\ UNCHANGED <<tasks, clock, now_us, polled, promise, regs>>
        /\ valid(regs[c].handle) /\ SetEnabled(regs[c].handle, e)
    BY DEF TasksInv, set_callback_enabled, schedVars, SetEnabled
  <1>1. s \in Slots /\ callback_tasks[s].active
    <2>1. s \in Nat
      BY DEF ELInv, ELTypeOK, Registration, Handle
    <2> QED
      BY <1>0, <2>1, MaxCallbacksAssumption DEF valid, Slots
  <1>2. PICK d \in Callables : d = callback_tasks[s].stored
    BY <1>1 DEF ELInv, SlotFlags, ELTypeOK, Task
  <1>3. Live(d) /\ regs[d].handle.slot = s
    BY <1>1, <1>2, NoCallableAssumption DEF ELInv, StoredOwner, Live
  <1>4. callback_tasks'[s].enabled = e /\ \A t \in Slots : t # s => callback_tasks'[t] = callback_tasks[t]
    BY <1>0, <1>1 DEF SetEnabled, set_enabled, ELInv, ELTypeOK, Task
  <1>5. UNCHANGED <<clock, now_us, RunningTimer>>
    <2>1. ExecutingKept
      BY <1>0, UseKeepsExecuting DEF UseHandle
    <2> QED
      BY <1>0, <2>1, RunningKept
  <1>6. ASSUME NEW o \in Callables, o # d PROVE TimerAgrees(o)' /\ Same(o)
    <2>1. Live(o) => regs[o].handle.slot # s /\ regs[o].handle.slot \in Slots
      BY <1>3, <1>6, OneOwner DEF ELInv, HandleTrace, TraceOf, Live
    <2>2. Untouched(o) /\ (Live(o) => EntryKept(regs[o].handle.slot))
      BY <1>0, <1>4, <2>1 DEF Untouched, EntryKept
    <2> QED
      BY <1>0, <2>2, UntouchedIsSame DEF TimersInv
  <1>7. regs[d].kind = "delay" => e
    <2>1. ASSUME ~ e PROVE regs[d].kind # "delay"
      <3>1. Live(c) /\ regs[c].kind = "repeat"
        BY <2>1 DEF set_callback_enabled
      <3>2. c = d
        BY <1>3, <3>1, OneOwner
      <3> QED
        BY <3>1, <3>2
    <2> QED
      BY <2>1
  <1>8. TimerAgrees(d)' /\ Shown(d, StatusOf(d), e, PeriodOf(d), NextDueOf(d)) /\ StatusOf(d) = "live"
    <2>1. Live(d)' /\ regs'[d] = regs[d]
      BY <1>0, <1>3 DEF Live
    <2>2. TimerAgrees(d)'
      BY <1>0, <1>3, <1>4, <1>7, <2>1 DEF TimersInv, TimerAgrees, Scheduled
    <2>3. StatusOf(d)' = StatusOf(d) /\ PeriodOf(d)' = PeriodOf(d) /\ NextDueOf(d)' = NextDueOf(d)
      BY <1>0 DEF StatusOf, PeriodOf, NextDueOf, EntriesOf, Live
    <2>4. OnOf(d)' = e
      BY <1>3, <1>4, <2>1 DEF OnOf
    <2> QED
      BY <1>3, <2>2, <2>3, <2>4 DEF Shown, StatusOf, Live
  <1> QED
    BY <1>5, <1>6, <1>8, ServiceSwitches DEF TimersInv, OthersSame

(* A callback that is due starts to run; a task of the application's own is *)
(* invisible. *)
LEMMA EnterMaps ==
    ASSUME ELInv, SchedTypeOK, TasksInv, TimersInv, PollEntry
    PROVE  TimersInv' /\ [Service!Next]_(Service!vars)
  <1>0. /\ OneEach(tasks) /\ OneEach(tasks') /\ EntriesServe /\ UNCHANGED <<tasks, clock, now_us>>
        /\ \A c \in Callables : Untouched(c)
        /\ polled = NoTask /\ polled' = tasks[i].task
        /\ Lists(tasks, tasks[i]) /\ tasks[i].next_due_us <= now_us
        /\ polled' \in Slots =>
                /\ poll_runs(callback_tasks[polled'])
                /\ callback_tasks'[polled'].stored = callback_tasks[polled'].stored
    BY EnterKeepsTasks DEF TasksInv, PollEntry
  <1>1. RunningTimer = NoCallable
    BY <1>0, TaskNamesAssumption DEF RunningTimer
  <1>2. \A c \in Callables : Live(c) => EntryKept(regs[c].handle.slot)
    BY <1>0 DEF EntryKept
  <1>3. CASE polled' \notin Slots
    <2>1. RunningTimer' = NoCallable
      BY <1>3 DEF RunningTimer
    <2> QED
      BY <1>0, <1>1, <1>2, <2>1, NothingShows
  <1>4. CASE polled' \in Slots
    <2>1. PICK c \in Callables : Serves(tasks[i], c)
      BY <1>0, <1>4, ListedServe
    <2>2. /\ Live(c) /\ regs[c].handle.slot = polled' /\ callback_tasks[polled'].stored = c
      BY <1>0, <2>1 DEF Serves, Live, ELInv, HandleTrace, TraceOf
    <2>3. RunningTimer' = c
      BY <1>0, <1>4, <2>2 DEF RunningTimer
    <2>4. StatusOf(c) = "live" /\ OnOf(c) /\ NextDueOf(c) = tasks[i].next_due_us
      BY <1>0, <1>4, <2>2, DueIs DEF StatusOf, OnOf, poll_runs, Live
    <2>5. now_us >= NextDueOf(c)
      <3>1. now_us \in Nat /\ clock \in Nat /\ now_us <= clock
        BY ClockAssumption DEF SchedTypeOK
      <3>2. tasks[i].next_due_us \in Nat
        BY <1>0 DEF Lists, SchedTypeOK, Entry
      <3> QED
        BY <1>0, <2>4, <3>1, <3>2
    <2>6. \A d \in Callables : TimerAgrees(d)' /\ Same(d)
      BY <1>0, <1>2, UntouchedIsSame DEF TimersInv
    <2> QED
      BY <1>0, <1>1, <2>3, <2>4, <2>5, <2>6, ServiceFires DEF TimersInv
  <1> QED
    BY <1>3, <1>4

(* The entry of a live repeating callback that moves on after the scan. *)
LEMMA EntryMovesOn ==
    ASSUME ELInv, ELInv', SchedTypeOK, OneEach(tasks), OneEach(tasks'),
           NEW c \in Callables, TimerAgrees(c), Untouched(c), NEW e, Lists(tasks, e), Serves(e, c),
           e.periodic, e.next_due_us <= now_us,
           \A x : x.task = e.task => (Lists(tasks', x) <=> x = [e EXCEPT !.next_due_us = NextDue(e)])
    PROVE  /\ MovesTo(c, NextDue(e)) /\ TimerAgrees(c)'
           /\ StatusOf(c) = "live" /\ PeriodOf(c) # 0 /\ now_us >= NextDueOf(c)
  <1>0. /\ Live(c) /\ Live(c)' /\ regs'[c] = regs[c] /\ e.task = regs[c].handle.slot
        /\ e.period_us = promise[c].period /\ promise'[c].period = promise[c].period
        /\ callback_tasks'[regs[c].handle.slot].enabled = callback_tasks[regs[c].handle.slot].enabled
        /\ regs[c].kind = "repeat"
    BY DEF Serves, Untouched, Live
  <1>1. e \in Entry /\ e.period_us # 0 /\ now_us \in Nat /\ clock \in Nat /\ now_us <= clock
    <2>1. e \in Entry /\ e.period_us # 0
      BY DEF Lists, SchedTypeOK, Entry
    <2> QED
      BY <2>1, ClockAssumption DEF SchedTypeOK
  <1>2. PICK next : next = NextDue(e)
    OBVIOUS
  <1>3. /\ next \in Nat
        /\ \E n \in 1 .. now_us + 1 : next = e.next_due_us + n * e.period_us
        /\ now_us < next /\ next <= now_us + e.period_us
    BY <1>1, <1>2, NextDueIs
  <1>4. PICK x : x = [e EXCEPT !.next_due_us = next]
    OBVIOUS
  <1>5. x.task = e.task /\ x.next_due_us = next
    BY <1>1, <1>4 DEF Entry
  <1>6. Lists(tasks', x)
    BY <1>2, <1>4, <1>5
  <1>7. NextDueOf(c) = e.next_due_us /\ PeriodOf(c) = e.period_us /\ StatusOf(c) = "live"
    BY <1>0, DueIs DEF PeriodOf, StatusOf, Live
  <1>8. /\ Scheduled(regs[c].handle.slot)'
        /\ Shown(c, "live", callback_tasks'[regs'[c].handle.slot].enabled, promise'[c].period, x.next_due_us)
    BY <1>0, <1>5, <1>6, LiveShows
  <1>9. OnOf(c) = callback_tasks'[regs'[c].handle.slot].enabled
    <2>1. regs[c].handle.slot \in Slots
      BY <1>0 DEF ELInv, HandleTrace, TraceOf, Live
    <2> QED
      BY <1>0, <2>1 DEF OnOf, ELInv, ELTypeOK, Task
  <1>10. Shown(c, StatusOf(c), OnOf(c), PeriodOf(c), next)
    BY <1>0, <1>5, <1>7, <1>8, <1>9
  <1>11. e.next_due_us \in Nat /\ e.period_us \in Nat
    BY <1>1 DEF Entry
  <1>12. /\ \E n \in 1 .. now_us + 1 : next = NextDueOf(c) + n * PeriodOf(c)
         /\ now_us < next /\ next <= now_us + PeriodOf(c)
    BY <1>1, <1>3, <1>7, <1>11
  <1>13. TimerAgrees(c)'
    BY <1>0, <1>8 DEF TimerAgrees
  <1> QED
    BY <1>1, <1>2, <1>7, <1>10, <1>11, <1>12, <1>13 DEF MovesTo

(* A repeating callback that is disabled lets its due times pass; no delay  *)
(* is disabled. *)
LEMMA PollNothingMaps ==
    ASSUME ELInv, ELInv', SchedTypeOK, TasksInv, TimersInv, PollNothing
    PROVE  TimersInv' /\ [Service!Next]_(Service!vars)
  <1>1. PICK e : e = tasks[i]
    OBVIOUS
  <1>2. /\ OneEach(tasks) /\ OneEach(tasks') /\ EntriesServe /\ i \in 1 .. Len(tasks)
        /\ \A c \in Callables : Untouched(c)
        /\ Lists(tasks, e) /\ e.task \in Slots /\ e.next_due_us <= now_us /\ tasks' = AfterPoll(tasks)
        /\ UNCHANGED <<elVars, clock, now_us, polled, promise>>
        /\ ~ poll_runs(callback_tasks[e.task])
    BY <1>1, PollNothingKeepsTasks DEF TasksInv
  <1>3. UNCHANGED <<clock, now_us, RunningTimer>>
    BY <1>2 DEF RunningTimer, elVars
  <1>4. PICK c \in Callables : Serves(e, c)
    BY <1>2, ListedServe
  <1>5. /\ Live(c) /\ regs[c].handle.slot = e.task
        /\ callback_tasks[e.task].active /\ callback_tasks[e.task].stored = c
    BY <1>4 DEF Serves, Live, ELInv, HandleTrace, TraceOf
  <1>6. ~ callback_tasks[e.task].enabled
    BY <1>2, <1>5, NoCallableAssumption DEF poll_runs
  <1>7. regs[c].kind = "repeat" /\ e.periodic
    <2>1. regs[c].kind # "delay"
      BY <1>5, <1>6 DEF TimersInv, TimerAgrees
    <2> QED
      BY <1>4, <2>1 DEF Serves, ELInv, ELTypeOK, Registration, Kinds
  <1>8. /\ \A x : x.task # e.task => (Lists(tasks', x) <=> Lists(tasks, x))
        /\ \A x : x.task = e.task => (Lists(tasks', x) <=> x = [e EXCEPT !.next_due_us = NextDue(e)])
    BY <1>1, <1>2, <1>7, MovesOnOrGoes DEF Lists
  <1>9. /\ MovesTo(c, NextDue(e)) /\ TimerAgrees(c)'
        /\ StatusOf(c) = "live" /\ PeriodOf(c) # 0 /\ now_us >= NextDueOf(c)
    BY <1>2, <1>4, <1>7, <1>8, EntryMovesOn DEF TimersInv
  <1>10. ASSUME NEW d \in Callables, d # c PROVE TimerAgrees(d)' /\ Same(d)
    <2>1. Live(d) => EntryKept(regs[d].handle.slot)
      BY <1>5, <1>8, <1>10, OneOwner DEF EntryKept
    <2> QED
      BY <1>2, <2>1, UntouchedIsSame DEF TimersInv
  <1>11. ~ OnOf(c)
    BY <1>5, <1>6 DEF OnOf
  <1> QED
    BY <1>3, <1>9, <1>10, <1>11, ServicePasses DEF TimersInv, OthersSame

(* The callback that was running returns. *)
LEMMA ReturnMaps ==
    ASSUME ELInv, ELInv', SchedTypeOK, TasksInv, TimersInv, PollReturns
    PROVE  TimersInv' /\ [Service!Next]_(Service!vars)
  <1>1. /\ OneEach(tasks) /\ OneEach(tasks') /\ PollAgrees
        /\ \A x : x.task # polled => (Lists(tasks', x) <=> Lists(tasks, x))
        /\ polled # NoTask /\ polled' = NoTask /\ UNCHANGED <<clock, now_us, promise>>
        /\ polled \notin Slots => UNCHANGED elVars
    BY ReturnKeepsTasks DEF TasksInv
  <1>2. RunningTimer' = NoCallable
    BY <1>1, TaskNamesAssumption DEF RunningTimer
  <1>3. CASE polled \notin Slots
    <2>1. RunningTimer = NoCallable
      BY <1>3 DEF RunningTimer
    <2>2. \A c \in Callables : Untouched(c)
      BY <1>1, <1>3 DEF Untouched, elVars
    <2>3. \A c \in Callables : Live(c) => EntryKept(regs[c].handle.slot)
      BY <1>1, <1>3 DEF EntryKept, ELInv, HandleTrace, TraceOf, Live
    <2> QED
      BY <1>1, <1>2, <2>1, <2>2, <2>3, NothingShows
  <1>4. CASE polled \in Slots
    <2>1. PICK c \in Callables :
             /\ c = callback_tasks[polled].stored /\ regs[c].handle.slot = polled
             /\ \A d \in Callables \ {c} : Untouched(d)
             /\ ReturnCases(c)
      BY <1>4, ReturnKeepsTasks
    <2>2. RunningTimer = c
      BY <1>4, <2>1 DEF RunningTimer
    <2>3. ASSUME NEW d \in Callables, d # c PROVE TimerAgrees(d)' /\ Same(d)
      <3>1. Live(d) => regs[d].handle.slot # polled
        BY <1>1, <1>4, <2>1, <2>3, PolledOwner
      <3>2. Live(d) => EntryKept(regs[d].handle.slot)
        BY <1>1, <3>1 DEF EntryKept
      <3> QED
        BY <1>1, <2>1, <2>3, <3>2, UntouchedIsSame DEF TimersInv
    <2>4. CASE ~ Live(c) /\ Over(c) /\ regs'[c].phase \in {"removed", "done"}
      <3>1. /\ StatusOf(c) = "over" /\ OnOf(c) = FALSE /\ PeriodOf(c) = 0 /\ NextDueOf(c) = 0
        BY <2>4 DEF StatusOf, OnOf, PeriodOf, NextDueOf, EntriesOf, Over, Live
      <3>2. TimerAgrees(c)' /\ Same(c)
        BY <2>4, <3>1, OverShows DEF Same
      <3> QED
        BY <1>1, <1>2, <2>2, <2>3, <3>1, <3>2, ServiceReturns DEF TimersInv, OthersSame
    <2>5. CASE /\ Live(c) /\ regs[c].kind = "delay" /\ regs'[c].phase = "done"
               /\ Serves(tasks[i], c) /\ tasks[i].task = polled
      <3>1. tasks[i].period_us = 0
        <4>1. tasks[i] \in Entry
          <5>1. i \in 1 .. Len(tasks)
            BY <1>1, TaskNamesAssumption DEF PollAgrees, SchedTypeOK
          <5> QED
            BY <5>1 DEF SchedTypeOK
        <4> QED
          BY <2>5, <4>1 DEF Serves, Entry
      <3>2. StatusOf(c) = "live" /\ PeriodOf(c) = 0
        BY <2>5, <3>1 DEF StatusOf, PeriodOf, Serves, Live
      <3>3. TimerAgrees(c)' /\ Shown(c, "over", FALSE, 0, 0)
        BY <2>5, OverShows
      <3> QED
        BY <1>1, <1>2, <2>2, <2>3, <3>2, <3>3, ServiceReturns DEF TimersInv, OthersSame
    <2>6. CASE /\ Live(c) /\ regs[c].kind = "repeat" /\ Untouched(c)
               /\ Serves(tasks[i], c) /\ tasks[i].task = polled /\ tasks[i].next_due_us <= now_us
               /\ \A x : x.task = polled =>
                     (Lists(tasks', x) <=> x = [tasks[i] EXCEPT !.next_due_us = NextDue(tasks[i])])
      <3>1. PICK e : e = tasks[i]
        OBVIOUS
      <3>2. Lists(tasks, e)
        <4>1. i \in 1 .. Len(tasks)
          BY <1>1, TaskNamesAssumption DEF PollAgrees, SchedTypeOK
        <4> QED
          BY <1>1, <2>6, <3>1, <4>1 DEF Lists, Occupied
      <3>3. /\ MovesTo(c, NextDue(e)) /\ TimerAgrees(c)' /\ StatusOf(c) = "live" /\ PeriodOf(c) # 0
        <4>1. e.periodic
          BY <2>6, <3>1 DEF Serves
        <4> QED
          BY <1>1, <2>6, <3>1, <3>2, <4>1, EntryMovesOn DEF TimersInv
      <3> QED
        BY <1>1, <1>2, <2>2, <2>3, <3>3, ServiceReturns DEF TimersInv, OthersSame
    <2> QED
      BY <2>1, <2>4, <2>5, <2>6 DEF ReturnCases
  <1> QED
    BY <1>3, <1>4

-----------------------------------------------------------------------------
LEMMA TimersInvInit == Init => TimersInv
  BY DEF Init, ELInit, TimersInv, TimerAgrees, Live

LEMMA ServiceInit == Init => Service!Init
  <1> SUFFICES ASSUME Init PROVE Service!Init
    OBVIOUS
  <1>1. \A c \in Callables : StatusOf(c) = "new" /\ OnOf(c) = FALSE /\ PeriodOf(c) = 0 /\ NextDueOf(c) = 0
    <2>1. \A c \in Callables : regs[c].phase = "new"
      BY DEF Init, ELInit
    <2> QED
      BY <2>1, NewShows
  <1>2. RunningTimer = NoCallable
    BY TaskNamesAssumption DEF Init, RunningTimer
  <1>3. clock \in 0 .. ClockMax /\ now_us = clock
    BY ClockAssumption DEF Init
  <1> QED
    BY <1>1, <1>2, <1>3 DEF Service!Init

LEMMA TimersStep ==
    ASSUME InCallback # "anything", DisableDelays = FALSE
    PROVE  ELInv /\ ELInv' /\ SchedTypeOK /\ TasksInv /\ TimersInv /\ [Next]_vars =>
               TimersInv' /\ [Service!Next]_(Service!vars)
  <1> SUFFICES ASSUME ELInv, ELInv', SchedTypeOK, TasksInv, TimersInv, [Next]_vars
               PROVE  TimersInv' /\ [Service!Next]_(Service!vars)
    OBVIOUS
  <1>0. /\ SchedTypeOK' /\ TasksInv' /\ OneEach(tasks) /\ OneEach(tasks')
    BY TasksInvStep DEF TasksInv
  <1>a. clock \in Nat /\ ClockMax \in Nat /\ MaxTime \in Nat /\ clock <= MaxTime /\ MaxTime <= ClockMax
    BY ClockAssumption DEF SchedTypeOK
  <1>1. ASSUME NEW c \in Callables, NEW p \in Periods, on_repeat_us(c, p)
        PROVE  TimersInv' /\ [Service!Next]_(Service!vars)
    <2>1. clock \in 0 .. ClockMax /\ clock >= clock /\ p \in Periods \cup {0} /\ "repeat" \in Kinds
      BY <1>a DEF Kinds
    <2> QED
      BY <1>0, <1>a, <1>1, <2>1, RegisterMaps DEF on_repeat_us
  <1>2. ASSUME NEW c \in Callables, NEW d \in Delays, on_delay_us(c, d)
        PROVE  TimersInv' /\ [Service!Next]_(Service!vars)
    <2>1. DelayDue(d) \in 0 .. ClockMax /\ DelayDue(d) >= clock /\ DelayDue(d) \in Nat
      BY <1>a, RequestsAssumption DEF DelayDue
    <2>2. 0 \in Periods \cup {0} /\ "delay" \in Kinds
      BY DEF Kinds
    <2> QED
      BY <1>0, <1>2, <2>1, <2>2, RegisterMaps DEF on_delay_us
  <1>3. ASSUME NEW c \in Callables, remove(c) PROVE TimersInv' /\ [Service!Next]_(Service!vars)
    BY <1>3, RemoveMaps
  <1>4. ASSUME NEW c \in Callables, NEW e \in BOOLEAN, set_callback_enabled(c, e)
        PROVE  TimersInv' /\ [Service!Next]_(Service!vars)
    BY <1>0, <1>4, EnabledMaps
  <1>5. ASSUME UNCHANGED <<elVars, clock, now_us, polled, promise>>,
               \A e : e.task \in Slots => (Lists(tasks', e) <=> Lists(tasks, e))
        PROVE  TimersInv' /\ [Service!Next]_(Service!vars)
    <2>1. \A c \in Callables : Untouched(c)
      BY <1>5 DEF Untouched, elVars
    <2>2. \A c \in Callables : Live(c) => EntryKept(regs[c].handle.slot)
      BY <1>5 DEF EntryKept, ELInv, HandleTrace, TraceOf, Live
    <2>3. UNCHANGED <<clock, now_us, RunningTimer>>
      BY <1>5 DEF RunningTimer, elVars
    <2> QED
      BY <1>0, <2>1, <2>2, <2>3, NothingShows
  <1>6. ASSUME NEW r \in RawTasks, NEW p \in Periods, add_raw(r, TRUE, p, clock)
        PROVE  TimersInv' /\ [Service!Next]_(Service!vars)
    <2>1. p \in Nat /\ clock \in Nat
      BY <1>a, RequestsAssumption
    <2> QED
      BY <1>5, <1>6, <2>1, RawKeepsTasks
  <1>7. ASSUME NEW r \in RawTasks, NEW d \in Delays, add_raw(r, FALSE, 0, DelayDue(d))
        PROVE  TimersInv' /\ [Service!Next]_(Service!vars)
    <2>1. DelayDue(d) \in Nat
      BY <1>a, RequestsAssumption DEF DelayDue
    <2> QED
      BY <1>5, <1>7, <2>1, RawKeepsTasks
  <1>8. CASE SkipEntry \/ EndPass
    <2>1. \A e : Lists(tasks', e) <=> Lists(tasks, e)
      BY <1>8, CompactKeepsTasks DEF SkipEntry, EndPass
    <2>2. UNCHANGED <<elVars, clock, now_us, polled, promise>>
      BY <1>8 DEF SkipEntry, EndPass
    <2> QED
      BY <1>5, <2>1, <2>2
  <1>b. CASE BeginPass
    <2>1. \A e : Lists(tasks', e) <=> Lists(tasks, e)
      BY <1>b, CompactKeepsTasks DEF BeginPass
    <2>2. UNCHANGED <<elVars, clock, polled, promise>> /\ now_us' = clock /\ pc = "idle"
      BY <1>b DEF BeginPass
    <2>3. \A c \in Callables : Untouched(c) /\ (Live(c) => EntryKept(regs[c].handle.slot))
      BY <2>1, <2>2 DEF Untouched, elVars, EntryKept
    <2>4. \A c \in Callables : TimerAgrees(c)' /\ Same(c)
      BY <1>0, <2>3, UntouchedIsSame DEF TimersInv
    <2>5. RunningTimer = NoCallable /\ UNCHANGED RunningTimer
      BY <2>2, TaskNamesAssumption DEF TasksInv, PollAgrees, RunningTimer, elVars
    <2> QED
      BY <2>2, <2>4, <2>5, ServiceLooks DEF TimersInv
  <1>9. CASE PollEntry
    BY <1>9, EnterMaps
  <1>10. CASE PollNothing
    BY <1>10, PollNothingMaps
  <1>11. CASE PollReturns
    BY <1>11, ReturnMaps
  <1>12. CASE request_exit \/ UNCHANGED vars
    BY <1>5, <1>12 DEF request_exit, vars, schedVars
  <1>13. CASE Tick
    <2>1. UNCHANGED <<elVars, tasks, now_us, polled, promise>> /\ clock' = clock + 1
      BY <1>13 DEF Tick
    <2>2. \A c \in Callables : Untouched(c)
      BY <2>1 DEF Untouched, elVars
    <2>3. \A c \in Callables : TimerAgrees(c)' /\ Same(c)
      BY <1>0, <2>1, <2>2, UntouchedIsSame DEF TimersInv, EntryKept
    <2>4. UNCHANGED RunningTimer
      BY <2>1 DEF RunningTimer, elVars
    <2> QED
      BY <2>1, <2>3, <2>4, ServiceAdvances DEF TimersInv
  <1> QED
    BY <1>1, <1>2, <1>3, <1>4, <1>6, <1>7, <1>8, <1>b, <1>9, <1>10, <1>11, <1>12, <1>13 DEF Next, Scan

(* The invariants along a behaviour. *)
LEMMA TimersInvariant ==
    ASSUME InCallback # "anything", DisableDelays = FALSE
    PROVE  Spec => [](ELInv /\ SchedTypeOK /\ TasksInv /\ TimersInv)
  <1>1. Spec => []ELInv
    BY ArduinoIsFacade, ELInvariant, PTL
  <1>2. ELInv /\ ELInv' /\ SchedTypeOK /\ TasksInv /\ TimersInv /\ [Next]_vars =>
           SchedTypeOK' /\ TasksInv' /\ TimersInv'
    BY TasksInvStep, TimersStep
  <1> QED
    BY <1>1, <1>2, TasksInvInit, TimersInvInit, PTL DEF Spec

(* A registration the application holds is in the task array, so that       *)
(* remove() finds it, as long as callbacks register nothing behind a hole   *)
(* and no delay is disabled. *)
THEOREM ArduinoRemovableWhileLive ==
    InCallback # "anything" /\ DisableDelays = FALSE /\ Spec => []RemovableWhileLive
  <1> SUFFICES ASSUME InCallback # "anything", DisableDelays = FALSE
               PROVE  Spec => []RemovableWhileLive
    OBVIOUS
  <1>1. TimersInv => RemovableWhileLive
    BY DEF TimersInv, TimerAgrees, RemovableWhileLive
  <1> QED
    BY <1>1, TimersInvariant, PTL

(* Under the same conditions run_once(), its scan of the task array and     *)
(* what callbacks do to the array meanwhile amount to a timer service: due  *)
(* callbacks start one at a time, not before their time and only while      *)
(* enabled, a delay ends with its run, and a repeating callback moves on    *)
(* along its grid, beyond the time of the pass. *)
THEOREM ArduinoImplementsTimerService ==
    InCallback # "anything" /\ DisableDelays = FALSE /\ Spec => ImplementsTimerService
  <1> SUFFICES ASSUME InCallback # "anything", DisableDelays = FALSE
               PROVE  Spec => ImplementsTimerService
    OBVIOUS
  <1>1. ELInv /\ ELInv' /\ SchedTypeOK /\ TasksInv /\ TimersInv /\ [Next]_vars =>
           [Service!Next]_(Service!vars)
    BY TimersStep
  <1> QED
    BY <1>1, TimersInvariant, ServiceInit, PTL DEF Spec, ImplementsTimerService, Service!Spec
=============================================================================
