--------------------------- MODULE LibeventProofs ---------------------------
(* TLAPS proofs about LibeventEventLoop. *)
EXTENDS LibeventEventLoop, EventLoopProofs

LoopInv == SchedTypeOK /\ DepthMatches

(* What compaction leaves is typed when what it is given is. *)
LEMMA CompactTyping ==
    ASSUME NEW its \in [Callables -> Item],
           NEW pend \in [Callables -> Nat \cup {NotPending}],
           NEW act \in SUBSET Callables, NEW depth,
           compact_removed_events(its, pend, act, depth)
    PROVE  /\ items' \in [Callables -> Item]
           /\ pending' \in [Callables -> Nat \cup {NotPending}]
           /\ active' \subseteq Callables
  <1>1. NoItem \in Item
    BY DEF NoItem, Item
  <1> QED
    BY <1>1 DEF compact_removed_events

(* The updates that the scheduler makes to an item. *)
LEMMA ItemUpdates ==
    ASSUME NEW it \in Item
    PROVE  /\ \A n \in Nat : [it EXCEPT !.next_due_us = n] \in Item
           /\ [it EXCEPT !.removed = TRUE, !.task = NoTask] \in Item
           /\ \A s \in Slots : [it EXCEPT !.task = s] \in Item
  BY DEF Item

(* A registration keeps the scheduler's tables typed when its item and its  *)
(* timeout are.                                                             *)
LEMMA RegisterTyping ==
    ASSUME LoopInv,
           NEW c \in Callables, NEW k, NEW item \in Item, NEW ok \in BOOLEAN,
           NEW delay \in Nat \cup {NotPending}, NEW from \in Nat,
           RegisterItem(c, k, item, ok, delay, from)
    PROVE  LoopInv'
  <1>1. Base \in Nat
    BY DEF LoopInv, SchedTypeOK, Base
  <1>2. clock \in Nat
    BY LibeventClockAssumption DEF LoopInv, SchedTypeOK
  <1>3. CASE UNCHANGED <<items, pending, active, promise>>
    BY <1>3 DEF LoopInv, SchedTypeOK, DepthMatches, RegisterItem
  <1>4. ASSUME NEW s \in Slots,
               compact_removed_events(
                 [items EXCEPT ![c] = [item EXCEPT !.task = s]],
                 [pending EXCEPT ![c] = IF delay = NotPending THEN NotPending ELSE Base + delay],
                 active, callback_depth),
               promise' = [promise EXCEPT ![c] =
                             [since |-> clock, from |-> from, period |-> item.period_us, runs |-> 0]]
        PROVE  LoopInv'
    <2>1. [items EXCEPT ![c] = [item EXCEPT !.task = s]] \in [Callables -> Item]
      BY DEF LoopInv, SchedTypeOK, Item
    <2>2. [pending EXCEPT ![c] = IF delay = NotPending THEN NotPending ELSE Base + delay]
             \in [Callables -> Nat \cup {NotPending}]
      <3>1. (IF delay = NotPending THEN NotPending ELSE Base + delay) \in Nat \cup {NotPending}
        BY <1>1
      <3> QED
        BY <3>1 DEF LoopInv, SchedTypeOK
    <2>3. /\ items' \in [Callables -> Item]
          /\ pending' \in [Callables -> Nat \cup {NotPending}]
          /\ active' \subseteq Callables
      BY <1>4, <2>1, <2>2, CompactTyping DEF LoopInv, SchedTypeOK
    <2>4. promise' \in [Callables -> [since : Nat, from : Nat, period : Nat, runs : Nat]]
      BY <1>2, <1>4 DEF LoopInv, SchedTypeOK, Item
    <2> QED
      BY <2>3, <2>4 DEF LoopInv, SchedTypeOK, DepthMatches, RegisterItem
  <1>5. CASE compact_removed_events(items, pending, active, callback_depth) /\ UNCHANGED promise
    <2>1. /\ items' \in [Callables -> Item]
          /\ pending' \in [Callables -> Nat \cup {NotPending}]
          /\ active' \subseteq Callables
      BY <1>5, CompactTyping DEF LoopInv, SchedTypeOK
    <2> QED
      BY <1>5, <2>1 DEF LoopInv, SchedTypeOK, DepthMatches, RegisterItem
  <1> QED
    BY <1>3, <1>4, <1>5 DEF RegisterItem

(* The end of timer_callback() and fd_callback() keeps the tables typed. *)
LEMMA AfterPollTyping ==
    ASSUME LoopInv, NEW c \in Callables, AfterPoll(c)
    PROVE  /\ items' \in [Callables -> Item]
           /\ pending' \in [Callables -> Nat \cup {NotPending}]
           /\ active' \subseteq Callables
  <1> DEFINE item == items[c]
             rearm == ~ item.fd /\ ~ item.removed /\ item.periodic
             delay == periodic_timer_next_delay_us(item.next_due_us, item.period_us, clock)
             after == IF rearm THEN [item EXCEPT !.next_due_us = @ + item.period_us]
                      ELSE IF item.fd \/ item.periodic THEN item
                      ELSE [item EXCEPT !.removed = TRUE, !.task = NoTask]
  <1>1. item \in Item /\ clock \in Nat /\ cached \in Nat
    BY LibeventClockAssumption DEF LoopInv, SchedTypeOK
  <1>2. after \in Item
    <2>1. item.next_due_us + item.period_us \in Nat
      BY <1>1 DEF Item
    <2> HIDE DEF item
    <2> QED
      BY <1>1, <2>1, ItemUpdates
  <1>3. delay \in Nat
    BY <1>1 DEF Item, periodic_timer_next_delay_us
  <1>4. [items EXCEPT ![c] = after] \in [Callables -> Item]
    BY <1>2 DEF LoopInv, SchedTypeOK
  <1>5. [pending EXCEPT ![c] = IF rearm THEN cached + delay ELSE @]
           \in [Callables -> Nat \cup {NotPending}]
    BY <1>1, <1>3 DEF LoopInv, SchedTypeOK
  <1>6. active \ {c} \subseteq Callables
    BY DEF LoopInv, SchedTypeOK
  <1>7. compact_removed_events([items EXCEPT ![c] = after],
                               [pending EXCEPT ![c] = IF rearm THEN cached + delay ELSE @],
                               active \ {c}, 0)
    BY DEF AfterPoll
  <1> HIDE DEF after, delay
  <1> QED
    BY <1>4, <1>5, <1>6, <1>7, CompactTyping

(* The scheduler's tables are typed at the start ... *)
LEMMA LoopInvInit == Init => LoopInv
  <1> SUFFICES ASSUME Init PROVE LoopInv
    OBVIOUS
  <1>1. NoItem \in Item
    BY DEF NoItem, Item
  <1>2. 0 \in 0 .. MaxTime
    BY LibeventClockAssumption
  <1>3. SchedTypeOK
    <2>1. items \in [Callables -> Item] /\ pending \in [Callables -> Nat \cup {NotPending}]
      BY <1>1 DEF Init
    <2>2. promise \in [Callables -> [since : Nat, from : Nat, period : Nat, runs : Nat]]
      BY DEF Init
    <2>3. callback_depth \in 0 .. 1 /\ cached \in 0 .. clock /\ clock \in 0 .. MaxTime
      BY <1>2 DEF Init
    <2> QED
      BY <2>1, <2>2, <2>3 DEF Init, SchedTypeOK
  <1>4. DepthMatches
    BY DEF Init, DepthMatches
  <1> QED
    BY <1>3, <1>4 DEF LoopInv

(* ... and every step keeps them so. *)
LEMMA LoopInvStep == LoopInv /\ [Next]_vars => LoopInv'
  <1> SUFFICES ASSUME LoopInv, [Next]_vars PROVE LoopInv'
    OBVIOUS
  <1> USE NoCallableAssumption
  <1>0. clock \in Nat /\ clock <= MaxTime
    BY LibeventClockAssumption DEF LoopInv, SchedTypeOK
  <1>1. ASSUME NEW c \in Callables, NEW p \in Periods, on_repeat_us(c, p) PROVE LoopInv'
    <2>1. p \in Nat /\ clock + p \in Nat
      BY <1>0, LibeventRequestsAssumption
    <2>2. TimerItem(TRUE, p, clock + p) \in Item
      BY <2>1 DEF TimerItem, Item
    <2>3. RegisterItem(c, "repeat", TimerItem(TRUE, p, clock + p), p # 0, p, clock + p)
      BY <1>1 DEF on_repeat_us
    <2> QED
      BY <2>1, <2>2, <2>3, RegisterTyping
  <1>2. ASSUME NEW c \in Callables, NEW d \in Delays, on_delay_us(c, d) PROVE LoopInv'
    <2>1. DelayDue(d) \in Nat /\ DelayDue(d) - clock \in Nat
      BY <1>0, LibeventRequestsAssumption, LibeventClockAssumption DEF DelayDue
    <2>2. TimerItem(FALSE, 0, DelayDue(d)) \in Item
      BY <2>1 DEF TimerItem, Item
    <2>3. RegisterItem(c, "delay", TimerItem(FALSE, 0, DelayDue(d)), TRUE,
                       DelayDue(d) - clock, DelayDue(d))
      BY <1>2 DEF on_delay_us
    <2> QED
      BY <2>1, <2>2, <2>3, RegisterTyping
  <1>3. ASSUME NEW c \in Callables, on_readable(c) PROVE LoopInv'
    <2>1. FdItem \in Item
      BY DEF FdItem, Item
    <2>2. RegisterItem(c, "repeat", FdItem, TRUE, NotPending, clock)
      BY <1>3 DEF on_readable
    <2> QED
      BY <1>0, <2>1, <2>2, RegisterTyping
  <1>4. ASSUME NEW c \in Callables, remove(c) PROVE LoopInv'
    <2>1. MarkRemoved(items, regs[c].handle.slot) \in [Callables -> Item]
      BY ItemUpdates DEF MarkRemoved, LoopInv, SchedTypeOK
    <2>2. /\ items' \in [Callables -> Item]
          /\ pending' \in [Callables -> Nat \cup {NotPending}]
          /\ active' \subseteq Callables
      BY <1>4, <2>1, CompactTyping DEF remove, LoopInv, SchedTypeOK
    <2> QED
      BY <1>4, <2>2 DEF remove, LoopInv, SchedTypeOK, DepthMatches
  <1>5. ASSUME NEW c \in Callables, NEW e \in BOOLEAN, set_callback_enabled(c, e) PROVE LoopInv'
    BY <1>5 DEF set_callback_enabled, schedVars, LoopInv, SchedTypeOK, DepthMatches
  <1>6. CASE request_exit \/ ReadDescriptor
    BY <1>6 DEF request_exit, ReadDescriptor, LoopInv, SchedTypeOK, DepthMatches
  <1>7. CASE BeginIteration
    <2>1. ASSUME NEW due \in SUBSET Callables, NEW ready \in SUBSET Callables,
                 IterationWith(due, ready)
          PROVE  LoopInv'
      <3>1. pending' \in [Callables -> Nat \cup {NotPending}] /\ active' \subseteq Callables
        BY <2>1 DEF IterationWith, LoopInv, SchedTypeOK
      <3>2. cached' \in 0 .. clock' /\ clock' \in 0 .. MaxTime
        BY <1>0, <2>1 DEF IterationWith, LoopInv, SchedTypeOK
      <3> QED
        BY <2>1, <3>1, <3>2 DEF IterationWith, LoopInv, SchedTypeOK, DepthMatches
    <2>2. {c \in readable : items[c].allocated /\ items[c].fd} \subseteq Callables
      BY DEF LoopInv, SchedTypeOK
    <2> QED
      BY <1>7, <2>1, <2>2 DEF BeginIteration
  <1>8. ASSUME NEW c \in Callables, EnterCallback(c) PROVE LoopInv'
    BY <1>8 DEF EnterCallback, LoopInv, SchedTypeOK, DepthMatches
  <1>9. ASSUME NEW c \in Callables, PollNothing(c) PROVE LoopInv'
    BY <1>9, AfterPollTyping DEF PollNothing, LoopInv, SchedTypeOK, DepthMatches
  <1>10. CASE LeaveCallback
    <2>1. current \in Callables /\ AfterPoll(current)
      BY <1>10 DEF LeaveCallback, LoopInv, SchedTypeOK, DepthMatches
    <2> QED
      BY <1>10, <2>1, AfterPollTyping DEF LeaveCallback, LoopInv, SchedTypeOK, DepthMatches
  <1>11. CASE EndIteration
    <2>1. /\ items' \in [Callables -> Item]
          /\ pending' \in [Callables -> Nat \cup {NotPending}]
          /\ active' \subseteq Callables
      BY <1>11, CompactTyping DEF EndIteration, LoopInv, SchedTypeOK
    <2> QED
      BY <1>0, <1>11, <2>1 DEF EndIteration, LoopInv, SchedTypeOK, DepthMatches
  <1>12. CASE DataArrives
    BY <1>12 DEF DataArrives, LoopInv, SchedTypeOK, DepthMatches
  <1>13. CASE Tick
    BY <1>0, <1>13, LibeventClockAssumption DEF Tick, LoopInv, SchedTypeOK, DepthMatches
  <1>14. CASE UNCHANGED vars
    BY <1>14 DEF vars, schedVars, LoopInv, SchedTypeOK, DepthMatches
  <1> QED
    BY <1>1, <1>2, <1>3, <1>4, <1>5, <1>6, <1>7, <1>8, <1>9, <1>10, <1>11, <1>12, <1>13, <1>14
    DEF Next, Loop

(* Every step of the loop on libevent is a step of the facade over an       *)
(* arbitrary scheduler, or leaves the facade alone.                         *)
LEMMA LibeventStepIsFacadeStep == LoopInv /\ [Next]_vars => [ELNext]_elVars
  <1> SUFFICES ASSUME LoopInv, [Next]_vars PROVE [ELNext]_elVars
    OBVIOUS
  <1>1. ASSUME NEW c \in Callables, NEW k \in Kinds, NEW item, NEW ok, NEW d, NEW f,
               RegisterItem(c, k, item, ok, d, f)
        PROVE  ELNext
    BY <1>1 DEF RegisterItem, ELNext, Register
  <1>2. ASSUME NEW c \in Callables, NEW p \in Periods, on_repeat_us(c, p) PROVE ELNext
    BY <1>1, <1>2 DEF on_repeat_us, Kinds
  <1>3. ASSUME NEW c \in Callables, NEW d \in Delays, on_delay_us(c, d) PROVE ELNext
    BY <1>1, <1>3 DEF on_delay_us, Kinds
  <1>4. ASSUME NEW c \in Callables, on_readable(c) PROVE ELNext
    BY <1>1, <1>4 DEF on_readable, Kinds
  <1>5. ASSUME NEW c \in Callables, remove(c) PROVE ELNext
    BY <1>5 DEF remove, ELNext, UseHandle
  <1>6. ASSUME NEW c \in Callables, NEW e \in BOOLEAN, set_callback_enabled(c, e) PROVE ELNext
    BY <1>6 DEF set_callback_enabled, ELNext, UseHandle
  <1>7. CASE request_exit \/ ReadDescriptor \/ DataArrives \/ Tick
    BY <1>7 DEF request_exit, ReadDescriptor, DataArrives, Tick
  <1>8. CASE Loop
    <2>1. ASSUME NEW c \in Callables, EnterCallback(c) PROVE ELNext
      <3>1. items[c].task \in Slots
        BY <2>1 DEF EnterCallback, LoopInv, SchedTypeOK, Item
      <3> QED
        BY <2>1, <3>1 DEF EnterCallback, ELNext
    <2>2. CASE LeaveCallback
      BY <2>2 DEF LeaveCallback, ELNext, Invoking
    <2>3. CASE BeginIteration \/ EndIteration
      BY <2>3 DEF BeginIteration, IterationWith, EndIteration
    <2>4. ASSUME NEW c \in Callables, PollNothing(c) PROVE UNCHANGED elVars
      BY <2>4 DEF PollNothing
    <2> QED
      BY <1>8, <2>1, <2>2, <2>3, <2>4 DEF Loop
  <1>9. CASE UNCHANGED vars
    BY <1>9 DEF vars
  <1> QED
    BY <1>2, <1>3, <1>4, <1>5, <1>6, <1>7, <1>8, <1>9 DEF Next

(* The loop on libevent implements the facade, whatever order libevent      *)
(* dispatches its events in.                                                *)
THEOREM LibeventImplementsFacade == Spec => ELSpec
  <1>1. Init => ELInit
    BY DEF Init
  <1> QED
    BY <1>1, LoopInvInit, LoopInvStep, LibeventStepIsFacadeStep, PTL DEF Spec, ELSpec

(* Its tables are well typed: in particular the callback depth that decides *)
(* when items may be freed is exactly the callback in progress.             *)
THEOREM LibeventTypeCorrect == Spec => []TypeOK
  <1>1. ELTypeOK /\ LoopInv => TypeOK
    BY DEF LoopInv, TypeOK
  <1> QED
    BY <1>1, LoopInvInit, LoopInvStep, LibeventImplementsFacade, ELTypeCorrect, PTL DEF Spec

(* Hence handles and stored callables are as safe on libevent as in the     *)
(* facade.                                                                  *)
THEOREM LibeventHandleSafety == Spec => [](LiveHandleValid /\ StaleHandleRejected)
  BY LibeventImplementsFacade, LiveHandlesValid, StaleHandlesRejected, PTL

(* No callable is destroyed twice, leaked, or started after its removal.    *)
THEOREM LibeventCallableSafety == Spec => []DestroyedOnce /\ RunsOnlyLive
  BY LibeventImplementsFacade, CallablesDestroyedOnce, CallbacksRunOnlyLive, PTL

-----------------------------------------------------------------------------
(* The return of a callback ends the only invocation there is. *)
LEMMA LeaveEndsExecution ==
    ASSUME ELInv, ExecutingIsCurrent, NEW s \in Slots, PollLeave(s)
    PROVE  /\ callback_tasks[s].stored = current
           /\ \A t \in Slots : ~ callback_tasks'[t].invoking
  <1>1. callback_tasks[s].invoking
    BY DEF PollLeave
  <1>2. callback_tasks[s].stored = current
    BY <1>1 DEF ExecutingIsCurrent
  <1>3. ~ callback_tasks'[s].invoking
    BY DEF PollLeave, poll_leave, clear, destroy_now, ELInv, ELTypeOK, Task
  <1>4. ASSUME NEW t \in Slots, t # s PROVE ~ callback_tasks'[t].invoking
    <2>1. callback_tasks'[t] = callback_tasks[t]
      BY <1>4 DEF PollLeave, ELInv, ELTypeOK
    <2>2. ASSUME callback_tasks[t].invoking PROVE FALSE
      <3>1. callback_tasks[t].stored = current /\ current # NoCallable
        BY <1>1, <1>2, <2>2 DEF ExecutingIsCurrent, ELInv, SlotFlags
      <3> QED
        BY <1>2, <1>4, <3>1 DEF ELInv, StoredOwner
    <2> QED
      BY <2>1, <2>2
  <1> QED
    BY <1>2, <1>3, <1>4

(* The item belongs to a registration as it is after the step. *)
OwnedNext(item, c) ==
    /\ regs'[c].phase = "live" /\ item.task = regs'[c].handle.slot
    /\ regs'[c].kind = "delay" => ~ item.fd /\ ~ item.periodic

OverNext(c) == regs'[c].phase \in {"removed", "done"}

(* Compaction, whatever its caller has done to the items before: the items  *)
(* that are left agree with the registrations as they are now when those    *)
(* not marked removed do, and events keep their items.                      *)
LEMMA CompactAgrees ==
    ASSUME NEW its \in [Callables -> Item], NEW pend \in [Callables -> Nat \cup {NotPending}],
           NEW act \in SUBSET Callables, NEW depth,
           compact_removed_events(its, pend, act, depth),
           \A c \in Callables : its[c].allocated =>
               IF its[c].removed THEN depth = 0 \/ (pc' = "callback" /\ OverNext(c)) ELSE OwnedNext(its[c], c),
           \A c \in Callables : pend[c] # NotPending \/ c \in act => its[c].allocated,
           pc' = "callback" => depth # 0 /\ its[current'].allocated
    PROVE  \A c \in Callables : ItemAgrees(c)' /\ EventHasItem(c)'
  <1> SUFFICES ASSUME NEW c \in Callables PROVE ItemAgrees(c)' /\ EventHasItem(c)'
    OBVIOUS
  <1>1. c \in Doomed(its, depth) <=> depth = 0 /\ its[c].allocated /\ its[c].removed
    BY DEF Doomed
  <1>2. CASE c \in Doomed(its, depth)
    <2>1. items'[c] = NoItem /\ pending'[c] = NotPending /\ c \notin active' /\ pc' # "callback"
      BY <1>1, <1>2 DEF compact_removed_events
    <2> QED
      BY <2>1 DEF NoItem, ItemAgrees, EventHasItem
  <1>3. CASE c \notin Doomed(its, depth)
    <2>1. items'[c] = its[c] /\ pending'[c] = pend[c] /\ (c \in active' => c \in act)
      BY <1>3 DEF compact_removed_events
    <2>2. ItemAgrees(c)'
      BY <1>1, <1>3, <2>1 DEF ItemAgrees, Owned, OwnedNext, OverNext, Over, Live
    <2>3. EventHasItem(c)'
      BY <2>1 DEF EventHasItem
    <2> QED
      BY <2>2, <2>3
  <1> QED
    BY <1>2, <1>3

(* A registration, refused or accepted, keeps items and registrations in    *)
(* agreement: the new item belongs to the new registration.                 *)
LEMMA RegisterAgrees ==
    ASSUME ELInv, LoopInv, ItemsInv,
           NEW c \in Callables, NEW k \in Kinds, NEW item \in Item, NEW ok \in BOOLEAN,
           NEW delay \in Nat \cup {NotPending}, NEW from,
           item.allocated, ~ item.removed, k = "delay" => ~ item.fd /\ ~ item.periodic,
           RegisterItem(c, k, item, ok, delay, from)
    PROVE  ItemsInv'
  <1>1. pc' = pc /\ current' = current /\ regs[c].phase = "new"
    BY DEF RegisterItem, RejectTableFull, RejectBusySlot, RejectUnscheduled, Accept
  <1>2. ExecutingIsCurrent'
    <2>1. Register(c, k)
      BY DEF RegisterItem, Register
    <2> QED
      BY <1>1, <2>1, RegisterKeepsExecuting DEF ExecutingKept, ItemsInv, ExecutingIsCurrent
  <1>3. \A d \in Callables : d # c => regs'[d] = regs[d]
    BY DEF RegisterItem, RejectTableFull, RejectBusySlot, RejectUnscheduled, Accept, Reject,
           ELInv, ELTypeOK
  <1>4. \A d \in Callables : /\ Owned(items[d], d) => d # c /\ OwnedNext(items[d], d)
                             /\ Over(d) => OverNext(d)
    BY <1>1, <1>3 DEF Owned, OwnedNext, Live, Over, OverNext
  <1>5. callback_depth = (IF pc = "callback" THEN 1 ELSE 0) /\ (pc = "callback" => current \in Callables)
    BY NoCallableAssumption DEF LoopInv, DepthMatches, SchedTypeOK
  <1>6. CASE UNCHANGED <<items, pending, active, promise>>
    <2> SUFFICES ASSUME NEW d \in Callables PROVE ItemAgrees(d)' /\ EventHasItem(d)'
      BY <1>2 DEF ItemsInv
    <2> QED
      BY <1>1, <1>4, <1>6
      DEF ItemsInv, ItemAgrees, EventHasItem, Owned, OwnedNext, Live, Over, OverNext
  <1>7. CASE compact_removed_events(items, pending, active, callback_depth) /\ UNCHANGED promise
    <2>1. \A d \in Callables : items[d].allocated =>
             IF items[d].removed THEN callback_depth = 0 \/ (pc' = "callback" /\ OverNext(d))
               ELSE OwnedNext(items[d], d)
      BY <1>1, <1>4 DEF ItemsInv, ItemAgrees
    <2>2. \A d \in Callables : pending[d] # NotPending \/ d \in active => items[d].allocated
      BY DEF ItemsInv, EventHasItem
    <2>3. pc' = "callback" => callback_depth # 0 /\ items[current'].allocated
      BY <1>1, <1>5 DEF ItemsInv, EventHasItem
    <2>4. items \in [Callables -> Item] /\ pending \in [Callables -> Nat \cup {NotPending}]
          /\ active \in SUBSET Callables
      BY DEF LoopInv, SchedTypeOK
    <2>5. \A d \in Callables : ItemAgrees(d)' /\ EventHasItem(d)'
      BY <1>7, <2>1, <2>2, <2>3, <2>4, CompactAgrees
    <2> QED
      BY <1>2, <2>5 DEF ItemsInv
  <1>8. ASSUME NEW s \in Slots, Accept(c, k, s),
               compact_removed_events(
                 [items EXCEPT ![c] = [item EXCEPT !.task = s]],
                 [pending EXCEPT ![c] = IF delay = NotPending THEN NotPending ELSE Base + delay],
                 active, callback_depth)
        PROVE  ItemsInv'
    <2> DEFINE its == [items EXCEPT ![c] = [item EXCEPT !.task = s]]
               pend == [pending EXCEPT ![c] = IF delay = NotPending THEN NotPending ELSE Base + delay]
    <2>1. /\ its[c].allocated /\ ~ its[c].removed /\ its[c].task = s
          /\ its[c].fd = item.fd /\ its[c].periodic = item.periodic
          /\ \A d \in Callables : d # c => its[d] = items[d]
      BY DEF LoopInv, SchedTypeOK, Item
    <2>2. regs'[c].phase = "live" /\ regs'[c].kind = k /\ regs'[c].handle.slot = s
      BY <1>8 DEF Accept, ELInv, ELTypeOK
    <2>3. its \in [Callables -> Item] /\ pend \in [Callables -> Nat \cup {NotPending}]
          /\ active \in SUBSET Callables
      <3>1. [item EXCEPT !.task = s] \in Item
        BY ItemUpdates
      <3>2. Base \in Nat
        BY DEF LoopInv, SchedTypeOK, Base
      <3> QED
        BY <3>1, <3>2 DEF LoopInv, SchedTypeOK
    <2>4. \A d \in Callables : d # c => pend[d] = pending[d]
      BY DEF LoopInv, SchedTypeOK
    <2>5. compact_removed_events(its, pend, active, callback_depth)
      BY <1>8
    <2> HIDE DEF its, pend
    <2>6. ASSUME NEW d \in Callables, its[d].allocated
          PROVE  IF its[d].removed THEN callback_depth = 0 \/ (pc' = "callback" /\ OverNext(d))
               ELSE OwnedNext(its[d], d)
      <3>1. CASE d = c
        BY <2>1, <2>2, <3>1 DEF OwnedNext
      <3>2. CASE d # c
        BY <1>1, <1>4, <2>1, <2>6, <3>2 DEF ItemsInv, ItemAgrees
      <3> QED
        BY <3>1, <3>2
    <2>7. \A d \in Callables : pend[d] # NotPending \/ d \in active => its[d].allocated
      BY <2>1, <2>4 DEF ItemsInv, EventHasItem
    <2>8. pc' = "callback" => callback_depth # 0 /\ its[current'].allocated
      BY <1>1, <1>5, <2>1 DEF ItemsInv, EventHasItem
    <2>9. \A d \in Callables : ItemAgrees(d)' /\ EventHasItem(d)'
      BY <2>3, <2>5, <2>6, <2>7, <2>8, CompactAgrees
    <2> QED
      BY <1>2, <2>9 DEF ItemsInv
  <1> QED
    BY <1>6, <1>7, <1>8 DEF RegisterItem

(* remove() marks the item of the registration it ends, and no other. *)
LEMMA RemoveAgrees ==
    ASSUME ELInv, LoopInv, ItemsInv, NEW c \in Callables, remove(c)
    PROVE  ItemsInv'
  <1> DEFINE s == regs[c].handle.slot
             its == MarkRemoved(items, s)
             b == callback_tasks[s].stored
  <1>1. s \in Slots /\ callback_tasks[s].active
    <2>1. valid(regs[c].handle)
      BY DEF remove
    <2>2. s < MaxCallbacks /\ callback_tasks[s].active
      BY <2>1 DEF valid
    <2>3. s \in Nat
      BY DEF ELInv, ELTypeOK, Registration, Handle
    <2> QED
      BY <2>2, <2>3, MaxCallbacksAssumption DEF Slots
  <1>2. pc' = pc /\ current' = current /\ pc \in {"idle", "callback"} /\ Remove(regs[c].handle)
        /\ compact_removed_events(its, pending, active, callback_depth)
    BY DEF remove, AppRuns
  <1>3. ExecutingIsCurrent'
    BY <1>2, UseKeepsExecuting DEF UseHandle, ExecutingKept, ItemsInv, ExecutingIsCurrent
  <1>4. ASSUME NEW d \in Callables, Owned(items[d], d), items[d].task # s
        PROVE  OwnedNext(items[d], d)
    <2>1. d # b
      BY <1>1, <1>4, NoCallableAssumption DEF Owned, ELInv, StoredOwner
    <2>2. regs'[d] = regs[d]
      BY <1>2, <2>1 DEF Remove, EndRegistration
    <2> QED
      BY <1>4, <2>2 DEF Owned, OwnedNext, Live
  <1>5. \A d \in Callables : IF items[d].allocated /\ items[d].task = s
                             THEN its[d].allocated /\ its[d].removed
                             ELSE its[d] = items[d]
    BY DEF MarkRemoved, LoopInv, SchedTypeOK, Item
  <1>6. its \in [Callables -> Item] /\ pending \in [Callables -> Nat \cup {NotPending}]
        /\ active \in SUBSET Callables
    BY ItemUpdates DEF MarkRemoved, LoopInv, SchedTypeOK
  <1>7. callback_depth = (IF pc = "callback" THEN 1 ELSE 0) /\ (pc = "callback" => current \in Callables)
    BY NoCallableAssumption DEF LoopInv, DepthMatches, SchedTypeOK
  <1> HIDE DEF its
  <1>8. ASSUME NEW d \in Callables, its[d].allocated
        PROVE  IF its[d].removed THEN callback_depth = 0 \/ (pc' = "callback" /\ OverNext(d))
               ELSE OwnedNext(its[d], d)
    <2>1. Over(d) => OverNext(d)
      BY <1>2 DEF Remove, EndRegistration, ELInv, ELTypeOK, Registration, Over, OverNext
    <2>2. CASE items[d].allocated /\ items[d].task = s /\ ~ items[d].removed
      <3>1. Live(d) /\ regs[d].handle.slot = s
        BY <2>2 DEF ItemsInv, ItemAgrees, Owned
      <3>2. d = b
        BY <3>1 DEF Live, ELInv, HandleTrace, TraceOf
      <3>3. OverNext(d)
        BY <1>2, <3>2 DEF Remove, EndRegistration, ELInv, ELTypeOK, Registration, OverNext
      <3> QED
        BY <1>2, <1>5, <1>7, <2>2, <3>3
    <2>3. CASE ~ (items[d].allocated /\ items[d].task = s /\ ~ items[d].removed)
      BY <1>2, <1>4, <1>5, <1>7, <1>8, <2>1, <2>3 DEF ItemsInv, ItemAgrees
    <2> QED
      BY <2>2, <2>3
  <1>9. \A d \in Callables : pending[d] # NotPending \/ d \in active => its[d].allocated
    BY <1>5 DEF ItemsInv, EventHasItem
  <1>10. pc' = "callback" => callback_depth # 0 /\ its[current'].allocated
    BY <1>2, <1>5, <1>7 DEF ItemsInv, EventHasItem
  <1>11. \A d \in Callables : ItemAgrees(d)' /\ EventHasItem(d)'
    BY <1>2, <1>6, <1>8, <1>9, <1>10, CompactAgrees
  <1> QED
    BY <1>3, <1>11 DEF ItemsInv

(* What timer_callback() and fd_callback() do after poll(): all marked      *)
(* items go, and the item at hand with them if it was a one-shot.           *)
LEMMA AfterPollAgrees ==
    ASSUME LoopInv, ItemsInv, NEW c \in Callables, AfterPoll(c), pc' # "callback",
           items[c].allocated,
           \A d \in Callables : items[d].allocated /\ ~ items[d].removed =>
               OwnedNext(items[d], d) \/ (d = c /\ ~ items[d].fd /\ ~ items[d].periodic)
    PROVE  \A d \in Callables : ItemAgrees(d)' /\ EventHasItem(d)'
  <1> DEFINE item == items[c]
             rearm == ~ item.fd /\ ~ item.removed /\ item.periodic
             delay == periodic_timer_next_delay_us(item.next_due_us, item.period_us, clock)
             after == IF rearm THEN [item EXCEPT !.next_due_us = @ + item.period_us]
                      ELSE IF item.fd \/ item.periodic THEN item
                      ELSE [item EXCEPT !.removed = TRUE, !.task = NoTask]
             its == [items EXCEPT ![c] = after]
             pend == [pending EXCEPT ![c] = IF rearm THEN cached + delay ELSE @]
  <1>1. item \in Item /\ clock \in Nat /\ cached \in Nat
    BY LibeventClockAssumption DEF LoopInv, SchedTypeOK
  <1>2. /\ after \in Item /\ after.allocated
        /\ ~ after.removed => after.task = item.task /\ after.fd = item.fd /\ after.periodic = item.periodic
        /\ ~ after.removed => ~ item.removed /\ (item.fd \/ item.periodic)
    <2>1. item.next_due_us + item.period_us \in Nat
      BY <1>1 DEF Item
    <2>2. item.allocated
      OBVIOUS
    <2> HIDE DEF item
    <2> QED
      BY <1>1, <2>1, <2>2 DEF Item
  <1>3. its \in [Callables -> Item] /\ its[c] = after /\ \A d \in Callables : d # c => its[d] = items[d]
    BY <1>2 DEF LoopInv, SchedTypeOK
  <1>4. pend \in [Callables -> Nat \cup {NotPending}] /\ \A d \in Callables : d # c => pend[d] = pending[d]
    <2>1. delay \in Nat
      BY <1>1 DEF Item, periodic_timer_next_delay_us
    <2> HIDE DEF delay
    <2> QED
      BY <1>1, <2>1 DEF LoopInv, SchedTypeOK
  <1>5. compact_removed_events(its, pend, active \ {c}, 0)
    BY DEF AfterPoll
  <1> HIDE DEF its, pend, after
  <1>6. ASSUME NEW d \in Callables, its[d].allocated
        PROVE  IF its[d].removed THEN 0 = 0 \/ (pc' = "callback" /\ OverNext(d)) ELSE OwnedNext(its[d], d)
    BY <1>2, <1>3, <1>6 DEF OwnedNext
  <1>7. \A d \in Callables : pend[d] # NotPending \/ d \in active \ {c} => its[d].allocated
    BY <1>2, <1>3, <1>4 DEF ItemsInv, EventHasItem
  <1>8. active \ {c} \in SUBSET Callables
    BY DEF LoopInv, SchedTypeOK
  <1> QED
    BY <1>3, <1>4, <1>5, <1>6, <1>7, <1>8, CompactAgrees

(* Items and registrations agree at the start ... *)
LEMMA ItemsInvInit == Init => ItemsInv
  BY DEF Init, ELInit, EmptyTask, NoItem, ItemsInv, ItemAgrees, EventHasItem, ExecutingIsCurrent

(* ... and every step keeps them so. *)
LEMMA ItemsInvStep == ELInv /\ LoopInv /\ ItemsInv /\ [Next]_vars => ItemsInv'
  <1> SUFFICES ASSUME ELInv, LoopInv, ItemsInv, [Next]_vars PROVE ItemsInv'
    OBVIOUS
  <1> USE NoCallableAssumption
  <1>0. /\ clock \in Nat /\ clock <= MaxTime
        /\ items \in [Callables -> Item] /\ pending \in [Callables -> Nat \cup {NotPending}]
        /\ active \in SUBSET Callables
    BY LibeventClockAssumption DEF LoopInv, SchedTypeOK
  <1>1. ASSUME NEW c \in Callables, NEW p \in Periods, on_repeat_us(c, p) PROVE ItemsInv'
    <2>1. p \in Nat /\ clock + p \in Nat
      BY <1>0, LibeventRequestsAssumption
    <2>2. TimerItem(TRUE, p, clock + p) \in Item /\ TimerItem(TRUE, p, clock + p).allocated
          /\ ~ TimerItem(TRUE, p, clock + p).removed
      BY <2>1 DEF TimerItem, Item
    <2>3. RegisterItem(c, "repeat", TimerItem(TRUE, p, clock + p), p # 0, p, clock + p)
      BY <1>1 DEF on_repeat_us
    <2> QED
      BY <2>1, <2>2, <2>3, RegisterAgrees DEF Kinds
  <1>2. ASSUME NEW c \in Callables, NEW d \in Delays, on_delay_us(c, d) PROVE ItemsInv'
    <2> DEFINE item == TimerItem(FALSE, 0, DelayDue(d))
    <2>1. DelayDue(d) \in Nat /\ DelayDue(d) - clock \in Nat
      BY <1>0, LibeventRequestsAssumption, LibeventClockAssumption DEF DelayDue
    <2>2. item \in Item /\ item.allocated /\ ~ item.removed /\ ~ item.fd /\ ~ item.periodic
      BY <2>1 DEF TimerItem, Item
    <2>3. RegisterItem(c, "delay", item, TRUE, DelayDue(d) - clock, DelayDue(d))
      BY <1>2 DEF on_delay_us
    <2> HIDE DEF item
    <2> QED
      BY <2>1, <2>2, <2>3, RegisterAgrees DEF Kinds
  <1>3. ASSUME NEW c \in Callables, on_readable(c) PROVE ItemsInv'
    <2>1. FdItem \in Item /\ FdItem.allocated /\ ~ FdItem.removed
      BY DEF FdItem, Item
    <2>2. RegisterItem(c, "repeat", FdItem, TRUE, NotPending, clock)
      BY <1>3 DEF on_readable
    <2> QED
      BY <2>1, <2>2, RegisterAgrees DEF Kinds
  <1>4. ASSUME NEW c \in Callables, remove(c) PROVE ItemsInv'
    BY <1>4, RemoveAgrees
  <1>5. ASSUME NEW c \in Callables, NEW e \in BOOLEAN, set_callback_enabled(c, e) PROVE ItemsInv'
    <2>1. ExecutingKept
      BY <1>5, UseKeepsExecuting DEF set_callback_enabled, UseHandle
    <2>2. UNCHANGED <<regs, items, pending, active, pc, current>>
      BY <1>5 DEF set_callback_enabled, SetEnabled, schedVars
    <2> QED
      BY <2>1, <2>2
      DEF ItemsInv, ItemAgrees, EventHasItem, Owned, Live, Over, ExecutingIsCurrent, ExecutingKept
  <1>6. ASSUME UNCHANGED <<regs, callback_tasks, items, pending, active, pc, current>> PROVE ItemsInv'
    BY <1>6 DEF ItemsInv, ItemAgrees, EventHasItem, Owned, Live, Over, ExecutingIsCurrent
  <1>7. CASE BeginIteration
    <2>1. /\ pc = "idle" /\ pc' = "dispatch" /\ UNCHANGED <<items, regs, callback_tasks, current>>
          /\ \A c \in Callables : pending'[c] # NotPending => pending[c] # NotPending
          /\ \A c \in active' : c \in active \/ pending[c] # NotPending \/ items[c].allocated
      BY <1>0, <1>7 DEF BeginIteration, IterationWith, elVars
    <2> QED
      BY <2>1 DEF ItemsInv, ItemAgrees, EventHasItem, Owned, Live, ExecutingIsCurrent
  <1>8. ASSUME NEW c \in Callables, EnterCallback(c) PROVE ItemsInv'
    <2> DEFINE s == items[c].task
    <2>1. items[c].allocated /\ ~ items[c].removed /\ pc = "dispatch" /\ Owned(items[c], c)
      BY <1>8 DEF EnterCallback, ItemsInv, ItemAgrees, EventHasItem
    <2>2. callback_tasks[s].stored = c /\ s \in Slots
      BY <2>1 DEF Owned, Live, ELInv, HandleTrace, TraceOf
    <2>3. ExecutingIsCurrent'
      <3>1. pc' = "callback" /\ current' = c /\ Invoking = {}
            /\ callback_tasks' = [callback_tasks EXCEPT ![s] = poll_enter(@)]
        BY <1>8 DEF EnterCallback, PollEnter
      <3>2. \A t \in Slots : t # s => ~ callback_tasks'[t].invoking
        BY <3>1 DEF Invoking, ELInv, ELTypeOK
      <3>3. callback_tasks'[s].stored = c
        BY <2>2, <3>1 DEF ELInv, ELTypeOK, Task, poll_enter
      <3> QED
        BY <3>1, <3>2, <3>3 DEF ExecutingIsCurrent
    <2>4. UNCHANGED <<regs, items, pending>> /\ active' \subseteq active /\ current' = c
      BY <1>8 DEF EnterCallback, PollEnter
    <2> QED
      BY <2>1, <2>3, <2>4 DEF ItemsInv, ItemAgrees, EventHasItem, Owned, Live
  <1>9. ASSUME NEW c \in Callables, PollNothing(c) PROVE ItemsInv'
    <2>1. /\ AfterPoll(c) /\ pc' = pc /\ pc = "dispatch" /\ c \in active
          /\ UNCHANGED <<regs, callback_tasks, current>>
      BY <1>9 DEF PollNothing, elVars
    <2>2. items[c].allocated
      BY <2>1 DEF ItemsInv, EventHasItem
    <2>3. \A d \in Callables : items[d].allocated /\ ~ items[d].removed => OwnedNext(items[d], d)
      BY <2>1 DEF ItemsInv, ItemAgrees, Owned, OwnedNext, Live
    <2>4. \A d \in Callables : ItemAgrees(d)' /\ EventHasItem(d)'
      BY <2>1, <2>2, <2>3, AfterPollAgrees
    <2> QED
      BY <2>1, <2>4 DEF ItemsInv, ExecutingIsCurrent
  <1>10. CASE LeaveCallback
    <2>1. PICK s \in Slots : PollLeave(s)
      BY <1>10 DEF LeaveCallback, Invoking
    <2>2. pc = "callback" /\ AfterPoll(current) /\ pc' = "dispatch" /\ current \in Callables
      BY <1>10 DEF LeaveCallback, LoopInv, SchedTypeOK, DepthMatches
    <2>3. callback_tasks[s].stored = current /\ \A t \in Slots : ~ callback_tasks'[t].invoking
      BY <2>1, LeaveEndsExecution DEF ItemsInv
    <2>4. \A d \in Callables : d # current \/ regs[current].kind # "delay" => regs'[d] = regs[d]
      BY <2>1, <2>3 DEF PollLeave, EndRegistration
    <2>5. items[current].allocated
      BY <2>2 DEF ItemsInv, EventHasItem
    <2>6. \A d \in Callables : items[d].allocated /\ ~ items[d].removed =>
             OwnedNext(items[d], d) \/ (d = current /\ ~ items[d].fd /\ ~ items[d].periodic)
      BY <2>4 DEF ItemsInv, ItemAgrees, Owned, OwnedNext, Live
    <2>7. \A d \in Callables : ItemAgrees(d)' /\ EventHasItem(d)'
      BY <2>2, <2>5, <2>6, AfterPollAgrees
    <2> QED
      BY <2>3, <2>7 DEF ItemsInv, ExecutingIsCurrent
  <1>11. CASE EndIteration
    <2>1. /\ compact_removed_events(items, pending, active, callback_depth)
          /\ pc = "dispatch" /\ pc' = "idle" /\ UNCHANGED <<regs, callback_tasks, current>>
      BY <1>11 DEF EndIteration, elVars
    <2>2. \A d \in Callables : items[d].allocated =>
             IF items[d].removed THEN callback_depth = 0 \/ (pc' = "callback" /\ OverNext(d))
               ELSE OwnedNext(items[d], d)
      BY <2>1 DEF ItemsInv, ItemAgrees, Owned, OwnedNext, Live
    <2>3. \A d \in Callables : pending[d] # NotPending \/ d \in active => items[d].allocated
      BY DEF ItemsInv, EventHasItem
    <2>4. \A d \in Callables : ItemAgrees(d)' /\ EventHasItem(d)'
      BY <1>0, <2>1, <2>2, <2>3, CompactAgrees
    <2> QED
      BY <2>1, <2>4 DEF ItemsInv, ExecutingIsCurrent
  <1>12. CASE request_exit \/ ReadDescriptor \/ DataArrives \/ Tick \/ UNCHANGED vars
    BY <1>6, <1>12 DEF request_exit, ReadDescriptor, DataArrives, Tick, vars, elVars, schedVars
  <1> QED
    BY <1>1, <1>2, <1>3, <1>4, <1>5, <1>7, <1>8, <1>9, <1>10, <1>11, <1>12 DEF Next, Loop

LEMMA ItemSafety == Spec => [](NoDanglingItem /\ ItemsMatchRegistrations)
  <1>1. Spec => []LoopInv
    BY LoopInvInit, LoopInvStep, PTL DEF Spec
  <1>2. Spec => []ELInv
    BY LibeventImplementsFacade, ELInvariant, PTL
  <1>3. ItemsInv /\ LoopInv => NoDanglingItem /\ ItemsMatchRegistrations
    BY NoCallableAssumption
    DEF ItemsInv, LoopInv, SchedTypeOK, DepthMatches, ItemAgrees, EventHasItem, Owned, NoDanglingItem,
        ItemsMatchRegistrations
  <1> QED
    BY <1>1, <1>2, <1>3, ItemsInvInit, ItemsInvStep, PTL DEF Spec

(* No event in libevent outlives its item, in whatever order libevent       *)
(* dispatches, and nothing marked removed is left behind by a callback.     *)
THEOREM LibeventNoDanglingItem == Spec => []NoDanglingItem
  BY ItemSafety, PTL

(* Every live registration has its one item, which is of its slot and kind, *)
(* and no item in use is of a registration that is over.                    *)
THEOREM LibeventItemsMatch == Spec => []ItemsMatchRegistrations
  BY ItemSafety, PTL

-----------------------------------------------------------------------------
(* What compaction does to one item and its event. *)
LEMMA CompactCases ==
    ASSUME NEW its, NEW pend, NEW act, NEW depth, NEW c \in Callables,
           compact_removed_events(its, pend, act, depth)
    PROVE  /\ its[c].allocated /\ its[c].removed /\ depth = 0 => items'[c] = NoItem
           /\ \/ items'[c] = NoItem
              \/ items'[c] = its[c] /\ pending'[c] = pend[c] /\ (c \in active' => c \in act)
           /\ ~ (its[c].allocated /\ its[c].removed /\ depth = 0) => items'[c] = its[c]
  BY DEF compact_removed_events, Doomed

(* An item that compaction leaves alone or frees stays due as it was, while *)
(* its callback does not start and no time passes. *)
LEMMA DueUntouched ==
    ASSUME NEW c \in Callables, DueAgrees(c),
           items'[c] = NoItem \/ (items'[c] = items[c] /\ pending'[c] = pending[c]
                                  /\ (c \in active' => c \in active)),
           promise'[c].from = promise[c].from, c = current' => c = current, clock' = clock
    PROVE  DueAgrees(c)'
  BY DEF DueAgrees, NoItem

(* A new timer's event comes up when its item is due. *)
LEMMA RegisterDue ==
    ASSUME SlowCallbacks = FALSE, ELInv, LoopInv, ItemsInv, DueInv,
           NEW c \in Callables, NEW k, NEW item \in Item, NEW ok \in BOOLEAN,
           NEW delay \in Nat \cup {NotPending}, NEW from \in Nat,
           item.fd \/ (item.next_due_us = clock + delay /\ delay # NotPending /\ from = item.next_due_us),
           RegisterItem(c, k, item, ok, delay, from)
    PROVE  DueInv'
  <1>1. UNCHANGED <<pc, current, clock, cached>> /\ regs[c].phase = "new"
    BY DEF RegisterItem, RejectTableFull, RejectBusySlot, RejectUnscheduled, Accept
  <1>2. Base = clock
    BY DEF Base, DueInv
  <1>3. \A d \in Callables : DueAgrees(d)
    BY DEF DueInv
  <1>4. CASE UNCHANGED <<items, pending, active, promise>>
    BY <1>1, <1>4 DEF DueInv, DueAgrees
  <1>5. CASE compact_removed_events(items, pending, active, callback_depth) /\ UNCHANGED promise
    <2>1. ASSUME NEW d \in Callables PROVE DueAgrees(d)'
      <3>1. items'[d] = NoItem \/ (items'[d] = items[d] /\ pending'[d] = pending[d]
                                    /\ (d \in active' => d \in active))
        BY <1>5, CompactCases
      <3> QED
        BY <1>1, <1>3, <1>5, <3>1, DueUntouched
    <2> QED
      BY <1>1, <2>1 DEF DueInv
  <1>6. ASSUME NEW s \in Slots,
               compact_removed_events(
                 [items EXCEPT ![c] = [item EXCEPT !.task = s]],
                 [pending EXCEPT ![c] = IF delay = NotPending THEN NotPending ELSE Base + delay],
                 active, callback_depth),
               promise' = [promise EXCEPT ![c] =
                             [since |-> clock, from |-> from, period |-> item.period_us, runs |-> 0]]
        PROVE  DueInv'
    <2> DEFINE its == [items EXCEPT ![c] = [item EXCEPT !.task = s]]
               pend == [pending EXCEPT ![c] = IF delay = NotPending THEN NotPending ELSE Base + delay]
    <2>1. /\ its[c].fd = item.fd /\ its[c].next_due_us = item.next_due_us
          /\ pend[c] = IF delay = NotPending THEN NotPending ELSE clock + delay
          /\ promise'[c].from = from
          /\ \A d \in Callables : d # c => /\ its[d] = items[d] /\ pend[d] = pending[d]
                                           /\ promise'[d] = promise[d]
      BY <1>2, <1>6 DEF LoopInv, SchedTypeOK, Item
    <2>2. compact_removed_events(its, pend, active, callback_depth)
      BY <1>6
    <2>3. c \notin active /\ c # current
      <3>1. ~ items[c].allocated
        BY <1>1 DEF ItemsInv, ItemAgrees, Owned, Live, Over
      <3> QED
        BY <3>1, NoCallableAssumption DEF ItemsInv, EventHasItem, LoopInv, DepthMatches
    <2> HIDE DEF its, pend
    <2>4. ASSUME NEW d \in Callables PROVE DueAgrees(d)'
      <3>0. items'[d] = NoItem \/ (items'[d] = its[d] /\ pending'[d] = pend[d]
                                    /\ (d \in active' => d \in active))
        BY <2>2, CompactCases
      <3>1. CASE d = c
        BY <1>1, <2>1, <2>3, <3>0, <3>1 DEF DueAgrees, NoItem, Item
      <3>2. CASE d # c
        BY <1>1, <1>3, <2>1, <3>0, <3>2, DueUntouched
      <3> QED
        BY <3>1, <3>2
    <2> QED
      BY <1>1, <2>4 DEF DueInv
  <1> QED
    BY <1>4, <1>5, <1>6 DEF RegisterItem

(* The grid arithmetic of timer_callback(): a timer that ran no earlier     *)
(* than it was due comes up again when its next period is over.             *)
LEMMA NextDelay ==
    ASSUME NEW due \in Nat, NEW period \in Nat, NEW now \in Nat, due <= now
    PROVE  /\ periodic_timer_next_delay_us(due, period, now) \in Nat
           /\ now + periodic_timer_next_delay_us(due, period, now) >= due + period
  BY DEF periodic_timer_next_delay_us

(* After poll() an item is armed for its next due time. *)
LEMMA AfterPollDue ==
    ASSUME LoopInv, DueInv, NEW c \in Callables, AfterPoll(c), items[c].allocated,
           pc # "idle", c \in active \/ c = current,
           UNCHANGED <<clock, promise>>, current' = NoCallable
    PROVE  \A d \in Callables : DueAgrees(d)'
  <1> DEFINE item == items[c]
             rearm == ~ item.fd /\ ~ item.removed /\ item.periodic
             delay == periodic_timer_next_delay_us(item.next_due_us, item.period_us, clock)
             after == IF rearm THEN [item EXCEPT !.next_due_us = @ + item.period_us]
                      ELSE IF item.fd \/ item.periodic THEN item
                      ELSE [item EXCEPT !.removed = TRUE, !.task = NoTask]
             its == [items EXCEPT ![c] = after]
             pend == [pending EXCEPT ![c] = IF rearm THEN cached + delay ELSE @]
  <1>1. item \in Item /\ clock \in Nat /\ cached = clock /\ pending[c] \in Nat \cup {NotPending}
        /\ promise[c].from \in Nat
    BY LibeventClockAssumption DEF LoopInv, SchedTypeOK, DueInv
  <1>2. its[c] = after /\ pend[c] = (IF rearm THEN cached + delay ELSE pending[c])
        /\ \A d \in Callables : d # c => its[d] = items[d] /\ pend[d] = pending[d]
    BY DEF LoopInv, SchedTypeOK
  <1>3. compact_removed_events(its, pend, active \ {c}, 0)
    BY DEF AfterPoll
  <1>4. after.allocated /\ (after.removed \/ after.fd \/ rearm)
    BY <1>1 DEF Item
  <1> HIDE DEF its, pend
  <1>5. ASSUME NEW d \in Callables
        PROVE  /\ its[d].allocated /\ its[d].removed => items'[d] = NoItem
               /\ \/ items'[d] = NoItem
                  \/ items'[d] = its[d] /\ pending'[d] = pend[d] /\ (d \in active' => d \in active \ {c})
    BY <1>3, CompactCases
  <1>6. ASSUME NEW d \in Callables, d # c PROVE DueAgrees(d)'
    <2>1. DueAgrees(d) /\ (d = current' => d = current)
      BY NoCallableAssumption DEF DueInv
    <2>2. items'[d] = NoItem \/ (items'[d] = items[d] /\ pending'[d] = pending[d]
                                  /\ (d \in active' => d \in active))
      BY <1>2, <1>5, <1>6
    <2> QED
      BY <2>1, <2>2, DueUntouched
  <1>7. CASE rearm
    <2>1. DueAgrees(c) /\ item.next_due_us <= clock /\ item.next_due_us >= promise[c].from
      BY <1>7 DEF DueInv, DueAgrees
    <2>2. delay \in Nat /\ clock + delay >= item.next_due_us + item.period_us
      BY <1>1, <2>1, NextDelay DEF Item
    <2>3. after.next_due_us = item.next_due_us + item.period_us
      BY <1>1, <1>7 DEF Item
    <2>4. item.next_due_us + item.period_us >= promise[c].from
      BY <1>1, <2>1 DEF Item
    <2> HIDE DEF delay, after
    <2>5. /\ items'[c] = NoItem \/ (items'[c] = after /\ pending'[c] = clock + delay)
          /\ c \notin active' \/ items'[c] = NoItem
          /\ c # current'
      BY <1>1, <1>2, <1>5, <1>7, NoCallableAssumption
    <2>6. promise'[c].from = promise[c].from
      OBVIOUS
    <2> HIDE DEF item, rearm
    <2>7. DueAgrees(c)'
      BY <2>2, <2>3, <2>4, <2>5, <2>6 DEF DueAgrees, NoItem
    <2> QED
      BY <1>6, <2>7
  <1>8. CASE ~ rearm
    <2> HIDE DEF after, rearm
    <2>1. DueAgrees(c)'
      BY <1>2, <1>4, <1>5, <1>8 DEF DueAgrees, NoItem
    <2> QED
      BY <1>6, <2>1
  <1> QED
    BY <1>7, <1>8

(* Nothing is due at the start ... *)
LEMMA DueInvInit == Init => DueInv
  BY DEF Init, DueInv, DueAgrees, NoItem

(* ... and while callbacks take no time, every step keeps due times, events *)
(* and the clock in agreement.                                              *)
LEMMA DueInvStep ==
    SlowCallbacks = FALSE /\ ELInv /\ LoopInv /\ ItemsInv /\ DueInv /\ [Next]_vars => DueInv'
  <1> SUFFICES ASSUME SlowCallbacks = FALSE, ELInv, LoopInv, ItemsInv, DueInv, [Next]_vars
               PROVE  DueInv'
    OBVIOUS
  <1> USE NoCallableAssumption
  <1>0. /\ clock \in Nat /\ clock <= MaxTime /\ cached \in Nat
        /\ pending \in [Callables -> Nat \cup {NotPending}]
        /\ active \in SUBSET Callables
        /\ \A c \in Callables : DueAgrees(c)
    BY LibeventClockAssumption DEF LoopInv, SchedTypeOK, DueInv
  <1>1. ASSUME NEW c \in Callables, NEW p \in Periods, on_repeat_us(c, p) PROVE DueInv'
    <2>1. p \in Nat /\ clock + p \in Nat /\ p # NotPending
      BY <1>0, LibeventRequestsAssumption, LibeventClockAssumption, LibeventNamesAssumption
    <2>2. TimerItem(TRUE, p, clock + p) \in Item /\ TimerItem(TRUE, p, clock + p).next_due_us = clock + p
      BY <2>1 DEF TimerItem, Item
    <2>3. RegisterItem(c, "repeat", TimerItem(TRUE, p, clock + p), p # 0, p, clock + p)
      BY <1>1 DEF on_repeat_us
    <2> QED
      BY <2>1, <2>2, <2>3, RegisterDue
  <1>2. ASSUME NEW c \in Callables, NEW d \in Delays, on_delay_us(c, d) PROVE DueInv'
    <2> DEFINE item == TimerItem(FALSE, 0, DelayDue(d))
    <2>1. /\ DelayDue(d) \in Nat /\ DelayDue(d) - clock \in Nat
          /\ DelayDue(d) = clock + (DelayDue(d) - clock)
      BY <1>0, LibeventRequestsAssumption, LibeventClockAssumption DEF DelayDue
    <2>2. item \in Item /\ item.next_due_us = DelayDue(d)
      BY <2>1 DEF TimerItem, Item
    <2>3. RegisterItem(c, "delay", item, TRUE, DelayDue(d) - clock, DelayDue(d))
      BY <1>2 DEF on_delay_us
    <2>4. DelayDue(d) - clock # NotPending
      BY <2>1, LibeventNamesAssumption
    <2> HIDE DEF item
    <2> QED
      BY <2>1, <2>2, <2>3, <2>4, RegisterDue
  <1>3. ASSUME NEW c \in Callables, on_readable(c) PROVE DueInv'
    <2>1. FdItem \in Item /\ FdItem.fd
      BY DEF FdItem, Item
    <2>2. RegisterItem(c, "repeat", FdItem, TRUE, NotPending, clock)
      BY <1>3 DEF on_readable
    <2> QED
      BY <1>0, <2>1, <2>2, RegisterDue
  <1>4. ASSUME NEW c \in Callables, remove(c) PROVE DueInv'
    <2> DEFINE its == MarkRemoved(items, regs[c].handle.slot)
    <2>1. compact_removed_events(its, pending, active, callback_depth)
          /\ UNCHANGED <<pc, current, clock, cached, promise>>
      BY <1>4 DEF remove
    <2>2. \A d \in Callables : its[d].removed \/ its[d] = items[d]
      BY DEF MarkRemoved, LoopInv, SchedTypeOK, Item
    <2> HIDE DEF its
    <2>3. ASSUME NEW d \in Callables PROVE DueAgrees(d)'
      <3>0. items'[d] = NoItem \/ (items'[d] = its[d] /\ pending'[d] = pending[d]
                                    /\ (d \in active' => d \in active))
        BY <2>1, CompactCases
      <3>1. CASE its[d].removed
        BY <3>0, <3>1 DEF DueAgrees, NoItem
      <3>2. CASE its[d] = items[d]
        BY <1>0, <2>1, <3>0, <3>2, DueUntouched
      <3> QED
        BY <2>2, <3>1, <3>2
    <2> QED
      BY <2>1, <2>3 DEF DueInv
  <1>5. ASSUME UNCHANGED <<items, pending, active, promise, pc, current, cached, clock>> PROVE DueInv'
    BY <1>5 DEF DueInv, DueAgrees
  <1>6. CASE BeginIteration
    <2>1. /\ pc = "idle" /\ UNCHANGED <<items, promise, current, clock>> /\ cached' = clock
          /\ \A c \in Callables : pending'[c] # NotPending => pending'[c] = pending[c]
          /\ \A c \in active' : \/ c \in active \/ items[c].fd
                                \/ pending[c] # NotPending /\ pending[c] <= clock
      BY <1>0, <1>6 DEF BeginIteration, IterationWith
    <2>2. current = NoCallable
      BY <2>1 DEF LoopInv, DepthMatches
    <2>3. ASSUME NEW c \in Callables PROVE DueAgrees(c)'
      <3>1. items[c].next_due_us \in Nat /\ (pending[c] # NotPending => pending[c] \in Nat)
        BY DEF LoopInv, SchedTypeOK, Item
      <3> QED
        BY <1>0, <2>1, <2>2, <3>1 DEF DueAgrees
    <2> QED
      BY <2>1, <2>3 DEF DueInv
  <1>7. ASSUME NEW c \in Callables, EnterCallback(c) PROVE DueInv'
    <2>1. /\ pc = "dispatch" /\ c \in active /\ active' \subseteq active /\ current' = c
          /\ UNCHANGED <<items, pending, cached, clock>>
          /\ \A d \in Callables : promise'[d].from = promise[d].from
      BY <1>7 DEF EnterCallback, LoopInv, SchedTypeOK
    <2>2. \A d \in Callables : DueAgrees(d)'
      BY <1>0, <2>1 DEF DueAgrees
    <2> QED
      BY <2>1, <2>2 DEF DueInv
  <1>8. ASSUME NEW c \in Callables, PollNothing(c) PROVE DueInv'
    <2>1. /\ AfterPoll(c) /\ pc = "dispatch" /\ c \in active /\ current = NoCallable
          /\ UNCHANGED <<pc, current, clock, promise, cached>>
      BY <1>8 DEF PollNothing, LoopInv, DepthMatches
    <2>2. items[c].allocated
      BY <2>1 DEF ItemsInv, EventHasItem
    <2>3. \A d \in Callables : DueAgrees(d)'
      BY <2>1, <2>2, AfterPollDue
    <2> QED
      BY <2>1, <2>3 DEF DueInv
  <1>9. CASE LeaveCallback
    <2>1. /\ AfterPoll(current) /\ pc = "callback" /\ current \in Callables /\ current' = NoCallable
          /\ UNCHANGED <<clock, promise, cached>>
      BY <1>9 DEF LeaveCallback, LoopInv, DepthMatches, SchedTypeOK
    <2>2. items[current].allocated
      BY <2>1 DEF ItemsInv, EventHasItem
    <2>3. \A d \in Callables : DueAgrees(d)'
      BY <2>1, <2>2, AfterPollDue
    <2> QED
      BY <2>1, <2>3 DEF DueInv
  <1>10. CASE EndIteration
    <2>1. compact_removed_events(items, pending, active, callback_depth) /\ pc' = "idle"
          /\ UNCHANGED <<promise, current, clock>>
      BY <1>10 DEF EndIteration
    <2>2. ASSUME NEW d \in Callables PROVE DueAgrees(d)'
      <3>1. items'[d] = NoItem \/ (items'[d] = items[d] /\ pending'[d] = pending[d]
                                    /\ (d \in active' => d \in active))
        BY <2>1, CompactCases
      <3> QED
        BY <1>0, <2>1, <3>1, DueUntouched
    <2> QED
      BY <2>1, <2>2 DEF DueInv
  <1>11. CASE Tick
    <2>1. pc = "idle" /\ clock' = clock + 1
          /\ UNCHANGED <<items, pending, active, promise, pc, current, cached>>
      BY <1>11 DEF Tick
    <2>2. ASSUME NEW c \in Callables PROVE DueAgrees(c)'
      <3>1. items[c].next_due_us \in Nat
        BY DEF LoopInv, SchedTypeOK, Item
      <3> QED
        BY <1>0, <2>1, <3>1 DEF DueAgrees
    <2> QED
      BY <2>1, <2>2 DEF DueInv
  <1>12. CASE request_exit \/ ReadDescriptor \/ DataArrives \/ UNCHANGED vars
    BY <1>5, <1>12 DEF request_exit, ReadDescriptor, DataArrives, vars, schedVars
  <1>13. ASSUME NEW c \in Callables, NEW e \in BOOLEAN, set_callback_enabled(c, e) PROVE DueInv'
    BY <1>5, <1>13 DEF set_callback_enabled, schedVars
  <1> QED
    BY <1>1, <1>2, <1>3, <1>4, <1>6, <1>7, <1>8, <1>9, <1>10, <1>11, <1>12, <1>13 DEF Next, Loop

(* While callbacks take no time, no timer callback starts before the time   *)
(* its registration asked for: through slot reuse, missed periods, removals *)
(* inside callbacks and any order of dispatch.                              *)
THEOREM LibeventNeverEarly == SlowCallbacks = FALSE /\ Spec => NeverEarly
  <1> SUFFICES ASSUME SlowCallbacks = FALSE PROVE Spec => NeverEarly
    OBVIOUS
  <1>1. Spec => [](ELInv /\ LoopInv)
    BY LibeventImplementsFacade, ELInvariant, LoopInvInit, LoopInvStep, PTL DEF Spec
  <1>2. ELInv /\ LoopInv /\ ItemsInv /\ DueInv /\ [Next]_vars => DueInv'
    BY DueInvStep
  <1>3. ASSUME ELInv, LoopInv, ItemsInv, DueInv, [Next]_vars
        PROVE  [\A c \in Callables : promise'[c].runs > promise[c].runs => clock >= promise[c].from]_vars
    <2> SUFFICES ASSUME NEW c \in Callables, promise'[c].runs > promise[c].runs
                 PROVE  clock >= promise[c].from
      OBVIOUS
    <2>0. /\ promise \in [Callables -> [since : Nat, from : Nat, period : Nat, runs : Nat]]
          /\ clock \in Nat
      BY <1>3, LibeventClockAssumption DEF LoopInv, SchedTypeOK
    <2>1. ASSUME UNCHANGED promise PROVE FALSE
      BY <2>0, <2>1
    <2>2. ASSUME NEW d \in Callables, NEW k, NEW item, NEW ok, NEW delay, NEW from,
                 RegisterItem(d, k, item, ok, delay, from)
          PROVE  FALSE
      <3>1. promise' = promise \/ promise' = [promise EXCEPT ![d] =
              [since |-> clock, from |-> from, period |-> item.period_us, runs |-> 0]]
        BY <2>2 DEF RegisterItem
      <3> QED
        BY <2>0, <2>1, <3>1
    <2>3. PICK d \in Callables : EnterCallback(d)
      <3>1. ASSUME NEW d \in Callables, remove(d) \/ PollNothing(d) PROVE FALSE
        BY <2>1, <3>1 DEF remove, PollNothing
      <3>2. ASSUME NEW d \in Callables, NEW e \in BOOLEAN, set_callback_enabled(d, e) PROVE FALSE
        BY <2>1, <3>2 DEF set_callback_enabled
      <3>3. CASE request_exit \/ ReadDescriptor \/ BeginIteration \/ LeaveCallback \/ EndIteration
                 \/ DataArrives \/ Tick \/ UNCHANGED vars
        BY <2>1, <3>3 DEF request_exit, ReadDescriptor, BeginIteration, IterationWith, LeaveCallback,
                          EndIteration, DataArrives, Tick, vars
      <3> QED
        BY <1>3, <2>2, <3>1, <3>2, <3>3 DEF Next, Loop, on_repeat_us, on_delay_us, on_readable
    <2>4. d = c /\ ~ items[c].fd /\ c \in active /\ ~ items[c].removed
      BY <2>0, <2>3 DEF EnterCallback
    <2>5. items[c].allocated /\ DueAgrees(c)
      BY <1>3, <2>4 DEF ItemsInv, EventHasItem, DueInv
    <2>6. items[c].next_due_us \in Nat /\ promise[c].from \in Nat
      BY <1>3, <2>0 DEF LoopInv, SchedTypeOK, Item
    <2> QED
      BY <2>0, <2>4, <2>5, <2>6 DEF DueAgrees
  <1> QED
    BY <1>1, <1>3, <1>2, ItemsInvInit, ItemsInvStep, DueInvInit, PTL DEF Spec, NeverEarly

-----------------------------------------------------------------------------
(* What the timer service sees of a callable, after the step, and that it   *)
(* sees no change. *)
Shown(c, st, o, p, d) ==
    /\ StatusOf(c)' = st /\ OnOf(c)' = o /\ PeriodOf(c)' = p /\ DueOf(c)' = d

Same(c) == Shown(c, StatusOf(c), OnOf(c), PeriodOf(c), DueOf(c))

OthersSame(c) == \A d \in Callables : d # c => Same(d)

(* The steps of the timer service, callable by callable. *)
LEMMA ServiceStutters ==
    ASSUME \A d \in Callables : Same(d), UNCHANGED <<clock, cached, RunningTimer>>
    PROVE  UNCHANGED Service!vars
  BY DEF Same, Shown, Service!vars

LEMMA ServiceStarts ==
    ASSUME NEW c \in Callables, NEW p \in Periods \cup {0}, NEW d \in 0 .. ClockMax + MaxTime,
           StatusOf(c) = "new", d >= clock, Shown(c, "live", TRUE, p, d), OthersSame(c),
           UNCHANGED <<clock, cached, RunningTimer>>
    PROVE  Service!Next
  <1>1. Service!Start(c, p, d)
    BY DEF Same, Shown, OthersSame, Service!Start
  <1> QED
    BY <1>1 DEF Service!Next

LEMMA ServiceRefuses ==
    ASSUME NEW c \in Callables, StatusOf(c) = "new", OthersSame(c),
           Shown(c, "over", OnOf(c), PeriodOf(c), DueOf(c)), UNCHANGED <<clock, cached, RunningTimer>>
    PROVE  Service!Next
  <1>1. Service!Refuse(c)
    BY DEF Same, Shown, OthersSame, Service!Refuse
  <1> QED
    BY <1>1 DEF Service!Next

LEMMA ServiceCancels ==
    ASSUME NEW c \in Callables, StatusOf(c) = "live", OthersSame(c),
           Shown(c, "over", FALSE, 0, 0), UNCHANGED <<clock, cached, RunningTimer>>
    PROVE  Service!Next
  <1>1. Service!Cancel(c)
    BY DEF Same, Shown, OthersSame, Service!Cancel, Service!End
  <1> QED
    BY <1>1 DEF Service!Next

LEMMA ServiceSwitches ==
    ASSUME NEW c \in Callables, NEW e \in BOOLEAN, StatusOf(c) = "live", OthersSame(c),
           Shown(c, StatusOf(c), e, PeriodOf(c), DueOf(c)), UNCHANGED <<clock, cached, RunningTimer>>
    PROVE  Service!Next
  <1>1. Service!Switch(c, e)
    BY DEF Same, Shown, OthersSame, Service!Switch
  <1> QED
    BY <1>1 DEF Service!Next

LEMMA ServiceFires ==
    ASSUME NEW c \in Callables, StatusOf(c) = "live", OnOf(c), cached >= DueOf(c),
           \A d \in Callables : Same(d), RunningTimer = NoCallable, RunningTimer' = c,
           UNCHANGED <<clock, cached>>
    PROVE  Service!Next
  <1>1. Service!Fire(c)
    BY DEF Same, Shown, Service!Fire
  <1> QED
    BY <1>1 DEF Service!Next

LEMMA ServiceMovesOn ==
    ASSUME NEW c \in Callables, OthersSame(c),
           Shown(c, StatusOf(c), OnOf(c), PeriodOf(c), DueOf(c) + PeriodOf(c))
    PROVE  Service!MoveOn(c)
  <1> DEFINE due == [d \in Callables |-> DueOf(d)]
             period == [d \in Callables |-> PeriodOf(d)]
  <1>1. due' = [due EXCEPT ![c] = due[c] + period[c]]
    BY DEF Same, Shown, OthersSame
  <1>2. /\ [d \in Callables |-> StatusOf(d)]' = [d \in Callables |-> StatusOf(d)]
        /\ [d \in Callables |-> OnOf(d)]' = [d \in Callables |-> OnOf(d)]
        /\ period' = period
    BY DEF Same, Shown, OthersSame
  <1> QED
    BY <1>1, <1>2 DEF Service!MoveOn

LEMMA ServicePasses ==
    ASSUME NEW c \in Callables, StatusOf(c) = "live", ~ OnOf(c), PeriodOf(c) # 0, cached >= DueOf(c),
           Shown(c, StatusOf(c), OnOf(c), PeriodOf(c), DueOf(c) + PeriodOf(c)), OthersSame(c),
           UNCHANGED <<clock, cached, RunningTimer>>
    PROVE  Service!Next
  <1>1. Service!Pass(c)
    BY ServiceMovesOn DEF Service!Pass
  <1> QED
    BY <1>1 DEF Service!Next

LEMMA ServiceReturns ==
    ASSUME NEW c \in Callables, RunningTimer = c, RunningTimer' = NoCallable,
           UNCHANGED <<clock, cached>>, OthersSame(c),
           \/ StatusOf(c) = "live" /\ PeriodOf(c) = 0 /\ Shown(c, "over", FALSE, 0, 0)
           \/ /\ StatusOf(c) = "live" /\ PeriodOf(c) # 0
              /\ Shown(c, StatusOf(c), OnOf(c), PeriodOf(c), DueOf(c) + PeriodOf(c))
           \/ StatusOf(c) # "live" /\ Same(c)
    PROVE  Service!Next
  <1>1. c # NoCallable
    BY NoCallableAssumption
  <1>2. CASE StatusOf(c) = "live" /\ PeriodOf(c) = 0 /\ Shown(c, "over", FALSE, 0, 0)
    BY <1>1, <1>2 DEF Same, Shown, OthersSame, Service!Return, Service!End, Service!Next
  <1>3. CASE /\ StatusOf(c) = "live" /\ PeriodOf(c) # 0
             /\ Shown(c, StatusOf(c), OnOf(c), PeriodOf(c), DueOf(c) + PeriodOf(c))
    BY <1>1, <1>3, ServiceMovesOn DEF Service!Return, Service!Next
  <1>4. CASE StatusOf(c) # "live" /\ Same(c)
    <2>1. \A d \in Callables : Same(d)
      BY <1>4 DEF OthersSame
    <2> QED
      BY <1>1, <1>4, <2>1 DEF Same, Shown, Service!Return, Service!Next
  <1> QED
    BY <1>2, <1>3, <1>4

LEMMA ServiceLooks ==
    ASSUME \A d \in Callables : Same(d), RunningTimer = NoCallable, cached' = clock,
           UNCHANGED <<clock, RunningTimer>>
    PROVE  Service!Next
  BY DEF Same, Shown, Service!Look, Service!Next

LEMMA ServiceAdvances ==
    ASSUME \A d \in Callables : Same(d), UNCHANGED <<cached, RunningTimer>>, clock' = clock + 1
    PROVE  Service!Next
  BY DEF Same, Shown, Service!Advance, Service!Next

-----------------------------------------------------------------------------
(* The step leaves c and its item alone, unless the registration is over:   *)
(* then its item may be marked again or freed. *)
Untouched(c) ==
    /\ regs'[c] = regs[c] /\ promise'[c].period = promise[c].period
    /\ items'[c] = items[c] \/ (Over(c) /\ (items'[c].allocated \/ items'[c] = NoItem))
    /\ Live(c) => callback_tasks'[regs[c].handle.slot].enabled = callback_tasks[regs[c].handle.slot].enabled

LEMMA UntouchedIsSame ==
    ASSUME NEW c \in Callables, TimerAgrees(c), Untouched(c)
    PROVE  TimerAgrees(c)' /\ Same(c)
  <1>1. CASE items'[c] = items[c]
    <2>1. Live(c)' = Live(c) /\ Timed(c)' = Timed(c)
      BY <1>1 DEF Untouched, Timed, Live
    <2>2. TimerAgrees(c)'
      BY <1>1 DEF TimerAgrees, Untouched, Live
    <2>3. StatusOf(c)' = StatusOf(c)
      BY <1>1 DEF Untouched, StatusOf
    <2>4. OnOf(c)' = OnOf(c)
      BY <2>1 DEF Untouched, OnOf, Timed
    <2>5. PeriodOf(c)' = PeriodOf(c) /\ DueOf(c)' = DueOf(c)
      BY <1>1, <2>1 DEF Untouched, PeriodOf, DueOf
    <2> QED
      BY <2>2, <2>3, <2>4, <2>5 DEF Same, Shown
  <1>2. CASE Over(c) /\ (items'[c].allocated \/ items'[c] = NoItem)
    <2>1. ~ Live(c) /\ ~ Live(c)' /\ ~ Timed(c) /\ ~ Timed(c)'
      BY <1>2 DEF Untouched, Timed, Live, Over
    <2>2. TimerAgrees(c)'
      BY <1>2, <2>1 DEF TimerAgrees, NoItem
    <2>3. StatusOf(c)' = "over" /\ StatusOf(c) = "over"
      BY <1>2 DEF Untouched, StatusOf, Over, NoItem
    <2> QED
      BY <2>1, <2>2, <2>3 DEF Same, Shown, OnOf, PeriodOf, DueOf
  <1> QED
    BY <1>1, <1>2 DEF Untouched

(* The timer that is running is the same when its item still is one. *)
LEMMA RunningKept ==
    ASSUME current' = current, current # NoCallable => items'[current].fd = items[current].fd
    PROVE  UNCHANGED RunningTimer
  BY DEF RunningTimer

(* A callable without a registration has no item and is new to the service. *)
LEMMA NewCallable ==
    ASSUME ItemsInv, TimersInv, NEW c \in Callables, regs[c].phase = "new"
    PROVE  /\ items[c] = NoItem
           /\ StatusOf(c) = "new" /\ OnOf(c) = FALSE /\ PeriodOf(c) = 0 /\ DueOf(c) = 0
  <1>1. items[c] = NoItem
    BY DEF ItemsInv, ItemAgrees, Owned, Live, Over, TimersInv, TimerAgrees
  <1> QED
    BY <1>1 DEF NoItem, StatusOf, OnOf, PeriodOf, DueOf, Timed, Live

(* An item that its caller has left alone survives compaction, unless its   *)
(* registration is over and no callback runs. *)
LEMMA CompactKeeps ==
    ASSUME ItemsInv, NEW its, NEW pend, NEW act, NEW depth, NEW c \in Callables,
           compact_removed_events(its, pend, act, depth), its[c] = items[c]
    PROVE  /\ items'[c] = items[c] \/ (items'[c] = NoItem /\ Over(c))
           /\ depth # 0 => items'[c] = items[c]
  <1>1. /\ its[c].allocated /\ its[c].removed /\ depth = 0 => items'[c] = NoItem
        /\ ~ (its[c].allocated /\ its[c].removed /\ depth = 0) => items'[c] = its[c]
    BY CompactCases
  <1> QED
    BY <1>1 DEF ItemsInv, ItemAgrees

(* Registering a timer starts it in the service; a refusal refuses it, and  *)
(* so does a descriptor, which is no timer. *)
LEMMA RegisterMaps ==
    ASSUME ELInv, LoopInv, ItemsInv, TimersInv,
           NEW c \in Callables, NEW k \in Kinds, NEW item \in Item, NEW ok \in BOOLEAN,
           NEW delay \in Nat \cup {NotPending}, NEW from,
           item.allocated, ~ item.removed,
           ok /\ ~ item.fd =>
               /\ item.periodic <=> k = "repeat"
               /\ item.periodic <=> item.period_us # 0
               /\ item.period_us \in Periods \cup {0}
               /\ item.next_due_us \in 0 .. ClockMax + MaxTime /\ item.next_due_us >= clock,
           RegisterItem(c, k, item, ok, delay, from)
    PROVE  TimersInv' /\ Service!Next
  <1>1. UNCHANGED <<pc, current, clock, cached, callback_depth>> /\ regs[c].phase = "new"
    BY DEF RegisterItem, RejectTableFull, RejectBusySlot, RejectUnscheduled, Accept
  <1>2. Register(c, k)
    BY DEF RegisterItem, Register
  <1>3. /\ items[c] = NoItem
        /\ StatusOf(c) = "new" /\ OnOf(c) = FALSE /\ PeriodOf(c) = 0 /\ DueOf(c) = 0
    BY <1>1, NewCallable
  <1>4. ASSUME NEW d \in Callables, d # c,
               items'[d] = items[d] \/ (items'[d] = NoItem /\ Over(d)), promise'[d] = promise[d]
        PROVE  TimerAgrees(d)' /\ Same(d)
    <2>1. Untouched(d)
      BY <1>2, <1>4, RegisterKeepsOthers DEF Untouched
    <2> QED
      BY <2>1, UntouchedIsSame DEF TimersInv
  <1>5. current # NoCallable => /\ callback_depth # 0 /\ current \in Callables
                                /\ items[current].allocated /\ current # c
    BY <1>3 DEF LoopInv, SchedTypeOK, DepthMatches, ItemsInv, EventHasItem, NoItem
  <1>6. ASSUME regs'[c].phase = "rejected", UNCHANGED promise,
               \/ UNCHANGED items
               \/ compact_removed_events(items, pending, active, callback_depth)
        PROVE  TimersInv' /\ Service!Next
    <2>1. ASSUME NEW d \in Callables
          PROVE  /\ items'[d] = items[d] \/ (items'[d] = NoItem /\ Over(d))
                 /\ callback_depth # 0 => items'[d] = items[d]
      BY <1>6, CompactKeeps
    <2>2. \A d \in Callables : d # c => TimerAgrees(d)' /\ Same(d)
      BY <1>4, <1>6, <2>1
    <2>3. items'[c] = NoItem
      BY <1>3, <2>1
    <2>4. UNCHANGED RunningTimer
      <3>1. current # NoCallable => items'[current] = items[current]
        BY <1>5, <2>1
      <3> QED
        BY <1>1, <3>1, RunningKept
    <2>5. TimerAgrees(c)' /\ Shown(c, "over", FALSE, 0, 0)
      BY <1>6, <2>3 DEF TimerAgrees, NoItem, Live, Shown, StatusOf, OnOf, PeriodOf, DueOf, Timed
    <2>6. Service!Next
      BY <1>1, <1>3, <2>2, <2>4, <2>5, ServiceRefuses DEF OthersSame
    <2> QED
      BY <2>2, <2>5, <2>6 DEF TimersInv
  <1>7. ASSUME NEW s \in Slots, Accept(c, k, s), ok,
               compact_removed_events(
                 [items EXCEPT ![c] = [item EXCEPT !.task = s]],
                 [pending EXCEPT ![c] = IF delay = NotPending THEN NotPending ELSE Base + delay],
                 active, callback_depth),
               promise' = [promise EXCEPT ![c] =
                             [since |-> clock, from |-> from, period |-> item.period_us, runs |-> 0]]
        PROVE  TimersInv' /\ Service!Next
    <2> DEFINE its == [items EXCEPT ![c] = [item EXCEPT !.task = s]]
               pend == [pending EXCEPT ![c] = IF delay = NotPending THEN NotPending ELSE Base + delay]
    <2>1. /\ its[c] = [item EXCEPT !.task = s] /\ promise'[c].period = item.period_us
          /\ \A d \in Callables : d # c => its[d] = items[d] /\ promise'[d] = promise[d]
      BY <1>7 DEF LoopInv, SchedTypeOK
    <2>2. compact_removed_events(its, pend, active, callback_depth)
      BY <1>7
    <2> HIDE DEF its, pend
    <2>3. ASSUME NEW d \in Callables, d # c
          PROVE  /\ items'[d] = items[d] \/ (items'[d] = NoItem /\ Over(d))
                 /\ callback_depth # 0 => items'[d] = items[d]
      BY <2>1, <2>2, <2>3, CompactKeeps
    <2>4. \A d \in Callables : d # c => TimerAgrees(d)' /\ Same(d)
      BY <1>4, <2>1, <2>3
    <2>5. /\ items'[c] = its[c] /\ items'[c].allocated /\ ~ items'[c].removed
          /\ items'[c].fd = item.fd /\ items'[c].periodic = item.periodic
          /\ items'[c].period_us = item.period_us /\ items'[c].next_due_us = item.next_due_us
      <3>1. /\ its[c].allocated /\ ~ its[c].removed
            /\ its[c].fd = item.fd /\ its[c].periodic = item.periodic
            /\ its[c].period_us = item.period_us /\ its[c].next_due_us = item.next_due_us
        BY <2>1 DEF Item
      <3> QED
        BY <2>2, <3>1, CompactCases
    <2>6. /\ regs'[c].phase = "live" /\ regs'[c].kind = k
          /\ callback_tasks'[regs'[c].handle.slot].enabled = TRUE
      BY <1>7 DEF Accept, set, clear, destroy_now, ELInv, ELTypeOK, Task
    <2>7. UNCHANGED RunningTimer
      <3>1. current # NoCallable => items'[current] = items[current]
        BY <1>5, <2>3
      <3> QED
        BY <1>1, <3>1, RunningKept
    <2>8. TimerAgrees(c)'
      BY <1>7, <2>1, <2>5, <2>6 DEF TimerAgrees, Live
    <2>9. CASE item.fd
      <3>1. Shown(c, "over", FALSE, 0, 0)
        BY <2>5, <2>9 DEF Shown, StatusOf, OnOf, PeriodOf, DueOf, Timed
      <3>2. Service!Next
        BY <1>1, <1>3, <2>4, <2>7, <3>1, ServiceRefuses DEF OthersSame
      <3> QED
        BY <2>4, <2>8, <3>2 DEF TimersInv
    <2>10. CASE ~ item.fd
      <3>1. Shown(c, "live", TRUE, item.period_us, item.next_due_us)
        BY <2>1, <2>5, <2>6, <2>10 DEF Shown, StatusOf, OnOf, PeriodOf, DueOf, Timed, Live
      <3>2. Service!Next
        BY <1>1, <1>3, <1>7, <2>4, <2>7, <2>10, <3>1, ServiceStarts DEF OthersSame
      <3> QED
        BY <2>4, <2>8, <3>2 DEF TimersInv
    <2> QED
      BY <2>9, <2>10
  <1>8. ASSUME RejectTableFull(c) \/ \E s \in Slots : RejectBusySlot(c, s) \/ RejectUnscheduled(c, s)
        PROVE  regs'[c].phase = "rejected"
    <2>1. Reject(c) /\ regs \in [Callables -> Registration]
      BY <1>8 DEF RejectTableFull, RejectBusySlot, RejectUnscheduled, ELInv, ELTypeOK
    <2> QED
      BY <2>1 DEF Reject, Registration
  <1> QED
    BY <1>6, <1>7, <1>8 DEF RegisterItem

(* A step that changes neither items nor registrations, and of the tasks    *)
(* at most who is executing, stutters or is the service's clock. *)
LEMMA QuietStep ==
    ASSUME TimersInv, UNCHANGED <<items, regs, clock>>,
           \A c \in Callables : promise'[c].period = promise[c].period,
           \A s \in Slots : callback_tasks'[s].enabled = callback_tasks[s].enabled,
           HandleTrace
    PROVE  TimersInv' /\ \A c \in Callables : Same(c)
  <1>1. ASSUME NEW c \in Callables PROVE Untouched(c)
    <2>1. Live(c) => regs[c].handle.slot \in Slots
      BY DEF Live, HandleTrace, TraceOf
    <2> QED
      BY <2>1 DEF Untouched
  <1> QED
    BY <1>1, UntouchedIsSame DEF TimersInv

(* remove() cancels the timer whose callable is in the handle's slot. *)
LEMMA RemoveMaps ==
    ASSUME ELInv, LoopInv, ItemsInv, TimersInv, NEW c \in Callables, remove(c)
    PROVE  TimersInv' /\ [Service!Next]_(Service!vars)
  <1> DEFINE s == regs[c].handle.slot
             its == MarkRemoved(items, s)
  <1>1. s \in Slots /\ callback_tasks[s].active
    <2>1. valid(regs[c].handle)
      BY DEF remove
    <2>2. s < MaxCallbacks /\ callback_tasks[s].active
      BY <2>1 DEF valid
    <2>3. s \in Nat
      BY DEF ELInv, ELTypeOK, Registration, Handle
    <2> QED
      BY <2>2, <2>3, MaxCallbacksAssumption DEF Slots
  <1>2. PICK b \in Callables : b = callback_tasks[s].stored /\ Live(b) /\ regs[b].handle.slot = s
    BY <1>1 DEF ELInv, ELTypeOK, Task, SlotFlags, StoredOwner, Live
  <1>3. /\ UNCHANGED <<pc, current, clock, cached, callback_depth, promise>>
        /\ compact_removed_events(its, pending, active, callback_depth)
        /\ Remove(regs[c].handle)
    BY DEF remove
  <1>4. \A d \in Callables : IF items[d].allocated /\ items[d].task = s
                             THEN its[d] = [items[d] EXCEPT !.removed = TRUE, !.task = NoTask]
                             ELSE its[d] = items[d]
    BY DEF MarkRemoved
  <1>5. /\ items[b].allocated /\ ~ items[b].removed /\ items[b].task = s
        /\ its[b].allocated /\ its[b].removed /\ its[b].fd = items[b].fd
    <2>1. items[b].allocated /\ ~ items[b].removed
      BY <1>2 DEF TimersInv, TimerAgrees
    <2>2. items[b].task = s
      BY <1>2, <2>1 DEF ItemsInv, ItemAgrees, Owned
    <2>3. items[b] \in Item
      BY <1>2 DEF LoopInv, SchedTypeOK
    <2> QED
      BY <1>2, <1>4, <2>1, <2>2, <2>3 DEF Item
  <1>6. ASSUME NEW d \in Callables, d # b, ~ items[d].removed PROVE its[d] = items[d]
    <2>1. items[d].allocated => Live(d) /\ items[d].task = regs[d].handle.slot
      BY <1>6 DEF ItemsInv, ItemAgrees, Owned
    <2>2. Live(d) => regs[d].handle.slot # s
      BY <1>2, <1>6 DEF Live, ELInv, HandleTrace, TraceOf
    <2> QED
      BY <1>4, <2>1, <2>2
  <1>7. \A d \in Callables : d # b => regs'[d] = regs[d]
    BY <1>2, <1>3 DEF Remove, EndRegistration
  <1>8. regs'[b].phase = "removed"
    BY <1>2, <1>3 DEF Remove, EndRegistration, ELInv, ELTypeOK, Registration
  <1>9. \A t \in Slots : t # s => callback_tasks'[t] = callback_tasks[t]
    BY <1>3 DEF Remove, ELInv, ELTypeOK
  <1> HIDE DEF its
  <1>10. ASSUME NEW d \in Callables, d # b PROVE TimerAgrees(d)' /\ Same(d)
    <2>1. Live(d) => regs[d].handle.slot \in Slots \ {s}
      BY <1>2, <1>10 DEF Live, ELInv, HandleTrace, TraceOf
    <2>2. CASE items[d].allocated /\ items[d].removed
      <3>1. Over(d) /\ its[d].allocated
        <4>1. items[d] \in Item
          BY DEF LoopInv, SchedTypeOK
        <4> QED
          BY <1>4, <2>2, <4>1 DEF ItemsInv, ItemAgrees, Item
      <3>2. items'[d] = NoItem \/ items'[d] = its[d]
        BY <1>3, CompactCases
      <3>3. Untouched(d)
        BY <1>3, <1>7, <1>10, <3>1, <3>2 DEF Untouched, Live, Over
      <3> QED
        BY <3>3, UntouchedIsSame DEF TimersInv
    <2>3. CASE ~ (items[d].allocated /\ items[d].removed)
      <3>1. its[d] = items[d]
        BY <1>4, <1>6, <1>10, <2>3
      <3>2. items'[d] = its[d]
        BY <1>3, <2>3, <3>1, CompactCases
      <3>3. Untouched(d)
        BY <1>3, <1>7, <1>9, <1>10, <2>1, <3>1, <3>2 DEF Untouched
      <3> QED
        BY <3>3, UntouchedIsSame DEF TimersInv
    <2> QED
      BY <2>2, <2>3
  <1>11. items'[b] = NoItem \/ items'[b] = its[b]
    BY <1>2, <1>3, CompactCases
  <1>12. TimerAgrees(b)' /\ Shown(b, "over", FALSE, 0, 0)
    <2>1. ~ Live(b)' /\ ~ Timed(b)'
      BY <1>8 DEF Live, Timed
    <2>2. TimerAgrees(b)'
      BY <1>5, <1>11, <2>1 DEF TimerAgrees, NoItem
    <2>3. StatusOf(b)' = "over"
      BY <1>8 DEF StatusOf
    <2> QED
      BY <2>1, <2>2, <2>3 DEF Shown, OnOf, PeriodOf, DueOf
  <1>13. UNCHANGED RunningTimer
    <2>1. ASSUME current # NoCallable PROVE items'[current].fd = items[current].fd
      <3>1. callback_depth # 0 /\ current \in Callables
        BY <2>1 DEF LoopInv, DepthMatches, SchedTypeOK
      <3>2. ASSUME NEW d \in Callables PROVE items'[d].fd = items[d].fd
        <4>1. items[d] \in Item
          BY DEF LoopInv, SchedTypeOK
        <4>2. its[d].fd = items[d].fd
          BY <1>4, <4>1 DEF Item
        <4>3. ~ (its[d].allocated /\ its[d].removed /\ callback_depth = 0) => items'[d] = its[d]
          BY <1>3, CompactCases
        <4> QED
          BY <3>1, <4>2, <4>3
      <3> QED
        BY <3>1, <3>2
    <2> QED
      BY <1>3, <2>1, RunningKept
  <1>14. TimersInv'
    BY <1>10, <1>12 DEF TimersInv
  <1>15. CASE Timed(b)
    <2>1. StatusOf(b) = "live"
      BY <1>2, <1>15 DEF StatusOf, Timed, Live
    <2> QED
      BY <1>2, <1>3, <1>10, <1>12, <1>13, <1>14, <2>1, ServiceCancels DEF OthersSame
  <1>16. CASE ~ Timed(b)
    <2>1. StatusOf(b) = "over" /\ OnOf(b) = FALSE /\ PeriodOf(b) = 0 /\ DueOf(b) = 0
      BY <1>2, <1>16 DEF StatusOf, OnOf, PeriodOf, DueOf, Timed
    <2>2. Same(b)
      BY <1>12, <2>1 DEF Same
    <2>3. \A d \in Callables : Same(d)
      BY <1>10, <2>2
    <2> QED
      BY <1>3, <1>13, <1>14, <2>3, ServiceStutters
  <1> QED
    BY <1>15, <1>16

(* enable() and disable() switch the timer in the handle's slot. *)
LEMMA SwitchMaps ==
    ASSUME DisableDelays = FALSE, ELInv, LoopInv, ItemsInv, TimersInv,
           NEW c \in Callables, NEW e \in BOOLEAN, set_callback_enabled(c, e)
    PROVE  TimersInv' /\ [Service!Next]_(Service!vars)
  <1> DEFINE s == regs[c].handle.slot
  <1>1. s \in Slots /\ callback_tasks[s].active
    <2>1. valid(regs[c].handle)
      BY DEF set_callback_enabled, SetEnabled
    <2>2. s < MaxCallbacks /\ callback_tasks[s].active
      BY <2>1 DEF valid
    <2>3. s \in Nat
      BY DEF ELInv, ELTypeOK, Registration, Handle
    <2> QED
      BY <2>2, <2>3, MaxCallbacksAssumption DEF Slots
  <1>2. PICK b \in Callables : b = callback_tasks[s].stored /\ Live(b) /\ regs[b].handle.slot = s
    BY <1>1 DEF ELInv, ELTypeOK, Task, SlotFlags, StoredOwner, Live
  <1>3. /\ UNCHANGED <<regs, items, promise, current, clock, cached>>
        /\ \A t \in Slots : t # s => callback_tasks'[t] = callback_tasks[t]
        /\ callback_tasks'[s].enabled = e
    BY <1>1 DEF set_callback_enabled, SetEnabled, set_enabled, schedVars, ELInv, ELTypeOK, Task
  <1>4. e \/ (Live(c) /\ regs[c].kind = "repeat")
    BY DEF set_callback_enabled
  <1>5. ASSUME NEW d \in Callables, d # b PROVE TimerAgrees(d)' /\ Same(d)
    <2>1. Live(d) => regs[d].handle.slot \in Slots \ {s}
      BY <1>2, <1>5 DEF Live, ELInv, HandleTrace, TraceOf
    <2>2. Untouched(d)
      BY <1>3, <2>1 DEF Untouched
    <2> QED
      BY <2>2, UntouchedIsSame DEF TimersInv
  <1>6. TimerAgrees(b)'
    <2>1. ~ e => b = c
      BY <1>2, <1>4 DEF Live, ELInv, HandleTrace, TraceOf
    <2>2. TimerAgrees(b)
      BY <1>2 DEF TimersInv
    <2> QED
      BY <1>2, <1>3, <1>4, <2>1, <2>2 DEF TimerAgrees, Live, Over
  <1>7. UNCHANGED RunningTimer
    BY <1>3, RunningKept
  <1>8. TimersInv'
    BY <1>5, <1>6 DEF TimersInv
  <1>9. CASE Timed(b)
    <2>1. StatusOf(b) = "live"
      BY <1>2, <1>9 DEF StatusOf, Timed, Live
    <2>2. Shown(b, StatusOf(b), e, PeriodOf(b), DueOf(b))
      BY <1>2, <1>3, <1>9 DEF Shown, StatusOf, OnOf, PeriodOf, DueOf, Timed, Live
    <2> QED
      BY <1>2, <1>3, <1>5, <1>7, <1>8, <2>1, <2>2, ServiceSwitches DEF OthersSame
  <1>10. CASE ~ Timed(b)
    <2>1. Same(b)
      BY <1>2, <1>3, <1>10 DEF Same, Shown, StatusOf, OnOf, PeriodOf, DueOf, Timed, Live
    <2>2. \A d \in Callables : Same(d)
      BY <1>5, <2>1
    <2> QED
      BY <1>3, <1>7, <1>8, <2>2, ServiceStutters
  <1> QED
    BY <1>9, <1>10

(* The start of a timer's callable fires the timer; that of a descriptor's  *)
(* is nothing to the service. *)
LEMMA EnterMaps ==
    ASSUME ELInv, LoopInv, ItemsInv, DueInv, TimersInv, NEW c \in Callables, EnterCallback(c)
    PROVE  TimersInv' /\ [Service!Next]_(Service!vars)
  <1>1. /\ c \in active /\ ~ items[c].removed /\ pc = "dispatch" /\ PollEnter(items[c].task)
        /\ current' = c /\ UNCHANGED <<items, regs, clock, cached>> /\ cached = clock
    BY DEF EnterCallback, PollEnter, DueInv
  <1>2. current = NoCallable
    BY <1>1 DEF LoopInv, DepthMatches
  <1>3. items[c].allocated /\ Live(c) /\ items[c].task = regs[c].handle.slot
    BY <1>1 DEF ItemsInv, EventHasItem, ItemAgrees, Owned
  <1>4. TimersInv' /\ \A d \in Callables : Same(d)
    <2>1. \A d \in Callables : promise'[d].period = promise[d].period
      BY DEF EnterCallback, LoopInv, SchedTypeOK
    <2>2. \A s \in Slots : callback_tasks'[s].enabled = callback_tasks[s].enabled
      BY <1>1 DEF PollEnter, poll_enter, ELInv, ELTypeOK, Task
    <2>3. HandleTrace
      BY DEF ELInv
    <2> QED
      BY <1>1, <2>1, <2>2, <2>3, QuietStep
  <1>5. RunningTimer = NoCallable /\ RunningTimer' = IF items[c].fd THEN NoCallable ELSE c
    BY <1>1, <1>2, NoCallableAssumption DEF RunningTimer
  <1>6. CASE items[c].fd
    BY <1>1, <1>4, <1>5, <1>6, ServiceStutters
  <1>7. CASE ~ items[c].fd
    <2>1. StatusOf(c) = "live" /\ DueOf(c) = items[c].next_due_us
      BY <1>3, <1>7 DEF StatusOf, DueOf, Timed, Live
    <2>2. OnOf(c)
      BY <1>1, <1>3, <1>7 DEF OnOf, Timed, PollEnter, poll_runs
    <2>3. cached >= DueOf(c)
      <3>1. DueAgrees(c) /\ items[c].next_due_us \in Nat
        BY DEF DueInv, LoopInv, SchedTypeOK, Item
      <3> QED
        BY <1>1, <1>3, <1>7, <2>1, <3>1, LibeventClockAssumption DEF DueAgrees, LoopInv, SchedTypeOK
    <2> QED
      BY <1>1, <1>4, <1>5, <1>7, <2>1, <2>2, <2>3, ServiceFires
  <1> QED
    BY <1>6, <1>7

(* What is left of an item after poll(). *)
LEMMA AfterPollItems ==
    ASSUME LoopInv, ItemsInv, NEW c \in Callables, AfterPoll(c), items[c].allocated
    PROVE  /\ \A d \in Callables : d # c => items'[d] = items[d] \/ (items'[d] = NoItem /\ Over(d))
           /\ items[c].removed => items'[c] = NoItem
           /\ ~ items[c].removed /\ items[c].fd => items'[c] = items[c]
           /\ ~ items[c].removed /\ ~ items[c].fd /\ ~ items[c].periodic => items'[c] = NoItem
           /\ ~ items[c].removed /\ ~ items[c].fd /\ items[c].periodic =>
                items'[c] = [items[c] EXCEPT !.next_due_us = @ + items[c].period_us]
  <1> DEFINE item == items[c]
             rearm == ~ item.fd /\ ~ item.removed /\ item.periodic
             delay == periodic_timer_next_delay_us(item.next_due_us, item.period_us, clock)
             after == IF rearm THEN [item EXCEPT !.next_due_us = @ + item.period_us]
                      ELSE IF item.fd \/ item.periodic THEN item
                      ELSE [item EXCEPT !.removed = TRUE, !.task = NoTask]
             its == [items EXCEPT ![c] = after]
             pend == [pending EXCEPT ![c] = IF rearm THEN cached + delay ELSE @]
  <1>1. its[c] = after /\ \A d \in Callables : d # c => its[d] = items[d]
    BY DEF LoopInv, SchedTypeOK
  <1>2. compact_removed_events(its, pend, active \ {c}, 0)
    BY DEF AfterPoll
  <1>3. after.allocated /\ (~ rearm /\ ~ (item.fd /\ ~ item.removed) => after.removed)
        /\ (rearm => ~ after.removed)
    BY DEF LoopInv, SchedTypeOK, Item
  <1> HIDE DEF its, pend
  <1>4. ASSUME NEW d \in Callables, d # c PROVE items'[d] = items[d] \/ (items'[d] = NoItem /\ Over(d))
    BY <1>1, <1>2, <1>4, CompactKeeps
  <1>5. /\ after.removed => items'[c] = NoItem
        /\ ~ after.removed => items'[c] = after
    <2>1. /\ its[c].allocated /\ its[c].removed /\ 0 = 0 => items'[c] = NoItem
          /\ ~ (its[c].allocated /\ its[c].removed /\ 0 = 0) => items'[c] = its[c]
      BY <1>2, CompactCases
    <2> QED
      BY <1>1, <1>3, <2>1
  <1> QED
    BY <1>3, <1>4, <1>5

(* A disabled timer whose event comes up lets its due time pass; a disabled *)
(* descriptor's event is nothing to the service. *)
LEMMA PollNothingMaps ==
    ASSUME ELInv, LoopInv, ItemsInv, DueInv, TimersInv, NEW c \in Callables, PollNothing(c)
    PROVE  TimersInv' /\ [Service!Next]_(Service!vars)
  <1>1. /\ AfterPoll(c) /\ pc = "dispatch" /\ c \in active /\ ~ items[c].removed
        /\ ~ poll_runs(callback_tasks[items[c].task])
        /\ UNCHANGED <<regs, callback_tasks, current, clock, cached, promise>> /\ cached = clock
    BY DEF PollNothing, elVars, DueInv
  <1>2. current = NoCallable /\ clock \in Nat
    BY <1>1, LibeventClockAssumption DEF LoopInv, DepthMatches, SchedTypeOK
  <1>3. items[c].allocated /\ Live(c) /\ items[c].task = regs[c].handle.slot /\ items[c] \in Item
    BY <1>1 DEF ItemsInv, EventHasItem, ItemAgrees, Owned, LoopInv, SchedTypeOK
  <1>4. ~ callback_tasks[regs[c].handle.slot].enabled
    BY <1>1, <1>3, NoCallableAssumption DEF Live, poll_runs, ELInv, HandleTrace, TraceOf
  <1>5. ASSUME NEW d \in Callables, d # c PROVE TimerAgrees(d)' /\ Same(d)
    <2>1. items'[d] = items[d] \/ (items'[d] = NoItem /\ Over(d))
      BY <1>1, <1>3, <1>5, AfterPollItems
    <2>2. Untouched(d)
      BY <1>1, <2>1 DEF Untouched
    <2> QED
      BY <2>2, UntouchedIsSame DEF TimersInv
  <1>6. UNCHANGED RunningTimer
    BY <1>1, <1>2, RunningKept
  <1>7. TimerAgrees(c)
    BY DEF TimersInv
  <1>8. CASE items[c].fd
    <2>1. Untouched(c)
      BY <1>1, <1>3, <1>8, AfterPollItems DEF Untouched
    <2>2. \A d \in Callables : TimerAgrees(d)' /\ Same(d)
      BY <1>5, <1>7, <2>1, UntouchedIsSame
    <2> QED
      BY <1>1, <1>6, <2>2, ServiceStutters DEF TimersInv
  <1>9. CASE ~ items[c].fd
    <2>1. items[c].periodic /\ items[c].period_us # 0 /\ promise[c].period = items[c].period_us
      BY <1>3, <1>4, <1>7, <1>9 DEF TimerAgrees
    <2>2. items'[c] = [items[c] EXCEPT !.next_due_us = @ + items[c].period_us]
      BY <1>1, <1>3, <1>9, <2>1, AfterPollItems
    <2>3. /\ items'[c].allocated /\ ~ items'[c].removed /\ ~ items'[c].fd /\ items'[c].periodic
          /\ items'[c].period_us = items[c].period_us
          /\ items'[c].next_due_us = items[c].next_due_us + items[c].period_us
      BY <1>1, <1>3, <1>9, <2>1, <2>2 DEF Item
    <2>4. TimerAgrees(c)'
      BY <1>1, <1>3, <1>7, <1>9, <2>1, <2>3 DEF TimerAgrees, Live
    <2>5. /\ StatusOf(c) = "live" /\ OnOf(c) = FALSE /\ PeriodOf(c) = items[c].period_us
          /\ DueOf(c) = items[c].next_due_us
      BY <1>3, <1>4, <1>9, <2>1 DEF StatusOf, OnOf, PeriodOf, DueOf, Timed, Live
    <2>6. Timed(c)' /\ StatusOf(c)' = "live" /\ OnOf(c)' = FALSE
      BY <1>1, <1>3, <1>4, <2>3 DEF StatusOf, OnOf, Timed, Live
    <2>7. Shown(c, StatusOf(c), OnOf(c), PeriodOf(c), DueOf(c) + PeriodOf(c))
      BY <1>1, <2>1, <2>3, <2>5, <2>6 DEF Shown, PeriodOf, DueOf
    <2>8. items[c].next_due_us <= clock /\ items[c].next_due_us \in Nat /\ items[c].period_us \in Nat
      BY <1>1, <1>3, <1>9 DEF DueInv, DueAgrees, Item
    <2>9. Service!Next
      BY <1>1, <1>2, <1>5, <1>6, <2>1, <2>5, <2>7, <2>8, ServicePasses DEF OthersSame
    <2> QED
      BY <1>5, <2>4, <2>9 DEF TimersInv
  <1> QED
    BY <1>8, <1>9

(* The return of a timer's callable: a delay is over, a repeating timer     *)
(* moves on, one that was removed meanwhile just returns. *)
LEMMA LeaveMaps ==
    ASSUME ELInv, LoopInv, ItemsInv, DueInv, TimersInv, LeaveCallback
    PROVE  TimersInv' /\ [Service!Next]_(Service!vars)
  <1>1. PICK s \in Slots : PollLeave(s)
    BY DEF LeaveCallback, Invoking
  <1>2. PICK c \in Callables : c = current
    BY DEF LeaveCallback, LoopInv, DepthMatches, SchedTypeOK
  <1>3. /\ AfterPoll(c) /\ pc = "callback" /\ current' = NoCallable /\ UNCHANGED <<clock, cached, promise>>
        /\ clock \in Nat
    BY <1>2, LibeventClockAssumption DEF LeaveCallback, LoopInv, SchedTypeOK
  <1>4. items[c].allocated /\ items[c] \in Item
    BY <1>2, <1>3 DEF ItemsInv, EventHasItem, LoopInv, SchedTypeOK
  <1>5. callback_tasks[s].stored = c
    BY <1>1, <1>2, LeaveEndsExecution DEF ItemsInv
  <1>6. ASSUME NEW d \in Callables, d # c PROVE TimerAgrees(d)' /\ Same(d)
    <2>1. items'[d] = items[d] \/ (items'[d] = NoItem /\ Over(d))
      BY <1>3, <1>4, <1>6, AfterPollItems
    <2>2. Live(d) => regs[d].handle.slot \in Slots \ {s}
      BY <1>5, <1>6 DEF Live, ELInv, HandleTrace, TraceOf
    <2>3. Untouched(d)
      BY <1>1, <1>3, <1>5, <1>6, <2>1, <2>2, LeaveEffect DEF Untouched
    <2> QED
      BY <2>3, UntouchedIsSame DEF TimersInv
  <1>7. RunningTimer = (IF items[c].fd THEN NoCallable ELSE c) /\ RunningTimer' = NoCallable
    BY <1>2, <1>3, NoCallableAssumption DEF RunningTimer
  <1>8. TimerAgrees(c)
    BY DEF TimersInv
  <1>9. CASE items[c].removed
    <2>1. Over(c) /\ items'[c] = NoItem /\ regs'[c].phase \in {"removed", "done"}
      BY <1>1, <1>3, <1>4, <1>5, <1>9, AfterPollItems, LeaveEffect DEF ItemsInv, ItemAgrees
    <2>2. ~ Live(c) /\ ~ Live(c)' /\ ~ Timed(c) /\ ~ Timed(c)'
      BY <2>1 DEF Timed, Live, Over
    <2>3. StatusOf(c) = "over" /\ StatusOf(c)' = "over"
      BY <2>1 DEF StatusOf, Over, NoItem
    <2>4. TimerAgrees(c)' /\ Same(c)
      BY <2>1, <2>2, <2>3 DEF TimerAgrees, NoItem, Same, Shown, OnOf, PeriodOf, DueOf
    <2>6. CASE items[c].fd
      BY <1>3, <1>6, <1>7, <2>4, <2>6, ServiceStutters DEF TimersInv
    <2>7. CASE ~ items[c].fd
      BY <1>3, <1>6, <1>7, <2>3, <2>4, <2>7, ServiceReturns DEF TimersInv, OthersSame
    <2> QED
      BY <2>6, <2>7
  <1>10. CASE ~ items[c].removed
    <2>1. Live(c) /\ (regs[c].kind = "delay" => ~ items[c].fd /\ ~ items[c].periodic)
      BY <1>4, <1>10 DEF ItemsInv, ItemAgrees, Owned
    <2>2. CASE regs[c].kind = "delay"
      <3>1. items'[c] = NoItem /\ regs'[c].phase = "done" /\ ~ items[c].fd
        BY <1>1, <1>3, <1>4, <1>5, <1>10, <2>1, <2>2, AfterPollItems, LeaveEffect
      <3>2. ~ Live(c)' /\ ~ Timed(c)' /\ StatusOf(c)' = "over"
        BY <3>1 DEF Timed, Live, StatusOf
      <3>3. TimerAgrees(c)' /\ Shown(c, "over", FALSE, 0, 0)
        BY <3>1, <3>2 DEF TimerAgrees, NoItem, Shown, OnOf, PeriodOf, DueOf
      <3>4. StatusOf(c) = "live" /\ PeriodOf(c) = 0
        BY <1>4, <1>8, <2>1, <2>2 DEF StatusOf, PeriodOf, Timed, Live, TimerAgrees, Item
      <3>5. RunningTimer = c /\ RunningTimer' = NoCallable /\ OthersSame(c)
        BY <1>6, <1>7, <3>1 DEF OthersSame
      <3>6. Service!Next
        BY <1>3, <3>3, <3>4, <3>5, ServiceReturns
      <3> QED
        BY <1>6, <3>3, <3>6 DEF TimersInv
    <2>3. CASE regs[c].kind # "delay" /\ items[c].fd
      <3>1. /\ regs'[c] = regs[c] /\ items'[c] = items[c] /\ regs[c].handle.slot = s
            /\ callback_tasks'[s].enabled = callback_tasks[s].enabled
        BY <1>1, <1>3, <1>4, <1>5, <1>10, <2>1, <2>3, AfterPollItems, LeaveEffect, ZenonT(30)
      <3>2. Untouched(c)
        BY <1>3, <3>1 DEF Untouched
      <3>3. \A d \in Callables : TimerAgrees(d)' /\ Same(d)
        BY <1>6, <1>8, <3>2, UntouchedIsSame
      <3> QED
        BY <1>3, <1>7, <2>3, <3>3, ServiceStutters DEF TimersInv
    <2>4. CASE regs[c].kind # "delay" /\ ~ items[c].fd
      <3>1. items[c].periodic /\ items[c].period_us # 0 /\ promise[c].period = items[c].period_us
        <4>1. regs[c].kind = "repeat"
          BY <2>4 DEF ELInv, ELTypeOK, Registration, Kinds
        <4> QED
          BY <1>8, <2>1, <2>4, <4>1 DEF TimerAgrees
      <3>2. /\ regs'[c] = regs[c] /\ regs[c].handle.slot = s
            /\ callback_tasks'[s].enabled = callback_tasks[s].enabled
            /\ items'[c] = [items[c] EXCEPT !.next_due_us = @ + items[c].period_us]
        BY <1>1, <1>3, <1>4, <1>5, <1>10, <2>1, <2>4, <3>1, AfterPollItems, LeaveEffect
      <3>3. /\ items'[c].allocated /\ ~ items'[c].removed /\ ~ items'[c].fd /\ items'[c].periodic
            /\ items'[c].period_us = items[c].period_us
            /\ items'[c].next_due_us = items[c].next_due_us + items[c].period_us
        BY <1>4, <1>10, <2>4, <3>1, <3>2 DEF Item
      <3>4. TimerAgrees(c)'
        BY <1>3, <1>8, <2>1, <2>4, <3>1, <3>2, <3>3 DEF TimerAgrees, Live
      <3>5. Timed(c) /\ Timed(c)'
        BY <2>1, <2>4, <3>2, <3>3 DEF Timed, Live
      <3>6. /\ StatusOf(c) = "live" /\ PeriodOf(c) = items[c].period_us
            /\ DueOf(c) = items[c].next_due_us
        BY <2>1, <2>4, <3>1, <3>5 DEF StatusOf, PeriodOf, DueOf, Live
      <3>7. StatusOf(c)' = "live" /\ OnOf(c)' = OnOf(c)
        <4>1. StatusOf(c)' = "live"
          BY <2>1, <3>2, <3>3 DEF StatusOf, Live
        <4>2. OnOf(c)' = OnOf(c)
          BY <3>2, <3>5 DEF OnOf
        <4> QED
          BY <4>1, <4>2
      <3>8. Shown(c, StatusOf(c), OnOf(c), PeriodOf(c), DueOf(c) + PeriodOf(c))
        BY <1>3, <3>1, <3>3, <3>5, <3>6, <3>7 DEF Shown, PeriodOf, DueOf
      <3>9. Service!Next
        BY <1>3, <1>6, <1>7, <2>4, <3>1, <3>6, <3>8, ServiceReturns DEF OthersSame
      <3> QED
        BY <1>6, <3>4, <3>9 DEF TimersInv
    <2> QED
      BY <2>2, <2>3, <2>4
  <1> QED
    BY <1>9, <1>10

(* At the start no timer is known to the loop, nor to the service ... *)
LEMMA TimersInvInit == Init => TimersInv
  <1> SUFFICES ASSUME Init, NEW c \in Callables PROVE TimerAgrees(c)
    BY DEF TimersInv
  <1>1. items[c] = NoItem /\ regs[c].phase = "new"
    BY DEF Init, ELInit
  <1> QED
    BY <1>1 DEF TimerAgrees, NoItem, Live

LEMMA ServiceInit == Init => Service!Init
  <1> SUFFICES ASSUME Init PROVE Service!Init
    OBVIOUS
  <1>1. clock = 0 /\ cached = 0 /\ 0 \in 0 .. ClockMax + MaxTime
    BY LibeventClockAssumption DEF Init
  <1>2. ASSUME NEW c \in Callables
        PROVE  StatusOf(c) = "new" /\ OnOf(c) = FALSE /\ PeriodOf(c) = 0 /\ DueOf(c) = 0
    BY DEF Init, ELInit, NoItem, StatusOf, OnOf, PeriodOf, DueOf, Timed, Live
  <1>3. RunningTimer = NoCallable
    BY DEF Init, RunningTimer
  <1> QED
    BY <1>1, <1>2, <1>3 DEF Service!Init

(* ... and every step of the loop is a step of the service, or none. *)
LEMMA TimersStep ==
    ASSUME SlowCallbacks = FALSE, DisableDelays = FALSE,
           ELInv, LoopInv, ItemsInv, DueInv, TimersInv, [Next]_vars
    PROVE  TimersInv' /\ [Service!Next]_(Service!vars)
  <1> DEFINE Goal == TimersInv' /\ [Service!Next]_(Service!vars)
  <1>0. clock \in Nat /\ clock <= MaxTime /\ MaxTime \in Nat /\ ClockMax \in Nat /\ MaxTime <= ClockMax
    BY LibeventClockAssumption DEF LoopInv, SchedTypeOK
  <1>1. ASSUME NEW c \in Callables, NEW p \in Periods, on_repeat_us(c, p) PROVE Goal
    <2> DEFINE item == TimerItem(TRUE, p, clock + p)
    <2>1. p \in 0 .. ClockMax /\ clock + p \in 0 .. ClockMax + MaxTime /\ clock + p >= clock
      BY <1>0, LibeventRequestsAssumption
    <2>2. /\ item \in Item /\ item.allocated /\ ~ item.removed /\ ~ item.fd /\ item.periodic
          /\ item.period_us = p /\ item.next_due_us = clock + p
      BY <1>0, <2>1 DEF TimerItem, Item
    <2>3. RegisterItem(c, "repeat", item, p # 0, p, clock + p)
      BY <1>1 DEF on_repeat_us
    <2> HIDE DEF item
    <2>4. (p # 0) \in BOOLEAN /\ p \in Nat \cup {NotPending} /\ "repeat" \in Kinds
      BY <2>1, <1>0 DEF Kinds
    <2>5. item.periodic <=> "repeat" = "repeat"
      BY <2>2
    <2>6. p # 0 => (item.periodic <=> item.period_us # 0)
      BY <2>2
    <2> QED
      BY <2>1, <2>2, <2>3, <2>4, <2>5, <2>6, RegisterMaps
  <1>2. ASSUME NEW c \in Callables, NEW d \in Delays, on_delay_us(c, d) PROVE Goal
    <2> DEFINE item == TimerItem(FALSE, 0, DelayDue(d))
    <2>1. /\ DelayDue(d) \in 0 .. ClockMax + MaxTime /\ DelayDue(d) >= clock
          /\ DelayDue(d) - clock \in Nat
      BY <1>0, LibeventRequestsAssumption DEF DelayDue
    <2>2. /\ item \in Item /\ item.allocated /\ ~ item.removed /\ ~ item.fd /\ ~ item.periodic
          /\ item.period_us = 0 /\ item.next_due_us = DelayDue(d)
      BY <1>0, <2>1 DEF TimerItem, Item
    <2>3. RegisterItem(c, "delay", item, TRUE, DelayDue(d) - clock, DelayDue(d))
      BY <1>2 DEF on_delay_us
    <2> HIDE DEF item
    <2> QED
      BY <2>1, <2>2, <2>3, RegisterMaps DEF Kinds
  <1>3. ASSUME NEW c \in Callables, on_readable(c) PROVE Goal
    <2>1. FdItem \in Item /\ FdItem.allocated /\ ~ FdItem.removed /\ FdItem.fd
      BY DEF FdItem, Item
    <2>2. RegisterItem(c, "repeat", FdItem, TRUE, NotPending, clock)
      BY <1>3 DEF on_readable
    <2> QED
      BY <2>1, <2>2, RegisterMaps DEF Kinds
  <1>4. ASSUME NEW c \in Callables, remove(c) PROVE Goal
    BY <1>4, RemoveMaps
  <1>5. ASSUME NEW c \in Callables, NEW e \in BOOLEAN, set_callback_enabled(c, e) PROVE Goal
    BY <1>5, SwitchMaps
  <1>6. ASSUME UNCHANGED <<items, regs, callback_tasks, promise, current>>
        PROVE  /\ UNCHANGED <<clock, cached>> => Goal
               /\ UNCHANGED cached /\ clock' = clock + 1 => Goal
               /\ UNCHANGED clock /\ cached' = clock /\ current = NoCallable => Goal
    <2>1. ASSUME NEW c \in Callables PROVE TimerAgrees(c)' /\ Same(c)
      BY <1>6, UntouchedIsSame DEF Untouched, TimersInv
    <2>2. UNCHANGED RunningTimer
      BY <1>6, RunningKept
    <2>3. current = NoCallable => RunningTimer = NoCallable
      BY DEF RunningTimer
    <2> QED
      BY <2>1, <2>2, <2>3, ServiceStutters, ServiceAdvances, ServiceLooks DEF TimersInv
  <1>7. CASE request_exit \/ ReadDescriptor \/ DataArrives \/ UNCHANGED vars
    BY <1>6, <1>7 DEF request_exit, ReadDescriptor, DataArrives, vars, elVars, schedVars
  <1>13. CASE BeginIteration
    <2>1. current = NoCallable
      BY <1>13 DEF BeginIteration, IterationWith, LoopInv, DepthMatches
    <2> QED
      BY <1>6, <1>13, <2>1 DEF BeginIteration, IterationWith, elVars
  <1>8. CASE Tick
    BY <1>6, <1>8 DEF Tick, elVars
  <1>9. ASSUME NEW c \in Callables, EnterCallback(c) PROVE Goal
    BY <1>9, EnterMaps
  <1>10. ASSUME NEW c \in Callables, PollNothing(c) PROVE Goal
    BY <1>10, PollNothingMaps
  <1>11. CASE LeaveCallback
    BY <1>11, LeaveMaps
  <1>12. CASE EndIteration
    <2>1. /\ compact_removed_events(items, pending, active, callback_depth) /\ current = NoCallable
          /\ UNCHANGED <<regs, callback_tasks, promise, current, clock, cached>>
      BY <1>12 DEF EndIteration, elVars, LoopInv, DepthMatches
    <2>2. ASSUME NEW d \in Callables PROVE TimerAgrees(d)' /\ Same(d)
      <3>1. items'[d] = items[d] \/ (items'[d] = NoItem /\ Over(d))
        BY <2>1, CompactKeeps
      <3>2. Untouched(d)
        BY <2>1, <3>1 DEF Untouched
      <3> QED
        BY <3>2, UntouchedIsSame DEF TimersInv
    <2>3. UNCHANGED RunningTimer
      BY <2>1, RunningKept
    <2> QED
      BY <2>1, <2>2, <2>3, ServiceStutters DEF TimersInv
  <1> QED
    BY <1>1, <1>2, <1>3, <1>4, <1>5, <1>7, <1>8, <1>9, <1>10, <1>11, <1>12, <1>13 DEF Next, Loop

(* While callbacks take no time, and delays are not disabled, the loop on   *)
(* libevent keeps the promise of the timer service: no callback starts      *)
(* early, twice at once or after its end, a delay runs once, and a          *)
(* repeating callback takes the points of its grid one after the other.     *)
THEOREM LibeventImplementsTimerService ==
    SlowCallbacks = FALSE /\ DisableDelays = FALSE /\ Spec => ImplementsTimerService
  <1> SUFFICES ASSUME SlowCallbacks = FALSE, DisableDelays = FALSE
               PROVE  Spec => ImplementsTimerService
    OBVIOUS
  <1>1. Spec => [](ELInv /\ LoopInv)
    BY LibeventImplementsFacade, ELInvariant, LoopInvInit, LoopInvStep, PTL DEF Spec
  <1>2. ELInv /\ LoopInv /\ ItemsInv /\ DueInv /\ [Next]_vars => DueInv'
    BY DueInvStep
  <1>3. ELInv /\ LoopInv /\ ItemsInv /\ DueInv /\ TimersInv /\ [Next]_vars =>
           TimersInv' /\ [Service!Next]_(Service!vars)
    BY TimersStep
  <1> QED
    BY <1>1, <1>2, <1>3, ItemsInvInit, ItemsInvStep, DueInvInit, TimersInvInit, ServiceInit, PTL
    DEF Spec, ImplementsTimerService, Service!Spec

-----------------------------------------------------------------------------
(* Compaction leaves an item that is not marked, and its event, alone. *)
LEMMA CompactSpares ==
    ASSUME NEW its, NEW pend, NEW act, NEW depth, NEW c \in Callables,
           compact_removed_events(its, pend, act, depth), ~ its[c].removed
    PROVE  items'[c] = its[c] /\ pending'[c] = pend[c] /\ (c \in active' <=> c \in act)
  BY DEF compact_removed_events, Doomed

LEMMA SparedByCompact ==
    ASSUME NEW its, NEW pend, NEW act, NEW depth, NEW c \in Callables,
           compact_removed_events(its, pend, act, depth), items'[c].allocated, ~ items'[c].removed
    PROVE  items'[c] = its[c] /\ pending'[c] = pend[c] /\ (c \in active' <=> c \in act)
  <1>1. items'[c] # NoItem
    BY DEF NoItem
  <1>2. ~ its[c].removed
    <2>1. items'[c] = its[c]
      BY <1>1, CompactCases
    <2> QED
      BY <2>1
  <1> QED
    BY <1>2, CompactSpares

(* A timer stays armed while its item and its event are left alone. *)
LEMMA StaysArmed ==
    ASSUME NEW c \in Callables, Armed(c), items'[c] = items[c], pending'[c] = pending[c],
           c \in active => c \in active',
           pc = "callback" /\ c = current => pc' = "callback" /\ current' = current,
           clock \in Nat, pending[c] \in Nat \cup {NotPending},
           clock' = clock \/ clock' = clock + 1
    PROVE  Armed(c)'
  BY LibeventNamesAssumption DEF Armed

(* The timer that has been polled is armed again. *)
LEMMA RearmedIsArmed ==
    ASSUME LoopInv, DueInv, NEW c \in Callables, AfterPoll(c), items[c].allocated, ~ items[c].removed,
           ~ items[c].fd, items[c].periodic, pc # "idle", c \in active \/ c = current,
           UNCHANGED clock
    PROVE  Armed(c)'
  <1> DEFINE item == items[c]
             delay == periodic_timer_next_delay_us(item.next_due_us, item.period_us, clock)
             after == [item EXCEPT !.next_due_us = @ + item.period_us]
             its == [items EXCEPT ![c] = after]
             pend == [pending EXCEPT ![c] = cached + delay]
  <1>1. item \in Item /\ clock \in Nat /\ cached = clock
    BY LibeventClockAssumption DEF LoopInv, SchedTypeOK, DueInv
  <1>2. item.next_due_us <= clock
    BY DEF DueInv, DueAgrees
  <1>3. compact_removed_events(its, pend, active \ {c}, 0)
    BY DEF AfterPoll
  <1>4. its[c] = after /\ pend[c] = clock + delay
    BY <1>1 DEF LoopInv, SchedTypeOK
  <1>5. ~ after.removed /\ after.next_due_us = item.next_due_us + item.period_us
    BY <1>1 DEF Item
  <1> HIDE DEF its, pend, after
  <1>6. items'[c] = after /\ pending'[c] = clock + delay
    BY <1>3, <1>4, <1>5, CompactSpares
  <1>7. PICK due \in Nat, period \in Nat : due = item.next_due_us /\ period = item.period_us
    BY <1>1 DEF Item
  <1>8. /\ delay \in Nat /\ clock + delay >= due + period
        /\ clock + delay <= due + period \/ clock + delay <= clock
    BY <1>1, <1>2, <1>7 DEF periodic_timer_next_delay_us
  <1> HIDE DEF delay, item
  <1>9. clock + delay \in Nat /\ clock + delay # NotPending
    BY <1>1, <1>8, LibeventNamesAssumption
  <1> QED
    BY <1>5, <1>6, <1>7, <1>8, <1>9 DEF Armed

(* A timer that is new is armed for its due time. *)
LEMMA RegisterArms ==
    ASSUME ELInv, LoopInv, ItemsInv, DueInv, TimersInv', TimersArmed,
           NEW c \in Callables, NEW k \in Kinds, NEW item \in Item, NEW ok \in BOOLEAN,
           NEW delay \in Nat \cup {NotPending}, NEW from, ~ item.removed,
           item.fd \/ (delay # NotPending /\ item.next_due_us = clock + delay),
           RegisterItem(c, k, item, ok, delay, from)
    PROVE  TimersArmed'
  <1> SUFFICES ASSUME NEW d \in Callables, Live(d)', ~ items'[d].fd
               PROVE  Armed(d)'
    BY DEF TimersArmed
  <1>1. UNCHANGED <<pc, current, clock>>
    BY DEF RegisterItem
  <1>2. Base = clock /\ clock \in Nat /\ pending[d] \in Nat \cup {NotPending}
    BY LibeventClockAssumption DEF Base, DueInv, LoopInv, SchedTypeOK
  <1>3. items'[d].allocated /\ ~ items'[d].removed
    BY DEF TimersInv, TimerAgrees
  <1>4. d # c => regs'[d] = regs[d]
    <2>1. Register(c, k)
      BY DEF RegisterItem, Register
    <2> QED
      BY <2>1, RegisterKeepsOthers
  <1>5. CASE regs'[d] = regs[d] /\ UNCHANGED <<items, pending, active>>
    BY <1>1, <1>2, <1>5, StaysArmed DEF TimersArmed, Live
  <1>6. ASSUME d # c, NEW its, NEW pend, compact_removed_events(its, pend, active, callback_depth),
               its[d] = items[d], pend[d] = pending[d]
        PROVE  Armed(d)'
    <2>1. items'[d] = its[d]
      BY <1>3, <1>6, SparedByCompact
    <2>2. pending'[d] = pend[d] /\ (d \in active' <=> d \in active)
      BY <1>3, <1>6, SparedByCompact
    <2> QED
      BY <1>1, <1>2, <1>4, <1>6, <2>1, <2>2, StaysArmed DEF TimersArmed, Live
  <1>7. ASSUME NEW s \in Slots,
               compact_removed_events(
                 [items EXCEPT ![c] = [item EXCEPT !.task = s]],
                 [pending EXCEPT ![c] = IF delay = NotPending THEN NotPending ELSE Base + delay],
                 active, callback_depth)
        PROVE  Armed(d)'
    <2> DEFINE its == [items EXCEPT ![c] = [item EXCEPT !.task = s]]
               pend == [pending EXCEPT ![c] = IF delay = NotPending THEN NotPending ELSE Base + delay]
    <2>1. /\ its[c].fd = item.fd /\ its[c].removed = item.removed /\ its[c].next_due_us = item.next_due_us
          /\ pend[c] = IF delay = NotPending THEN NotPending ELSE clock + delay
          /\ d # c => its[d] = items[d] /\ pend[d] = pending[d]
      BY <1>2 DEF LoopInv, SchedTypeOK, Item
    <2>2. compact_removed_events(its, pend, active, callback_depth)
      BY <1>7
    <2> HIDE DEF its, pend
    <2>3. CASE d = c
      <3>1. items'[c] = its[c] /\ pending'[c] = pend[c]
        BY <2>1, <2>2, CompactSpares
      <3>2. ~ item.fd
        BY <2>1, <2>3, <3>1
      <3>3. pend[c] = item.next_due_us /\ item.next_due_us \in Nat
        BY <2>1, <3>2 DEF Item
      <3> QED
        BY <2>1, <2>3, <3>1, <3>3, LibeventNamesAssumption DEF Armed
    <2> QED
      BY <1>6, <2>1, <2>2, <2>3
  <1>8. ASSUME d = c, regs'[c].phase = "rejected" PROVE FALSE
    BY <1>8 DEF Live
  <1>9. ASSUME RejectTableFull(c) \/ \E s \in Slots : RejectBusySlot(c, s) \/ RejectUnscheduled(c, s)
        PROVE  d # c
    <2>1. Reject(c) /\ regs \in [Callables -> Registration]
      BY <1>9 DEF RejectTableFull, RejectBusySlot, RejectUnscheduled, ELInv, ELTypeOK
    <2>2. regs'[c].phase = "rejected"
      BY <2>1 DEF Reject, Registration
    <2> QED
      BY <1>8, <2>2
  <1> QED
    BY <1>4, <1>5, <1>6, <1>7, <1>9 DEF RegisterItem

(* Every step of the loop and of its callbacks keeps live timers armed. *)
LEMMA TimersArmedStep ==
    ASSUME SlowCallbacks = FALSE, ELInv, LoopInv, ItemsInv, DueInv, TimersInv, TimersInv',
           TimersArmed, [Next]_vars
    PROVE  TimersArmed'
  <1>0. /\ clock \in Nat /\ pending \in [Callables -> Nat \cup {NotPending}]
        /\ clock <= MaxTime /\ MaxTime \in Nat /\ ClockMax \in Nat /\ MaxTime <= ClockMax
    BY LibeventClockAssumption DEF LoopInv, SchedTypeOK
  <1>1. ASSUME NEW c \in Callables, NEW p \in Periods, on_repeat_us(c, p) PROVE TimersArmed'
    <2> DEFINE item == TimerItem(TRUE, p, clock + p)
    <2>1. p \in Nat /\ clock + p \in Nat /\ p # NotPending
      BY <1>0, LibeventRequestsAssumption, LibeventNamesAssumption
    <2>2. item \in Item /\ ~ item.removed /\ item.next_due_us = clock + p
      BY <2>1 DEF TimerItem, Item
    <2>3. RegisterItem(c, "repeat", item, p # 0, p, clock + p)
      BY <1>1 DEF on_repeat_us
    <2>4. "repeat" \in Kinds /\ (p # 0) \in BOOLEAN
      BY DEF Kinds
    <2> HIDE DEF item
    <2> QED
      BY <2>1, <2>2, <2>3, <2>4, RegisterArms
  <1>2. ASSUME NEW c \in Callables, NEW d \in Delays, on_delay_us(c, d) PROVE TimersArmed'
    <2> DEFINE item == TimerItem(FALSE, 0, DelayDue(d))
    <2>1. /\ DelayDue(d) \in Nat /\ DelayDue(d) - clock \in Nat
          /\ DelayDue(d) = clock + (DelayDue(d) - clock)
      BY <1>0, LibeventRequestsAssumption DEF DelayDue
    <2>2. item \in Item /\ ~ item.removed /\ item.next_due_us = DelayDue(d)
      BY <2>1 DEF TimerItem, Item
    <2>3. RegisterItem(c, "delay", item, TRUE, DelayDue(d) - clock, DelayDue(d))
      BY <1>2 DEF on_delay_us
    <2>4. DelayDue(d) - clock # NotPending /\ "delay" \in Kinds
      BY <2>1, LibeventNamesAssumption DEF Kinds
    <2> HIDE DEF item
    <2> QED
      BY <2>1, <2>2, <2>3, <2>4, RegisterArms
  <1>3. ASSUME NEW c \in Callables, on_readable(c) PROVE TimersArmed'
    <2>1. FdItem \in Item /\ FdItem.fd /\ ~ FdItem.removed
      BY DEF FdItem, Item
    <2>2. RegisterItem(c, "repeat", FdItem, TRUE, NotPending, clock) /\ "repeat" \in Kinds
      BY <1>3 DEF on_readable, Kinds
    <2> QED
      BY <2>1, <2>2, RegisterArms
  <1>4. ASSUME NEW its, NEW act, NEW depth, compact_removed_events(its, pending, act, depth),
               \A d \in Callables : its[d] = items[d] \/ its[d].removed,
               act = active, UNCHANGED clock, \A d \in Callables : Live(d)' => Live(d),
               pc # "callback" \/ UNCHANGED <<pc, current>>
        PROVE  TimersArmed'
    <2> SUFFICES ASSUME NEW d \in Callables, Live(d)', ~ items'[d].fd
                 PROVE  Armed(d)'
      BY DEF TimersArmed
    <2>1. items'[d].allocated /\ ~ items'[d].removed
      BY DEF TimersInv, TimerAgrees
    <2>2. items'[d] = its[d] /\ pending'[d] = pending[d] /\ (d \in active' <=> d \in active)
      BY <1>4, <2>1, SparedByCompact
    <2>3. its[d] = items[d]
      BY <1>4, <2>1, <2>2
    <2> QED
      BY <1>0, <1>4, <2>2, <2>3, StaysArmed DEF TimersArmed
  <1>5. ASSUME NEW c \in Callables, remove(c) PROVE TimersArmed'
    <2> DEFINE its == MarkRemoved(items, regs[c].handle.slot)
    <2>1. compact_removed_events(its, pending, active, callback_depth) /\ UNCHANGED <<pc, current, clock>>
      BY <1>5 DEF remove
    <2>2. \A d \in Callables : its[d] = items[d] \/ its[d].removed
      BY DEF MarkRemoved, LoopInv, SchedTypeOK, Item
    <2>3. \A d \in Callables : Live(d)' => Live(d)
      BY <1>5 DEF remove, Remove, EndRegistration, Live, ELInv, ELTypeOK, Registration
    <2> HIDE DEF its
    <2> QED
      BY <1>4, <2>1, <2>2, <2>3
  <1>6. CASE EndIteration
    <2>1. /\ compact_removed_events(items, pending, active, callback_depth) /\ pc = "dispatch"
          /\ UNCHANGED <<regs, clock>>
      BY <1>6 DEF EndIteration, elVars
    <2> QED
      BY <1>4, <2>1 DEF Live
  <1>7. ASSUME UNCHANGED <<regs, items, pending, active, pc, current>>,
               clock' = clock \/ clock' = clock + 1
        PROVE  TimersArmed'
    BY <1>0, <1>7, StaysArmed DEF TimersArmed, Live
  <1>8. CASE BeginIteration
    <2>1. /\ pc = "idle" /\ UNCHANGED <<regs, items, clock>>
          /\ \A d \in Callables : d \in active \/ pending'[d] # pending[d] => d \in active'
      BY <1>0, <1>8 DEF BeginIteration, IterationWith, elVars
    <2> SUFFICES ASSUME NEW d \in Callables, Live(d)', ~ items'[d].fd
                 PROVE  Armed(d)'
      BY DEF TimersArmed
    <2>2. Armed(d)
      BY <2>1 DEF TimersArmed, Live
    <2> QED
      BY <2>1, <2>2 DEF Armed
  <1>9. ASSUME NEW c \in Callables, EnterCallback(c) PROVE TimersArmed'
    <2>1. /\ pc = "dispatch" /\ pc' = "callback" /\ current' = c /\ active' = active \ {c}
          /\ UNCHANGED <<regs, items, pending, clock>>
      BY <1>9 DEF EnterCallback, PollEnter
    <2> SUFFICES ASSUME NEW d \in Callables, Live(d)', ~ items'[d].fd
                 PROVE  Armed(d)'
      BY DEF TimersArmed
    <2>2. Armed(d)
      BY <2>1 DEF TimersArmed, Live
    <2> QED
      BY <2>1, <2>2 DEF Armed
  <1>10. ASSUME NEW c \in Callables, AfterPoll(c), pc # "idle", c \in active \/ c = current,
                pc = "callback" => c = current, items[c].allocated, UNCHANGED clock,
                \A d \in Callables : d # c /\ Live(d)' => Live(d),
                Live(c)' => Live(c) /\ ~ items[c].removed /\ (items[c].fd \/ items[c].periodic)
         PROVE  TimersArmed'
    <2> SUFFICES ASSUME NEW d \in Callables, Live(d)', ~ items'[d].fd
                 PROVE  Armed(d)'
      BY DEF TimersArmed
    <2>1. CASE d = c
      <3>1. items[c].fd => items'[c] = items[c]
        BY <1>10, <2>1, AfterPollItems
      <3>2. ~ items[c].fd /\ items[c].periodic
        BY <1>10, <2>1, <3>1
      <3> QED
        BY <1>10, <2>1, <3>2, RearmedIsArmed
    <2>2. CASE d # c
      <3> DEFINE item == items[c]
                 rearm == ~ item.fd /\ ~ item.removed /\ item.periodic
                 delay == periodic_timer_next_delay_us(item.next_due_us, item.period_us, clock)
                 after == IF rearm THEN [item EXCEPT !.next_due_us = @ + item.period_us]
                          ELSE IF item.fd \/ item.periodic THEN item
                          ELSE [item EXCEPT !.removed = TRUE, !.task = NoTask]
                 its == [items EXCEPT ![c] = after]
                 pend == [pending EXCEPT ![c] = IF rearm THEN cached + delay ELSE @]
      <3>1. compact_removed_events(its, pend, active \ {c}, 0)
        BY <1>10 DEF AfterPoll
      <3>2. its[d] = items[d] /\ pend[d] = pending[d]
        BY <2>2 DEF LoopInv, SchedTypeOK
      <3> HIDE DEF its, pend
      <3>3. items'[d].allocated /\ ~ items'[d].removed
        BY DEF TimersInv, TimerAgrees
      <3>4. items'[d] = its[d] /\ pending'[d] = pend[d] /\ (d \in active' <=> d \in active \ {c})
        BY <3>1, <3>3, SparedByCompact
      <3>5. d \in active' <=> d \in active
        BY <2>2, <3>4
      <3>6. Armed(d)
        BY <1>10, <2>2, <3>2, <3>4 DEF TimersArmed
      <3> QED
        BY <1>0, <1>10, <2>2, <3>2, <3>4, <3>5, <3>6, StaysArmed
    <2> QED
      BY <2>1, <2>2
  <1>11. ASSUME NEW c \in Callables, PollNothing(c) PROVE TimersArmed'
    <2>1. /\ AfterPoll(c) /\ pc = "dispatch" /\ c \in active /\ ~ items[c].removed
          /\ ~ poll_runs(callback_tasks[items[c].task]) /\ UNCHANGED <<regs, clock>>
      BY <1>11 DEF PollNothing, elVars
    <2>2. items[c].allocated /\ Live(c) /\ items[c].task = regs[c].handle.slot
      BY <2>1 DEF ItemsInv, EventHasItem, ItemAgrees, Owned
    <2>3. ~ callback_tasks[regs[c].handle.slot].enabled
      BY <2>1, <2>2, NoCallableAssumption DEF Live, poll_runs, ELInv, HandleTrace, TraceOf
    <2>4. items[c].fd \/ items[c].periodic
      BY <2>2, <2>3 DEF TimersInv, TimerAgrees
    <2> QED
      BY <1>10, <2>1, <2>2, <2>4 DEF Live
  <1>12. CASE LeaveCallback
    <2>1. PICK s \in Slots : PollLeave(s)
      BY <1>12 DEF LeaveCallback, Invoking
    <2>2. PICK c \in Callables : c = current
      BY <1>12 DEF LeaveCallback, LoopInv, DepthMatches, SchedTypeOK
    <2>3. AfterPoll(c) /\ pc = "callback" /\ UNCHANGED clock
      BY <1>12, <2>2 DEF LeaveCallback
    <2>4. items[c].allocated
      BY <2>2, <2>3 DEF ItemsInv, EventHasItem
    <2>5. callback_tasks[s].stored = c
      BY <1>12, <2>1, <2>2, <2>3, LeaveEndsExecution DEF ItemsInv
    <2>6. ASSUME NEW d \in Callables, d # c PROVE regs'[d] = regs[d]
      BY <2>1, <2>5, <2>6, LeaveEffect
    <2>7. ASSUME Live(c)'
          PROVE  Live(c) /\ ~ items[c].removed /\ (items[c].fd \/ items[c].periodic)
      <3>1. Live(c) \/ Over(c)
        BY <2>4 DEF ItemsInv, ItemAgrees, Owned
      <3>2. ~ Over(c)
        BY <2>1, <2>5, <2>7, LeaveEffect DEF Live
      <3>3. regs[c].kind # "delay"
        BY <2>1, <2>5, <2>7, <3>1, <3>2, LeaveEffect DEF Live
      <3>4. regs[c].kind = "repeat"
        BY <3>3 DEF ELInv, ELTypeOK, Registration, Kinds
      <3> QED
        BY <3>1, <3>2, <3>4 DEF TimersInv, TimerAgrees
    <2> QED
      BY <1>10, <2>2, <2>3, <2>4, <2>6, <2>7 DEF Live
  <1>13. CASE Tick
    BY <1>7, <1>13 DEF Tick, elVars
  <1>14. CASE request_exit \/ ReadDescriptor \/ DataArrives \/ UNCHANGED vars
    BY <1>7, <1>14 DEF request_exit, ReadDescriptor, DataArrives, vars, elVars, schedVars
  <1>15. ASSUME NEW c \in Callables, NEW e \in BOOLEAN, set_callback_enabled(c, e) PROVE TimersArmed'
    BY <1>7, <1>15 DEF set_callback_enabled, SetEnabled, schedVars
  <1> QED
    BY <1>1, <1>2, <1>3, <1>5, <1>6, <1>8, <1>9, <1>11, <1>12, <1>13, <1>14, <1>15 DEF Next, Loop

(* The re-arm delay of timer_callback(): while callbacks take no time, and  *)
(* delays are not disabled, every live timer has an event on its way, which *)
(* comes up exactly when the item is due or, when that is over, at once.    *)
THEOREM LibeventTimersArmed ==
    SlowCallbacks = FALSE /\ DisableDelays = FALSE /\ Spec => []TimersArmed
  <1> SUFFICES ASSUME SlowCallbacks = FALSE, DisableDelays = FALSE
               PROVE  Spec => []TimersArmed
    OBVIOUS
  <1>1. Spec => [](ELInv /\ LoopInv)
    BY LibeventImplementsFacade, ELInvariant, LoopInvInit, LoopInvStep, PTL DEF Spec
  <1>2. ELInv /\ LoopInv /\ ItemsInv /\ DueInv /\ [Next]_vars => DueInv'
    BY DueInvStep
  <1>3. ELInv /\ LoopInv /\ ItemsInv /\ DueInv /\ TimersInv /\ [Next]_vars => TimersInv'
    BY TimersStep
  <1>4. ELInv /\ LoopInv /\ ItemsInv /\ DueInv /\ TimersInv /\ TimersInv' /\ TimersArmed /\ [Next]_vars =>
           TimersArmed'
    BY TimersArmedStep
  <1>5. Init => TimersArmed
    BY DEF Init, ELInit, TimersArmed, Live
  <1> QED
    BY <1>1, <1>2, <1>3, <1>4, <1>5, ItemsInvInit, ItemsInvStep, DueInvInit, TimersInvInit, PTL DEF Spec
=============================================================================
