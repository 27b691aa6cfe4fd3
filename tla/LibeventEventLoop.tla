------------------------- MODULE LibeventEventLoop -------------------------
(***************************************************************************)
(* EventLoop on the libevent scheduler of libevent_loop.hpp.  Every        *)
(* registration owns a heap item (TimerEvent or FdEvent) that libevent     *)
(* hands back to the scheduler's callback.  An item removed while a        *)
(* callback runs is only marked; items are freed when callback_depth_ is   *)
(* zero.                                                                   *)
(*                                                                         *)
(* A callable is registered once, so its item is named after it.           *)
(* periodic_events_, one_shot_events_ and fd_events_ together are the      *)
(* items that are allocated; their order is immaterial.                    *)
(*                                                                         *)
(* libevent itself is external: a set of pending deadlines, a set of       *)
(* activated events worked off in any order, and a time that is read when  *)
(* an iteration starts and kept until it ends.  A timeout added during the *)
(* iteration counts from that cached time.                                 *)
(***************************************************************************)
EXTENDS EventLoop

CONSTANTS
    NoTask,          \* the null task pointer
    NotPending,      \* an event without a pending timeout
    Periods,         \* periods the application asks for, in clock units
    Delays,          \* delays the application asks for
    ClockMax,        \* UINT64_MAX in the code
    MaxTime,         \* bound: the clock stops here
    SlowCallbacks,   \* may time pass while the loop dispatches callbacks
    DisableDelays,   \* may the application disable() delays, and use old handles for it
    MayExit          \* may a callback call request_exit()

ASSUME LibeventNamesAssumption == NoTask \notin Slots /\ NotPending \notin Nat
ASSUME LibeventClockAssumption == MaxTime \in Nat /\ ClockMax \in Nat /\ MaxTime <= ClockMax
ASSUME LibeventRequestsAssumption == Periods \cup Delays \subseteq 0 .. ClockMax
ASSUME LibeventEnvironmentAssumption ==
    SlowCallbacks \in BOOLEAN /\ DisableDelays \in BOOLEAN /\ MayExit \in BOOLEAN

VARIABLES
    items,           \* per callable: its TimerEvent or FdEvent
    callback_depth,  \* callback_depth_
    pending,         \* external: deadline of each event, or NotPending
    active,          \* external: events activated and not yet dispatched
    readable,        \* external: callables whose descriptor has data
    cached,          \* external: libevent's time during an iteration, of no effect outside
    broken,          \* external: event_base_loopbreak() was called
    pc,              \* "idle", "dispatch" (in event_base_loop) or "callback"
    current,         \* the callable whose item the running callback got, or NoCallable
    clock,           \* IClock::micros()
    promise          \* ghost: what was asked for and how often it ran

schedVars == <<items, callback_depth, pending, active, readable, cached, broken, pc, current, clock>>
vars == <<elVars, schedVars, promise>>

Item == [allocated : BOOLEAN, fd : BOOLEAN, task : Slots \cup {NoTask}, period_us : Nat,
         next_due_us : Nat, periodic : BOOLEAN, removed : BOOLEAN]

NoItem == [allocated |-> FALSE, fd |-> FALSE, task |-> NoTask, period_us |-> 0,
           next_due_us |-> 0, periodic |-> FALSE, removed |-> FALSE]

(* The items that add_periodic()/add_one_shot() and add_read_fd() fill in,  *)
(* apart from the task.                                                     *)
TimerItem(periodic, period, due) ==
    [allocated |-> TRUE, fd |-> FALSE, task |-> NoTask, period_us |-> period,
     next_due_us |-> due, periodic |-> periodic, removed |-> FALSE]

FdItem == [allocated |-> TRUE, fd |-> TRUE, task |-> NoTask, period_us |-> 0,
           next_due_us |-> 0, periodic |-> FALSE, removed |-> FALSE]

Init ==
    /\ ELInit
    /\ items = [c \in Callables |-> NoItem]
    /\ callback_depth = 0
    /\ pending = [c \in Callables |-> NotPending]
    /\ active = {}
    /\ readable = {}
    /\ cached = 0
    /\ broken = FALSE
    /\ pc = "idle"
    /\ current = NoCallable
    /\ clock = 0
    /\ promise = [c \in Callables |-> [since |-> 0, from |-> 0, period |-> 0, runs |-> 0]]

-----------------------------------------------------------------------------
(* The items. *)

(* Seeded fault: items are freed whatever the callback depth. *)
Doomed_AnyDepth(its, depth) == {c \in Callables : its[c].allocated /\ its[c].removed}

(* compact_removed_events(), given the items its caller leaves behind and   *)
(* the callback depth: event_free() also takes an event out of libevent.    *)
Doomed(its, depth) == IF depth = 0 THEN {c \in Callables : its[c].allocated /\ its[c].removed} ELSE {}

compact_removed_events(its, pend, act, depth) ==
    LET D == Doomed(its, depth)
    IN  /\ items' = [c \in Callables |-> IF c \in D THEN NoItem ELSE its[c]]
        /\ pending' = [c \in Callables |-> IF c \in D THEN NotPending ELSE pend[c]]
        /\ active' = act \ D

(* IScheduler::remove(): every item of the task is marked. *)
MarkRemoved(its, s) ==
    [c \in Callables |-> IF its[c].allocated /\ its[c].task = s
                         THEN [its[c] EXCEPT !.removed = TRUE, !.task = NoTask] ELSE its[c]]

Scheduled(s) == \E c \in Callables : items[c].allocated /\ items[c].task = s

(* The time libevent counts a relative timeout from. *)
Base == IF pc = "idle" THEN clock ELSE cached

(* Seeded fault: the lateness is not made up for. *)
periodic_timer_next_delay_us_Full(next_due, period, now) == period

(* detail::periodic_timer_next_delay_us(), apart from its update of next_due_us. *)
periodic_timer_next_delay_us(next_due, period, now) ==
    LET overdue == IF now > next_due THEN now - next_due ELSE 0
    IN  IF period > overdue THEN period - overdue ELSE 0

-----------------------------------------------------------------------------
(* Application code, run outside the loop or inside a callback. *)

AppRuns == pc \in {"idle", "callback"}

(* A registration whose item is "item", its timeout "delay" from now on (or  *)
(* NotPending for a descriptor).  add_*() compacts before it looks at its    *)
(* arguments.                                                                *)
RegisterItem(c, k, item, ok, delay, from) ==
    /\ AppRuns
    /\ \/ /\ RejectTableFull(c) \/ \E s \in Slots : RejectBusySlot(c, s)
          /\ UNCHANGED <<items, pending, active, promise>>
       \/ \E s \in Slots :
            IF ok
            THEN /\ Accept(c, k, s)
                 /\ compact_removed_events(
                      [items EXCEPT ![c] = [item EXCEPT !.task = s]],
                      [pending EXCEPT ![c] = IF delay = NotPending THEN NotPending ELSE Base + delay],
                      active, callback_depth)
                 /\ promise' = [promise EXCEPT ![c] =
                                  [since |-> clock, from |-> from, period |-> item.period_us, runs |-> 0]]
            ELSE /\ RejectUnscheduled(c, s)
                 /\ compact_removed_events(items, pending, active, callback_depth)
                 /\ UNCHANGED promise
    /\ UNCHANGED <<callback_depth, readable, cached, broken, pc, current, clock>>

on_repeat_us(c, period) ==
    RegisterItem(c, "repeat", TimerItem(TRUE, period, clock + period),
                 period # 0, period, clock + period)

DelayDue(delay) == IF delay > ClockMax - clock THEN ClockMax ELSE clock + delay

on_delay_us(c, delay) ==
    RegisterItem(c, "delay", TimerItem(FALSE, 0, DelayDue(delay)),
                 TRUE, DelayDue(delay) - clock, DelayDue(delay))

(* on_bytes_ready() and on_pin_event() of a source with a descriptor. *)
on_readable(c) == RegisterItem(c, "repeat", FdItem, TRUE, NotPending, clock)

remove(c) ==
    LET h == regs[c].handle
    IN  /\ AppRuns
        /\ valid(h) /\ Scheduled(h.slot)
        /\ Remove(h)
        /\ compact_removed_events(MarkRemoved(items, h.slot), pending, active, callback_depth)
        /\ UNCHANGED <<callback_depth, readable, cached, broken, pc, current, clock, promise>>

set_callback_enabled(c, e) ==
    /\ AppRuns
    /\ e \/ DisableDelays \/ (Live(c) /\ regs[c].kind = "repeat")
    /\ SetEnabled(regs[c].handle, e)
    /\ UNCHANGED <<schedVars, promise>>

(* event_base_loopbreak(): a break requested outside the loop is forgotten  *)
(* when the loop is entered.                                                *)
request_exit ==
    /\ pc = "callback" /\ MayExit /\ ~ broken
    /\ broken' = TRUE
    /\ UNCHANGED <<elVars, items, callback_depth, pending, active, readable, cached, pc, current,
                   clock, promise>>

(* The callback reads what its descriptor offers. *)
ReadDescriptor ==
    /\ pc = "callback" /\ current \in readable
    /\ readable' = readable \ {current}
    /\ UNCHANGED <<elVars, items, callback_depth, pending, active, cached, broken, pc, current,
                   clock, promise>>

-----------------------------------------------------------------------------
(* One iteration of event_base_loop(). *)

(* The timers in "due" and the descriptors in "ready" are activated. *)
IterationWith(due, ready) ==
    /\ pc = "idle"
    /\ pc' = "dispatch"
    /\ cached' = clock
    /\ broken' = FALSE
    /\ active' = active \cup due \cup ready
    /\ pending' = [c \in Callables |-> IF c \in due THEN NotPending ELSE pending[c]]
    /\ UNCHANGED <<elVars, items, callback_depth, readable, current, clock, promise>>

(* Seeded faults: timers fire a unit of time early, a due timer is not       *)
(* noticed, a ready descriptor is not noticed.                               *)
BeginIteration_Early ==
    IterationWith({c \in Callables : pending[c] # NotPending /\ pending[c] <= clock + 1},
                  {c \in readable : items[c].allocated /\ items[c].fd})
BeginIteration_Late ==
    IterationWith({c \in Callables : pending[c] # NotPending /\ pending[c] < clock},
                  {c \in readable : items[c].allocated /\ items[c].fd})
BeginIteration_Deaf ==
    IterationWith({c \in Callables : pending[c] # NotPending /\ pending[c] <= clock}, {})

BeginIteration ==
    IterationWith({c \in Callables : pending[c] # NotPending /\ pending[c] <= clock},
                  {c \in readable : items[c].allocated /\ items[c].fd})

(* Seeded fault: a one-shot timer that has run is not marked removed. *)
AfterPoll_KeepsOneShot(c) ==
    LET item == items[c]
        rearm == ~ item.fd /\ ~ item.removed /\ item.periodic
        delay == periodic_timer_next_delay_us(item.next_due_us, item.period_us, clock)
        after == IF rearm THEN [item EXCEPT !.next_due_us = @ + item.period_us] ELSE item
    IN  compact_removed_events([items EXCEPT ![c] = after],
                               [pending EXCEPT ![c] = IF rearm THEN cached + delay ELSE @],
                               active \ {c}, 0)

(* timer_callback() and fd_callback() after poll() has returned. *)
AfterPoll(c) ==
    LET item == items[c]
        rearm == ~ item.fd /\ ~ item.removed /\ item.periodic
        delay == periodic_timer_next_delay_us(item.next_due_us, item.period_us, clock)
        after == IF rearm THEN [item EXCEPT !.next_due_us = @ + item.period_us]
                 ELSE IF item.fd \/ item.periodic THEN item
                 ELSE [item EXCEPT !.removed = TRUE, !.task = NoTask]
    IN  compact_removed_events([items EXCEPT ![c] = after],
                               [pending EXCEPT ![c] = IF rearm THEN cached + delay ELSE @],
                               active \ {c}, 0)

(* timer_callback() or fd_callback() up to the callable ... *)
EnterCallback(c) ==
    /\ pc = "dispatch" /\ ~ broken /\ c \in active
    /\ ~ items[c].removed /\ items[c].task # NoTask
    /\ PollEnter(items[c].task)
    /\ callback_depth' = callback_depth + 1
    /\ active' = active \ {c}
    /\ pc' = "callback"
    /\ current' = c
    /\ promise' = [promise EXCEPT ![c].runs = IF items[c].fd THEN 0 ELSE @ + 1]
    /\ UNCHANGED <<items, pending, readable, cached, broken, clock>>

(* ... or to the end when the task is disabled ... *)
PollNothing(c) ==
    /\ pc = "dispatch" /\ ~ broken /\ c \in active
    /\ ~ items[c].removed /\ items[c].task # NoTask
    /\ ~ poll_runs(callback_tasks[items[c].task])
    /\ AfterPoll(c)
    /\ UNCHANGED <<elVars, callback_depth, readable, cached, broken, pc, current, clock, promise>>

(* Seeded fault: leave_callback() forgets to count down. *)
LeaveCallback_NoDecrement ==
    /\ pc = "callback"
    /\ \E s \in Invoking : PollLeave(s)
    /\ AfterPoll(current)
    /\ pc' = "dispatch"
    /\ current' = NoCallable
    /\ UNCHANGED <<callback_depth, readable, cached, broken, clock, promise>>

(* ... and from the callable's return on. *)
LeaveCallback ==
    /\ pc = "callback"
    /\ \E s \in Invoking : PollLeave(s)
    /\ callback_depth' = callback_depth - 1
    /\ AfterPoll(current)
    /\ pc' = "dispatch"
    /\ current' = NoCallable
    /\ UNCHANGED <<readable, cached, broken, clock, promise>>

(* The iteration ends when nothing is active or the loop was broken out of; *)
(* run_once() and run_forever() compact once more.                          *)
EndIteration ==
    /\ pc = "dispatch" /\ (active = {} \/ broken)
    /\ pc' = "idle"
    /\ compact_removed_events(items, pending, active, callback_depth)
    /\ UNCHANGED <<elVars, callback_depth, readable, cached, broken, current, clock, promise>>

Loop ==
    \/ BeginIteration \/ LeaveCallback \/ EndIteration
    \/ \E c \in Callables : EnterCallback(c) \/ PollNothing(c)

-----------------------------------------------------------------------------
(* The environment: data arrives on a registered descriptor, time passes. *)

DataArrives ==
    /\ \E c \in Callables : items[c].allocated /\ items[c].fd /\ readable' = readable \cup {c}
    /\ UNCHANGED <<elVars, items, callback_depth, pending, active, cached, broken, pc, current,
                   clock, promise>>

Tick ==
    /\ clock < MaxTime
    /\ pc = "idle" \/ SlowCallbacks
    /\ clock' = clock + 1
    /\ UNCHANGED <<elVars, items, callback_depth, pending, active, readable, cached, broken, pc,
                   current, promise>>

Next ==
    \/ \E c \in Callables, p \in Periods : on_repeat_us(c, p)
    \/ \E c \in Callables, d \in Delays : on_delay_us(c, d)
    \/ \E c \in Callables : on_readable(c) \/ remove(c)
    \/ \E c \in Callables, e \in BOOLEAN : set_callback_enabled(c, e)
    \/ request_exit
    \/ ReadDescriptor
    \/ Loop
    \/ DataArrives
    \/ Tick

Spec == Init /\ [][Next]_vars

(* The application sits in run_forever() or keeps calling run_once(),       *)
(* callbacks return, and the clock goes on, if only between iterations.     *)
FairSpec == Spec /\ WF_vars(Loop) /\ SF_vars(Tick)

-----------------------------------------------------------------------------
SchedTypeOK ==
    /\ items \in [Callables -> Item]
    /\ callback_depth \in 0 .. 1
    /\ pending \in [Callables -> Nat \cup {NotPending}]
    /\ active \subseteq Callables /\ readable \subseteq Callables
    /\ cached \in 0 .. clock /\ clock \in 0 .. MaxTime
    /\ broken \in BOOLEAN
    /\ pc \in {"idle", "dispatch", "callback"}
    /\ current \in Callables \cup {NoCallable}
    /\ promise \in [Callables -> [since : Nat, from : Nat, period : Nat, runs : Nat]]

(* The types: one callback is in progress at most, its depth counted. *)
TypeOK == ELTypeOK /\ SchedTypeOK

(* callback_depth_ counts the callback in progress, and libevent knows      *)
(* which one that is: what makes the type invariant inductive.              *)
DepthMatches ==
    /\ callback_depth = IF pc = "callback" THEN 1 ELSE 0
    /\ pc = "callback" <=> current # NoCallable

(* The item a running callback was called with is not freed under it, nor   *)
(* does libevent hold an event whose item is gone, although callbacks       *)
(* remove their own and other registrations and every call tidies up.       *)
NoDanglingItem ==
    /\ pc = "callback" => items[current].allocated
    /\ \A c \in Callables : pending[c] # NotPending \/ c \in active => items[c].allocated

(* An item that is not marked removed belongs to the live registration it   *)
(* was made for, so it never polls a later owner of its slot; and outside   *)
(* callbacks nothing marked removed is still there.                         *)
ItemsMatchRegistrations ==
    \A c \in Callables : items[c].allocated =>
        /\ ~ items[c].removed => Live(c) /\ items[c].task = regs[c].handle.slot
        /\ items[c].removed => pc = "callback"

(* The inductive invariant behind the two: which registration an item       *)
(* belongs to, that events have items, and that the callable on the stack   *)
(* is the one whose item libevent handed out.                               *)
Owned(item, c) ==
    /\ Live(c) /\ item.task = regs[c].handle.slot
    /\ regs[c].kind = "delay" => ~ item.fd /\ ~ item.periodic

ItemAgrees(c) ==
    items[c].allocated =>
        IF items[c].removed THEN pc = "callback" /\ Over(c) ELSE Owned(items[c], c)

EventHasItem(c) ==
    pending[c] # NotPending \/ c \in active \/ (pc = "callback" /\ c = current) => items[c].allocated

ExecutingIsCurrent ==
    \A s \in Slots : callback_tasks[s].invoking => pc = "callback" /\ callback_tasks[s].stored = current

ItemsInv ==
    /\ \A c \in Callables : ItemAgrees(c) /\ EventHasItem(c)
    /\ ExecutingIsCurrent

(* While delays are not disabled: a live registration has its item, which   *)
(* says what was asked for.                                                 *)
TimerAgrees(c) ==
    /\ Live(c) => items[c].allocated /\ ~ items[c].removed
    /\ ~ items[c].allocated => items[c] = NoItem
    /\ Live(c) /\ ~ items[c].fd =>
         /\ items[c].period_us = promise[c].period
         /\ items[c].periodic <=> regs[c].kind = "repeat"
         /\ items[c].periodic <=> items[c].period_us # 0
         /\ items[c].periodic \/ callback_tasks[regs[c].handle.slot].enabled

TimersInv == \A c \in Callables : TimerAgrees(c)

(* While callbacks take no time: a timer's event comes up when its item is  *)
(* due, and that is not before what was asked for.                          *)
DueAgrees(c) ==
    items[c].allocated /\ ~ items[c].removed /\ ~ items[c].fd =>
        /\ items[c].next_due_us >= promise[c].from
        /\ pending[c] # NotPending => pending[c] >= items[c].next_due_us
        /\ c \in active \/ c = current => items[c].next_due_us <= clock

DueInv ==
    /\ pc # "idle" => cached = clock
    /\ \A c \in Callables : DueAgrees(c)

(* While callbacks take no time: a live timer is on its way, as a pending   *)
(* event or one that libevent is working off, and its event comes up when   *)
(* its item is due, or as soon as it was armed when that is over: the re-arm *)
(* delay makes up for lateness, neither negative nor adding up.             *)
Armed(c) ==
    \/ c \in active
    \/ pc = "callback" /\ c = current
    \/ /\ pending[c] # NotPending
       /\ items[c].next_due_us <= pending[c]
       /\ pending[c] <= items[c].next_due_us \/ pending[c] <= clock

TimersArmed == \A c \in Callables : Live(c) /\ ~ items[c].fd => Armed(c)

(* No timer callback starts before the time its registration asked for. *)
NeverEarly ==
    [][\A c \in Callables : promise'[c].runs > promise[c].runs => clock >= promise[c].from]_vars

(* Every delay whose time comes is run or removed, unless the application   *)
(* breaks the loop off again and again.                                     *)
DelayCompletes ==
    []<><<request_exit>>_vars \/ \A c \in Callables :
        Live(c) /\ regs[c].kind = "delay" /\ promise[c].from <= MaxTime ~> ~ Live(c)

(* Data on a descriptor whose callback is registered and enabled is read,   *)
(* unless the callback is disabled or removed first.                        *)
DataServed ==
    []<><<request_exit>>_vars \/ \A c \in Callables :
        c \in readable /\ Live(c) /\ callback_tasks[regs[c].handle.slot].enabled ~>
            \/ ~ Live(c) \/ ~ callback_tasks[regs[c].handle.slot].enabled
            \/ pc = "callback" /\ current = c

-----------------------------------------------------------------------------
(* Timers as the timer service sees them; descriptors do not concern it. *)

Timed(c) == Live(c) /\ ~ items[c].fd

StatusOf(c) == CASE items[c].fd -> "over"
                 [] ~ items[c].fd /\ regs[c].phase \in {"new", "live"} -> regs[c].phase
                 [] OTHER -> "over"
OnOf(c) == Timed(c) /\ callback_tasks[regs[c].handle.slot].enabled
PeriodOf(c) == IF Timed(c) THEN promise[c].period ELSE 0
DueOf(c) == IF Timed(c) THEN items[c].next_due_us ELSE 0
RunningTimer == IF current # NoCallable /\ items[current].fd THEN NoCallable ELSE current

Service == INSTANCE TimerService WITH
    Idle <- NoCallable,
    Times <- 0 .. ClockMax + MaxTime,
    CatchesUp <- TRUE,
    seen <- cached,
    status <- [c \in Callables |-> StatusOf(c)],
    on <- [c \in Callables |-> OnOf(c)],
    period <- [c \in Callables |-> PeriodOf(c)],
    due <- [c \in Callables |-> DueOf(c)],
    running <- RunningTimer

(* As long as callbacks take no time, the libevent loop implements the      *)
(* timer service too, with the other policy: AfterPoll moves an item to the *)
(* next point of its grid, and re-arms it at once when that has passed.     *)
ImplementsTimerService == Service!Spec
=============================================================================
