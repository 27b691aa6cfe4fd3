-------------------------- MODULE ArduinoEventLoop --------------------------
(***************************************************************************)
(* EventLoop on the cooperative scheduler of arduino_loop.hpp: an array of *)
(* timer entries that run_once() scans in order, polling each task whose   *)
(* time has come, while the polled callbacks register, remove, enable and  *)
(* disable timers in the very array being scanned.                         *)
(*                                                                         *)
(* tasks holds the first task_count_ elements of tasks_; the array beyond  *)
(* them is kept default-initialised by erase_task().  An entry's active    *)
(* flag is set and cleared together with its task pointer, so an inactive  *)
(* entry is one whose task is NoTask.                                      *)
(*                                                                         *)
(* The clock advances at any moment.  The callbacks of one pass all see    *)
(* the time at which the pass began.                                       *)
(***************************************************************************)
EXTENDS EventLoop, Sequences

CONSTANTS
    MaxTasks,         \* capacity of tasks_
    RawTasks,         \* runtime tasks given directly to add_periodic/add_one_shot
    NoTask,           \* the null task pointer
    Periods,          \* periods the application asks for, in clock units
    Delays,           \* delays the application asks for
    ClockMax,         \* UINT64_MAX in the code: a delay's due time is clamped to it
    MaxTime,          \* bound: the clock stops here
    InCallback,       \* what a callback may register: "nothing", "no_holes" or "anything"
    DisableDelays,    \* may the application disable() delays, and use old handles for it
    MayExit,          \* may the application call request_exit()
    Driver            \* how it drives the loop: by "tick" (or run_once()) or by "run_forever"

ASSUME MaxTasksAssumption == MaxTasks \in Nat \ {0}
ASSUME TaskNamesAssumption == NoTask \notin Slots \cup RawTasks /\ Slots \cap RawTasks = {}
ASSUME ClockAssumption == MaxTime \in Nat /\ ClockMax \in Nat /\ MaxTime <= ClockMax
ASSUME RequestsAssumption == Periods \subseteq Nat /\ Delays \subseteq Nat
ASSUME EnvironmentAssumption ==
    /\ InCallback \in {"nothing", "no_holes", "anything"}
    /\ DisableDelays \in BOOLEAN /\ MayExit \in BOOLEAN
    /\ Driver \in {"tick", "run_forever"}

VARIABLES
    tasks,           \* tasks_[0 .. task_count_ - 1]
    clock,           \* IClock::micros()
    pc,              \* "idle", "scan" (in run_once) or "poll" (in slot.task->poll)
    i,               \* run_once's loop index, counted from 1
    now_us,          \* the time run_once read, kept after the pass
    polled,          \* the task being polled, NoTask outside a poll
    exit_requested,  \* exit_requested_
    promise          \* ghost: per callable, when it was registered, from when on it may run, its period and its runs

schedVars == <<tasks, clock, pc, i, now_us, polled, exit_requested>>
vars == <<elVars, schedVars, promise>>

(* TaskSlot; an entry is periodic when it has a period. *)
Entry == {e \in [task : Slots \cup RawTasks \cup {NoTask}, period_us : Nat, next_due_us : Nat,
                 periodic : BOOLEAN] : e.periodic <=> e.period_us # 0}

Occupied(e) == e.task # NoTask

Init ==
    /\ ELInit
    /\ tasks = <<>>
    /\ clock = 0
    /\ pc = "idle"
    /\ i = 1
    /\ now_us = 0
    /\ polled = NoTask
    /\ exit_requested = FALSE
    /\ promise = [c \in Callables |-> [since |-> 0, from |-> 0, period |-> 0, runs |-> 0]]

-----------------------------------------------------------------------------
(* The task array. *)

(* compact_inactive() erases the inactive entries; the others move up. *)
compact_inactive(ts) ==
    LET kept[n \in 0 .. Len(ts)] ==
          IF n = 0 THEN <<>>
          ELSE IF Occupied(ts[n]) THEN Append(kept[n - 1], ts[n]) ELSE kept[n - 1]
    IN  kept[Len(ts)]

(* add_periodic() and add_one_shot() compact first, whether or not a pass  *)
(* is running, and fail when the array is full or the period is zero.      *)
AddFails(ts, periodic, period) ==
    (periodic /\ period = 0) \/ Len(compact_inactive(ts)) >= MaxTasks

Add(ts, task, periodic, period, due) ==
    IF AddFails(ts, periodic, period)
    THEN compact_inactive(ts)
    ELSE Append(compact_inactive(ts),
                [task |-> task, period_us |-> period, next_due_us |-> due, periodic |-> periodic])

Scheduled(task) == \E k \in 1 .. Len(tasks) : tasks[k].task = task

(* remove(): every entry of the task is cleared; outside a pass they are   *)
(* dropped at once.                                                        *)
Unschedule(ts, task) ==
    LET cleared == [k \in 1 .. Len(ts) |->
                      IF ts[k].task = task THEN [ts[k] EXCEPT !.task = NoTask] ELSE ts[k]]
    IN  IF pc = "idle" THEN compact_inactive(cleared) ELSE cleared

(* Seeded fault: the entry moves to the next point of its grid, even if     *)
(* that has passed too.                                                     *)
NextDue_CatchesUp(e) == e.next_due_us + e.period_us

(* do { next_due_us += period_us; } while (now_us >= next_due_us) *)
NextDue(e) ==
    IF now_us < e.next_due_us
    THEN e.next_due_us + e.period_us
    ELSE e.next_due_us + ((now_us - e.next_due_us) \div e.period_us + 1) * e.period_us

(* Seeded faults: every polled entry is consumed, and none is. *)
AfterPoll_Consumes(ts) ==
    IF i > Len(ts) \/ ~ Occupied(ts[i]) THEN ts ELSE [ts EXCEPT ![i].task = NoTask]
AfterPoll_Keeps(ts) ==
    IF i > Len(ts) \/ ~ Occupied(ts[i]) \/ ~ ts[i].periodic
    THEN ts
    ELSE [ts EXCEPT ![i].next_due_us = NextDue(ts[i])]

(* What run_once() does to its slot reference once poll() has returned: the *)
(* reference names index i, whatever entry has come to lie there.           *)
AfterPoll(ts) ==
    IF i > Len(ts) \/ ~ Occupied(ts[i])
    THEN ts
    ELSE IF ts[i].periodic
         THEN [ts EXCEPT ![i].next_due_us = NextDue(ts[i])]
         ELSE [ts EXCEPT ![i].task = NoTask]

-----------------------------------------------------------------------------
(* Application code, run outside run_once() or inside a callback. *)

AppRuns == pc \in {"idle", "poll"}

(* The restriction InCallback puts on registrations made by callbacks.  A   *)
(* hole is an entry at or before the scanned one that this pass has         *)
(* already consumed or removed: compacting it moves the scanned entries.    *)
Hole == \E k \in 1 .. Len(tasks) : k <= i /\ ~ Occupied(tasks[k])

MayRegister ==
    \/ pc = "idle"
    \/ pc = "poll" /\ InCallback = "anything"
    \/ pc = "poll" /\ InCallback = "no_holes" /\ ~ Hole

(* The outcome of a registration whose task the scheduler is asked to add. *)
RegisterTimer(c, k, period, due, from) ==
    \/ RejectTableFull(c) /\ UNCHANGED <<tasks, promise>>
    \/ \E s \in Slots : RejectBusySlot(c, s) /\ UNCHANGED <<tasks, promise>>
    \/ \E s \in Slots :
         /\ IF AddFails(tasks, k = "repeat", period)
            THEN RejectUnscheduled(c, s) /\ UNCHANGED promise
            ELSE /\ Accept(c, k, s)
                 /\ promise' = [promise EXCEPT ![c] =
                                  [since |-> clock, from |-> from, period |-> period, runs |-> 0]]
         /\ tasks' = Add(tasks, s, k = "repeat", period, due)

on_repeat_us(c, period) ==
    /\ MayRegister
    /\ RegisterTimer(c, "repeat", period, clock, clock)
    /\ UNCHANGED <<clock, pc, i, now_us, polled, exit_requested>>

DelayDue(delay) == IF delay > ClockMax - clock THEN ClockMax ELSE clock + delay

on_delay_us(c, delay) ==
    /\ MayRegister
    /\ RegisterTimer(c, "delay", 0, DelayDue(delay), DelayDue(delay))
    /\ UNCHANGED <<clock, pc, i, now_us, polled, exit_requested>>

(* remove(handle) fails without effect when the handle is not valid, and   *)
(* also when the scheduler holds no entry for the slot.                    *)
remove(c) ==
    LET h == regs[c].handle
    IN  /\ AppRuns
        /\ valid(h) /\ Scheduled(h.slot)
        /\ Remove(h)
        /\ tasks' = Unschedule(tasks, h.slot)
        /\ UNCHANGED <<clock, pc, i, now_us, polled, exit_requested, promise>>

set_callback_enabled(c, e) ==
    /\ AppRuns
    /\ e \/ DisableDelays \/ (Live(c) /\ regs[c].kind = "repeat")
    /\ SetEnabled(regs[c].handle, e)
    /\ UNCHANGED <<schedVars, promise>>

(* A runtime task of the application's own, polled like a slot's task; the *)
(* application schedules it again only when it is not scheduled.           *)
add_raw(r, periodic, period, due) ==
    /\ MayRegister
    /\ ~ Scheduled(r)
    /\ tasks' = Add(tasks, r, periodic, period, due)
    /\ UNCHANGED <<elVars, clock, pc, i, now_us, polled, exit_requested, promise>>

request_exit ==
    /\ AppRuns /\ MayExit /\ ~ exit_requested
    /\ exit_requested' = TRUE
    /\ UNCHANGED <<elVars, tasks, clock, pc, i, now_us, polled, promise>>

-----------------------------------------------------------------------------
(* run_once(); of its callers only run_forever() looks at exit_requested_. *)

BeginPass ==
    /\ pc = "idle"
    /\ Driver = "run_forever" => ~ exit_requested
    /\ pc' = "scan"
    /\ i' = 1
    /\ tasks' = compact_inactive(tasks)
    /\ now_us' = clock
    /\ UNCHANGED <<elVars, clock, polled, exit_requested, promise>>

(* Seeded fault: the due time must have passed. *)
Due_Late(e) == Occupied(e) /\ now_us > e.next_due_us

Due(e) == Occupied(e) /\ now_us >= e.next_due_us

SkipEntry ==
    /\ pc = "scan" /\ i <= Len(tasks)
    /\ ~ Due(tasks[i])
    /\ i' = i + 1
    /\ UNCHANGED <<elVars, tasks, clock, pc, now_us, polled, exit_requested, promise>>

(* The callable of a slot's task, or a runtime task, starts to run. *)
PollEntry ==
    /\ pc = "scan" /\ i <= Len(tasks)
    /\ Due(tasks[i])
    /\ \/ /\ tasks[i].task \in RawTasks
          /\ UNCHANGED <<elVars, promise>>
       \/ /\ tasks[i].task \in Slots
          /\ PollEnter(tasks[i].task)
          /\ promise' = [promise EXCEPT ![callback_tasks[tasks[i].task].stored].runs = @ + 1]
    /\ pc' = "poll"
    /\ polled' = tasks[i].task
    /\ UNCHANGED <<tasks, clock, i, now_us, exit_requested>>

(* CallbackTask::poll() of a disabled or cleared task returns at once. *)
PollNothing ==
    /\ pc = "scan" /\ i <= Len(tasks)
    /\ Due(tasks[i])
    /\ tasks[i].task \in Slots
    /\ ~ poll_runs(callback_tasks[tasks[i].task])
    /\ tasks' = AfterPoll(tasks)
    /\ i' = i + 1
    /\ UNCHANGED <<elVars, clock, pc, now_us, polled, exit_requested, promise>>

PollReturns ==
    /\ pc = "poll"
    /\ IF polled \in Slots THEN PollLeave(polled) ELSE UNCHANGED elVars
    /\ tasks' = AfterPoll(tasks)
    /\ i' = i + 1
    /\ pc' = "scan"
    /\ polled' = NoTask
    /\ UNCHANGED <<clock, now_us, exit_requested, promise>>

EndPass ==
    /\ pc = "scan" /\ i > Len(tasks)
    /\ pc' = "idle"
    /\ i' = 1
    /\ tasks' = compact_inactive(tasks)
    /\ UNCHANGED <<elVars, clock, now_us, polled, exit_requested, promise>>

Scan == BeginPass \/ SkipEntry \/ PollEntry \/ PollNothing \/ PollReturns \/ EndPass

(* Time passes. *)
Tick ==
    /\ clock < MaxTime
    /\ clock' = clock + 1
    /\ UNCHANGED <<elVars, tasks, pc, i, now_us, polled, exit_requested, promise>>

-----------------------------------------------------------------------------
Next ==
    \/ \E c \in Callables, p \in Periods : on_repeat_us(c, p)
    \/ \E c \in Callables, d \in Delays : on_delay_us(c, d)
    \/ \E c \in Callables : remove(c)
    \/ \E c \in Callables, e \in BOOLEAN : set_callback_enabled(c, e)
    \/ \E r \in RawTasks, p \in Periods : add_raw(r, TRUE, p, clock)
    \/ \E r \in RawTasks, d \in Delays : add_raw(r, FALSE, 0, DelayDue(d))
    \/ request_exit
    \/ Scan
    \/ Tick

Spec == Init /\ [][Next]_vars

(* The application keeps calling tick() or sits in run_forever(), callbacks *)
(* return, and the clock goes on.                                           *)
FairSpec == Spec /\ WF_vars(Scan) /\ WF_vars(Tick)

-----------------------------------------------------------------------------
(* A registration the application still holds can be removed: remove()     *)
(* needs an entry of the slot in the task array and returns false without  *)
(* one, and then nothing ever reclaims the slot.                           *)
RemovableWhileLive == \A c \in Callables : Live(c) => Scheduled(regs[c].handle.slot)

(* The array has one entry per live registration and none for a slot that  *)
(* was released, so no entry polls a later owner of its slot.              *)
EntriesMatchRegistrations ==
    \A k \in 1 .. Len(tasks) : tasks[k].task \in Slots =>
        /\ callback_used[tasks[k].task]
        /\ \A j \in 1 .. Len(tasks) : tasks[j].task = tasks[k].task => j = k

EntriesOf(c) == {k \in 1 .. Len(tasks) : Live(c) /\ tasks[k].task = regs[c].handle.slot}

NextDueOf(c) == IF EntriesOf(c) = {} THEN 0
                ELSE tasks[CHOOSE k \in EntriesOf(c) : TRUE].next_due_us

(* Every delay whose time comes is run or removed. *)
DelayCompletes ==
    \A c \in Callables :
        Live(c) /\ regs[c].kind = "delay" /\ promise[c].from <= MaxTime ~> ~ Live(c)

(* A repeating callback that is due runs, unless it is disabled or removed  *)
(* first: no other callback, however often it runs or registers more work,  *)
(* starves it.                                                              *)
RepeatRuns ==
    \A c \in Callables, n \in 0 .. MaxTime :
        LET task == callback_tasks[regs[c].handle.slot]
        IN  /\ Live(c) /\ regs[c].kind = "repeat" /\ task.enabled /\ ~ task.invoking
            /\ NextDueOf(c) <= clock /\ promise[c].runs = n
            ~> ~ Live(c) \/ ~ task.enabled \/ promise[c].runs > n

-----------------------------------------------------------------------------
(* The promise kept: the entry of a live registration carries its due time. *)

StatusOf(c) == IF regs[c].phase \in {"new", "live"} THEN regs[c].phase ELSE "over"
OnOf(c) == Live(c) /\ callback_tasks[regs[c].handle.slot].enabled
PeriodOf(c) == IF Live(c) THEN promise[c].period ELSE 0
RunningTimer == IF polled \in Slots THEN callback_tasks[polled].stored ELSE NoCallable

Service == INSTANCE TimerService WITH
    Idle <- NoCallable,
    Times <- 0 .. ClockMax,
    CatchesUp <- FALSE,
    seen <- now_us,
    status <- [c \in Callables |-> StatusOf(c)],
    on <- [c \in Callables |-> OnOf(c)],
    period <- [c \in Callables |-> PeriodOf(c)],
    due <- [c \in Callables |-> NextDueOf(c)],
    running <- RunningTimer

(* The cooperative scheduler implements the timer service: what the task    *)
(* array, the slot table and the scan in progress do together is a start,   *)
(* a firing, a return, ... of the service, or invisible.  It leaves missed  *)
(* points out: a pass that comes late runs a repeating callback once and    *)
(* puts it beyond the time of the pass.                                     *)
ImplementsTimerService == Service!Spec

-----------------------------------------------------------------------------
(* Why: the inductive invariants, as long as callbacks register nothing     *)
(* where that moves the entry being polled.                                 *)

Promise == [since : Nat, from : Nat, period : Nat, runs : Nat]

SchedTypeOK ==
    /\ tasks \in Seq(Entry)
    /\ clock \in 0 .. MaxTime /\ now_us \in 0 .. clock
    /\ pc \in {"idle", "scan", "poll"}
    /\ i \in Nat \ {0}
    /\ polled \in Slots \cup RawTasks \cup {NoTask}
    /\ promise \in [Callables -> Promise]

(* An entry of a slot's task is what its registration asked for; a task has *)
(* one entry.                                                               *)
Serves(e, c) ==
    /\ Live(c) /\ regs[c].handle.slot = e.task
    /\ e.periodic <=> regs[c].kind = "repeat"
    /\ e.period_us = promise[c].period

OneEach(ts) ==
    \A j, k \in 1 .. Len(ts) : ts[j].task = ts[k].task /\ Occupied(ts[k]) => j = k

EntriesServe ==
    \A k \in 1 .. Len(tasks) :
        tasks[k].task \in Slots => \E c \in Callables : Serves(tasks[k], c)

(* The task being polled is the one being invoked, and the entry scanned is *)
(* its entry, which was due, or empty once its registration is over.        *)
PollAgrees ==
    /\ pc = "poll" <=> polled # NoTask
    /\ \A s \in Slots : callback_tasks[s].invoking <=> polled = s
    /\ pc = "poll" =>
         /\ i <= Len(tasks)
         /\ IF polled \in Slots /\ ~ callback_used[polled]
            THEN ~ Occupied(tasks[i])
            ELSE tasks[i].task = polled /\ tasks[i].next_due_us <= now_us

TasksInv == OneEach(tasks) /\ EntriesServe /\ PollAgrees

(* While delays are not disabled: a live registration has its entry, and a  *)
(* live delay is enabled.                                                   *)
TimerAgrees(c) ==
    Live(c) =>
        /\ Scheduled(regs[c].handle.slot)
        /\ regs[c].kind = "delay" => callback_tasks[regs[c].handle.slot].enabled

TimersInv == \A c \in Callables : TimerAgrees(c)
=============================================================================
