----------------------------- MODULE EventLoop -----------------------------
(***************************************************************************)
(* The application-facing facade of async_event_loop/event_loop.hpp: a     *)
(* fixed table of callback slots, each with a generation counter, handed   *)
(* out to the application as (slot, generation) handles.                   *)
(*                                                                         *)
(* The scheduler behind it is left arbitrary here: add_* may accept or     *)
(* refuse, remove may or may not find the task, and any task may be polled *)
(* at any time.  Application code runs between polls and inside callbacks; *)
(* it may use every handle it was ever given, stale ones included.  A      *)
(* callback does not run the loop recursively, so one task at most is      *)
(* being invoked.  ArduinoEventLoop and LibeventEventLoop put the two real *)
(* schedulers in place of the arbitrary one.                               *)
(*                                                                         *)
(* Each callable is registered once, so Callables bounds the number of     *)
(* registrations of a behaviour.                                           *)
(***************************************************************************)
EXTENDS CallbackTask, Naturals

CONSTANTS MaxCallbacks,  \* number of callback slots
          GenMod         \* 2^16 in the code: the width of a generation

ASSUME MaxCallbacksAssumption == MaxCallbacks \in Nat \ {0}
ASSUME GenModAssumption == GenMod \in Nat \ {0}

VARIABLES
    callback_used,         \* callback_used_
    callback_generations,  \* callback_generations_
    callback_tasks,        \* callback_tasks_
    regs,                  \* per callable: its registration, as the application knows it
    releases,              \* ghost: how often each slot was released
    destroyed              \* ghost: how often each stored callable was destroyed

elVars == <<callback_used, callback_generations, callback_tasks, regs, releases, destroyed>>

Slots == 0 .. MaxCallbacks - 1

(* EventHandle; EventHandle{} names a slot no table has. *)
Handle == [slot : Nat, generation : Nat]
NoHandle == [slot |-> MaxCallbacks, generation |-> 0]
assigned(h) == h.slot # MaxCallbacks

Kinds == {"repeat", "delay"}
Phases == {"new", "live", "removed", "done", "rejected"}

(* A registration: its kind, the handle returned for it, and (ghost) where *)
(* in its life it is and how often its slot had been released before.      *)
Registration == [phase : Phases, kind : Kinds, handle : Handle, epoch : Nat]

ELInit ==
    /\ callback_used = [s \in Slots |-> FALSE]
    /\ callback_generations = [s \in Slots |-> 0]
    /\ callback_tasks = [s \in Slots |-> EmptyTask]
    /\ regs = [c \in Callables |-> [phase |-> "new", kind |-> "repeat",
                                    handle |-> NoHandle, epoch |-> 0]]
    /\ releases = [s \in Slots |-> 0]
    /\ destroyed = [c \in Callables |-> 0]

-----------------------------------------------------------------------------
(* valid(EventHandle) *)
valid(h) ==
    /\ assigned(h)
    /\ h.slot < MaxCallbacks
    /\ callback_used[h.slot]
    /\ callback_tasks[h.slot].active
    /\ callback_generations[h.slot] = h.generation

(* Seeded faults: a generation that never wraps, and one that never moves. *)
NextGeneration_Unbounded(g) == g + 1
NextGeneration_Stuck(g) == g

(* ++callback_generations_[slot], a uint16_t. *)
NextGeneration(g) == IF g + 1 = GenMod THEN 0 ELSE g + 1

(* Seeded fault: the scan takes a slot that is in use. *)
FirstUnused_Used(s) == \A t \in Slots : t < s => callback_used[t]

(* The slot that the scans of allocate_callback() and on_delay_us() stop at. *)
FirstUnused(s) == ~ callback_used[s] /\ \A t \in Slots : t < s => callback_used[t]

Invoking == {s \in Slots : callback_tasks[s].invoking}

CountDestroyed(D) == destroyed' = [c \in Callables |-> destroyed[c] + IF c \in D THEN 1 ELSE 0]

-----------------------------------------------------------------------------
(* Registration.  The four outcomes of on_repeat_us(), on_delay_us(),      *)
(* on_bytes_ready() and on_pin_event().                                    *)

Reject(c) == regs' = [regs EXCEPT ![c].phase = "rejected"]

(* Every slot is used. *)
RejectTableFull(c) ==
    /\ regs[c].phase = "new"
    /\ \A s \in Slots : callback_used[s]
    /\ Reject(c)
    /\ UNCHANGED <<callback_used, callback_generations, callback_tasks, releases, destroyed>>

(* The scan stops at a slot whose removed callable is still executing: set() *)
(* fails and no other slot is tried.                                         *)
RejectBusySlot(c, s) ==
    /\ regs[c].phase = "new"
    /\ FirstUnused(s)
    /\ ~ set_ok(callback_tasks[s])
    /\ callback_tasks' = [callback_tasks EXCEPT ![s] = set(callback_tasks[s], c)]
    /\ Reject(c)
    /\ UNCHANGED <<callback_used, callback_generations, releases, destroyed>>

(* The callable is stored, the scheduler refuses, release_unregistered(). *)
RejectUnscheduled(c, s) ==
    /\ regs[c].phase = "new"
    /\ FirstUnused(s)
    /\ set_ok(callback_tasks[s])
    /\ LET t == set(callback_tasks[s], c)
       IN  /\ callback_tasks' = [callback_tasks EXCEPT ![s] = clear(t)]
           /\ CountDestroyed(ClearDestroys(callback_tasks[s]) \cup ClearDestroys(t))
    /\ callback_generations' = [callback_generations EXCEPT ![s] = NextGeneration(@)]
    /\ releases' = [releases EXCEPT ![s] = @ + 1]
    /\ Reject(c)
    /\ UNCHANGED callback_used

(* The registration succeeds and its handle is returned. *)
Accept(c, k, s) ==
    /\ regs[c].phase = "new"
    /\ FirstUnused(s)
    /\ set_ok(callback_tasks[s])
    /\ callback_tasks' = [callback_tasks EXCEPT ![s] = set(callback_tasks[s], c)]
    /\ CountDestroyed(ClearDestroys(callback_tasks[s]))
    /\ callback_used' = [callback_used EXCEPT ![s] = TRUE]
    /\ regs' = [regs EXCEPT ![c] =
                  [phase |-> "live", kind |-> k, epoch |-> releases[s],
                   handle |-> [slot |-> s, generation |-> callback_generations[s]]]]
    /\ UNCHANGED <<callback_generations, releases>>

-----------------------------------------------------------------------------
(* Operations on the handle h. *)

(* release_registered(h), for the reason "removed" or "done": the callable  *)
(* in the slot loses its registration.                                      *)
Released(h) ==
    /\ assigned(h) /\ h.slot < MaxCallbacks
    /\ callback_used[h.slot] /\ callback_generations[h.slot] = h.generation

EndRegistration(s, reason) ==
    [c \in Callables |-> IF c = callback_tasks[s].stored
                         THEN [regs[c] EXCEPT !.phase = reason] ELSE regs[c]]

(* remove(h): the scheduler found the task. *)
Remove(h) ==
    /\ valid(h)
    /\ callback_tasks' = [callback_tasks EXCEPT ![h.slot] = clear(@)]
    /\ CountDestroyed(ClearDestroys(callback_tasks[h.slot]))
    /\ callback_used' = [callback_used EXCEPT ![h.slot] = FALSE]
    /\ callback_generations' = [callback_generations EXCEPT ![h.slot] = NextGeneration(@)]
    /\ releases' = [releases EXCEPT ![h.slot] = @ + 1]
    /\ regs' = EndRegistration(h.slot, "removed")

(* enable(h) and disable(h) *)
SetEnabled(h, e) ==
    /\ valid(h)
    /\ callback_tasks' = [callback_tasks EXCEPT ![h.slot] = set_enabled(@, e)]
    /\ UNCHANGED <<callback_used, callback_generations, regs, releases, destroyed>>

-----------------------------------------------------------------------------
(* Polling a slot's task, from IRuntimeTask::poll() to the callable ... *)
PollEnter(s) ==
    /\ Invoking = {}
    /\ poll_runs(callback_tasks[s])
    /\ callback_tasks' = [callback_tasks EXCEPT ![s] = poll_enter(@)]
    /\ UNCHANGED <<callback_used, callback_generations, regs, releases, destroyed>>

(* ... and from the callable's return to the end of poll().  The wrapper    *)
(* of a delay first calls complete_one_shot() with the handle it captured.  *)
PollLeave(s) ==
    LET c == callback_tasks[s].stored
        h == regs[c].handle
        completes == regs[c].kind = "delay" /\ Released(h)
        t == IF completes THEN clear(callback_tasks[s]) ELSE callback_tasks[s]
    IN  /\ callback_tasks[s].invoking
        /\ callback_tasks' = [callback_tasks EXCEPT ![s] = poll_leave(t)]
        /\ CountDestroyed(LeaveDestroys(t))
        /\ IF completes
           THEN /\ callback_used' = [callback_used EXCEPT ![s] = FALSE]
                /\ callback_generations' =
                     [callback_generations EXCEPT ![s] = NextGeneration(@)]
                /\ releases' = [releases EXCEPT ![s] = @ + 1]
                /\ regs' = EndRegistration(s, "done")
           ELSE UNCHANGED <<callback_used, callback_generations, releases, regs>>

-----------------------------------------------------------------------------
Register(c, k) ==
    \/ RejectTableFull(c)
    \/ \E s \in Slots : RejectBusySlot(c, s) \/ RejectUnscheduled(c, s) \/ Accept(c, k, s)

UseHandle(h) == Remove(h) \/ \E e \in BOOLEAN : SetEnabled(h, e)

ELNext ==
    \/ \E c \in Callables, k \in Kinds : Register(c, k)
    \/ \E c \in Callables : UseHandle(regs[c].handle)
    \/ \E s \in Slots : PollEnter(s) \/ PollLeave(s)

ELSpec == ELInit /\ [][ELNext]_elVars

-----------------------------------------------------------------------------
(* The types of the slot table: generations keep to their width. *)
ELTypeOK ==
    /\ callback_used \in [Slots -> BOOLEAN]
    /\ callback_generations \in [Slots -> 0 .. GenMod - 1]
    /\ callback_tasks \in [Slots -> Task]
    /\ regs \in [Callables -> Registration]
    /\ releases \in [Slots -> Nat]
    /\ destroyed \in [Callables -> Nat]

Live(c) == regs[c].phase = "live"
Over(c) == regs[c].phase \in {"removed", "done"}

(* A live registration is exactly what its handle reaches: the handle is   *)
(* valid and its slot stores that callable.  Hence two live registrations  *)
(* never share a slot.                                                     *)
LiveHandleValid ==
    \A c \in Callables : regs[c].phase = "live" =>
        /\ valid(regs[c].handle)
        /\ callback_tasks[regs[c].handle.slot].stored = c

(* The handle of a finished registration is rejected by enable(),          *)
(* disable() and remove() until its slot has been released GenMod more     *)
(* times: only a full turn of the generation counter can make it valid.    *)
StaleHandleRejected ==
    \A c \in Callables :
        Over(c) /\ valid(regs[c].handle) =>
            releases[regs[c].handle.slot] - regs[c].epoch >= GenMod

(* The storage of a slot whose callable is executing keeps that callable,  *)
(* whatever the callback does to its own registration: self-removal and a  *)
(* registration attempt that stops at this slot included.                  *)
ExecutingCallableAlive ==
    \A s \in Slots : callback_tasks[s].invoking =>
        /\ callback_tasks[s].stored \in Callables
        /\ regs[callback_tasks[s].stored].handle.slot = s
        /\ destroyed[callback_tasks[s].stored] = 0

(* No stored callable leaks or is destroyed twice: a finished registration *)
(* whose callable is not executing had it destroyed exactly once, and a    *)
(* live one not at all.                                                    *)
DestroyedOnce ==
    \A c \in Callables :
        LET executing == \E s \in Slots : callback_tasks[s].invoking /\ callback_tasks[s].stored = c
        IN  /\ regs[c].phase = "live" => destroyed[c] = 0
            /\ Over(c) => destroyed[c] = IF executing THEN 0 ELSE 1
            /\ destroyed[c] <= 1

(* A callback only starts for a live, enabled registration: none runs after *)
(* remove() returned true, and none between disable() and enable().         *)
RunsOnlyLive ==
    [][\A s \in Slots : ~ callback_tasks[s].invoking /\ callback_tasks'[s].invoking =>
          /\ regs[callback_tasks[s].stored].phase = "live"
          /\ callback_tasks[s].enabled]_elVars

-----------------------------------------------------------------------------
(* The inductive invariant behind the properties above. *)

(* The flags of a slot: used means active; what is stored is either active  *)
(* or awaiting its deferred destruction, and only an executing callable     *)
(* waits.                                                                   *)
SlotFlags ==
    \A s \in Slots :
        LET t == callback_tasks[s]
        IN  /\ callback_used[s] <=> t.active
            /\ t.enabled => t.active
            /\ t.active \/ t.clear_requested <=> t.stored # NoCallable
            /\ t.clear_requested => t.invoking /\ ~ t.active
            /\ t.invoking => t.stored # NoCallable

(* A stored callable was given the handle of that slot; its registration is *)
(* live while the slot is active and over once the slot is released.        *)
StoredOwner ==
    \A s \in Slots : callback_tasks[s].stored # NoCallable =>
        LET r == regs[callback_tasks[s].stored]
        IN  /\ r.handle.slot = s
            /\ callback_tasks[s].active => r.phase = "live"
            /\ ~ callback_tasks[s].active => r.phase \in {"removed", "done"}

(* The generation n releases after g, for n < GenMod. *)
Later(g, n) == IF g + n < GenMod THEN g + n ELSE g + n - GenMod

(* What a handle says of its slot: a live registration is stored there and  *)
(* nothing was released since; a finished one is behind by the number of    *)
(* releases since, which its generation shows until the counter has turned. *)
TraceOf(c) ==
    LET r == regs[c]
        s == r.handle.slot
    IN  /\ r.phase \in {"live", "removed", "done"} =>
             /\ s \in Slots
             /\ r.handle.generation < GenMod
             /\ r.epoch <= releases[s]
             /\ releases[s] - r.epoch < GenMod =>
                  callback_generations[s] = Later(r.handle.generation, releases[s] - r.epoch)
        /\ r.phase = "live" =>
             /\ callback_tasks[s].stored = c
             /\ callback_tasks[s].active
             /\ r.epoch = releases[s]
        /\ Over(c) => r.epoch < releases[s]

HandleTrace == \A c \in Callables : TraceOf(c)

(* Destructors run: none before the registration is over, and then exactly  *)
(* one once the callable has left its slot.                                 *)
Stored(c) == \E s \in Slots : callback_tasks[s].stored = c

DestructorCount ==
    \A c \in Callables :
        /\ regs[c].phase \in {"new", "live"} => destroyed[c] = 0
        /\ Over(c) => destroyed[c] = IF Stored(c) THEN 0 ELSE 1
        /\ destroyed[c] <= 1

(* Flags, owners, handles and destructor counts of the slot table agree. *)
ELInv == ELTypeOK /\ SlotFlags /\ StoredOwner /\ HandleTrace /\ DestructorCount
=============================================================================
