-------------------------- MODULE EventLoopProofs --------------------------
(* TLAPS proofs about EventLoop, for every number of slots, callables and   *)
(* every width of the generation counter, and for every scheduler.          *)
EXTENDS EventLoop, TLAPS

USE MaxCallbacksAssumption, GenModAssumption, NoCallableAssumption

(* The task operations yield tasks. *)
LEMMA TaskTyping ==
    ASSUME NEW t \in Task
    PROVE  /\ destroy_now(t) \in Task
           /\ clear(t) \in Task
           /\ poll_enter(t) \in Task
           /\ poll_leave(t) \in Task
           /\ \A c \in Callables : set(t, c) \in Task
           /\ \A e \in BOOLEAN : set_enabled(t, e) \in Task
  BY DEF Task, destroy_now, clear, set, set_ok, set_enabled, poll_enter, poll_leave

(* A generation stays within its width when it is incremented. *)
LEMMA GenerationTyping ==
    ASSUME NEW g \in 0 .. GenMod - 1
    PROVE  NextGeneration(g) \in 0 .. GenMod - 1
  BY DEF NextGeneration

(* EndRegistration keeps the registration table a table of registrations. *)
LEMMA EndTyping ==
    ASSUME NEW s, NEW reason \in Phases, regs \in [Callables -> Registration]
    PROVE  EndRegistration(s, reason) \in [Callables -> Registration]
  BY DEF EndRegistration, Registration

(* The slot table starts well typed ... *)
LEMMA ELTypeInit == ELInit => ELTypeOK
  BY DEF ELInit, ELTypeOK, EmptyTask, Task, Registration, Handle, NoHandle, Kinds, Phases, Slots

(* ... and every operation of the facade keeps it so. *)
LEMMA ELTypeStep == ELTypeOK /\ [ELNext]_elVars => ELTypeOK'
  <1> SUFFICES ASSUME ELTypeOK, [ELNext]_elVars PROVE ELTypeOK'
    OBVIOUS
  <1> USE DEF ELTypeOK
  <1>1. ASSUME NEW c \in Callables, RejectTableFull(c) PROVE ELTypeOK'
    BY <1>1 DEF RejectTableFull, Reject, Registration, Phases
  <1>2. ASSUME NEW c \in Callables, NEW s \in Slots, RejectBusySlot(c, s) PROVE ELTypeOK'
    BY <1>2, TaskTyping DEF RejectBusySlot, Reject, Registration, Phases
  <1>3. ASSUME NEW c \in Callables, NEW s \in Slots, RejectUnscheduled(c, s) PROVE ELTypeOK'
    <2>1. clear(set(callback_tasks[s], c)) \in Task
      <3>1. set(callback_tasks[s], c) \in Task
        BY TaskTyping
      <3> QED
        BY <3>1, TaskTyping
    <2>2. /\ callback_tasks' = [callback_tasks EXCEPT ![s] = clear(set(callback_tasks[s], c))]
          /\ callback_generations' =
               [callback_generations EXCEPT ![s] = NextGeneration(callback_generations[s])]
          /\ releases' = [releases EXCEPT ![s] = releases[s] + 1]
          /\ regs' = [regs EXCEPT ![c].phase = "rejected"]
          /\ destroyed' \in [Callables -> Nat]
          /\ callback_used' = callback_used
      BY <1>3 DEF RejectUnscheduled, Reject, CountDestroyed
    <2>3. NextGeneration(callback_generations[s]) \in 0 .. GenMod - 1
      BY GenerationTyping
    <2> QED
      BY <2>1, <2>2, <2>3 DEF Registration, Phases
  <1>4. ASSUME NEW c \in Callables, NEW k \in Kinds, NEW s \in Slots, Accept(c, k, s)
        PROVE  ELTypeOK'
    <2>1. set(callback_tasks[s], c) \in Task
      BY TaskTyping
    <2>2. [phase |-> "live", kind |-> k, epoch |-> releases[s],
           handle |-> [slot |-> s, generation |-> callback_generations[s]]] \in Registration
      BY DEF Registration, Phases, Handle, Slots
    <2> QED
      BY <1>4, <2>1, <2>2 DEF Accept, CountDestroyed
  <1>5. ASSUME NEW c \in Callables, Remove(regs[c].handle) PROVE ELTypeOK'
    <2> DEFINE s == regs[c].handle.slot
    <2>1. s \in Slots
      BY <1>5 DEF Remove, valid, Registration, Handle, Slots
    <2>2. clear(callback_tasks[s]) \in Task /\ NextGeneration(callback_generations[s]) \in 0 .. GenMod - 1
      BY <2>1, TaskTyping, GenerationTyping
    <2>3. EndRegistration(s, "removed") \in [Callables -> Registration]
      BY EndTyping DEF Phases
    <2> QED
      BY <1>5, <2>1, <2>2, <2>3 DEF Remove, CountDestroyed
  <1>6. ASSUME NEW c \in Callables, NEW e \in BOOLEAN, SetEnabled(regs[c].handle, e)
        PROVE  ELTypeOK'
    BY <1>6, TaskTyping DEF SetEnabled, valid, Registration, Handle, Slots
  <1>7. ASSUME NEW s \in Slots, PollEnter(s) PROVE ELTypeOK'
    BY <1>7, TaskTyping DEF PollEnter
  <1>8. ASSUME NEW s \in Slots, PollLeave(s) PROVE ELTypeOK'
    <2>1. \A t \in {callback_tasks[s], clear(callback_tasks[s])} : poll_leave(t) \in Task
      BY TaskTyping
    <2>2. callback_tasks' \in [Slots -> Task]
      BY <1>8, <2>1 DEF PollLeave
    <2>3. destroyed' \in [Callables -> Nat]
      BY <1>8 DEF PollLeave, CountDestroyed
    <2>4. EndRegistration(s, "done") \in [Callables -> Registration]
      BY EndTyping DEF Phases
    <2>5. NextGeneration(callback_generations[s]) \in 0 .. GenMod - 1
      BY GenerationTyping
    <2>6. \/ /\ callback_used' = [callback_used EXCEPT ![s] = FALSE]
             /\ callback_generations' =
                  [callback_generations EXCEPT ![s] = NextGeneration(callback_generations[s])]
             /\ releases' = [releases EXCEPT ![s] = releases[s] + 1]
             /\ regs' = EndRegistration(s, "done")
          \/ UNCHANGED <<callback_used, callback_generations, releases, regs>>
      BY <1>8 DEF PollLeave
    <2>7. callback_used' \in [Slots -> BOOLEAN]
      BY <2>6
    <2>8. callback_generations' \in [Slots -> 0 .. GenMod - 1]
      BY <2>5, <2>6
    <2>9. releases' \in [Slots -> Nat]
      BY <2>6
    <2>10. regs' \in [Callables -> Registration]
      BY <2>4, <2>6
    <2> QED
      BY <2>2, <2>3, <2>7, <2>8, <2>9, <2>10
  <1>9. CASE UNCHANGED elVars
    BY <1>9 DEF elVars
  <1> QED
    BY <1>1, <1>2, <1>3, <1>4, <1>5, <1>6, <1>7, <1>8, <1>9 DEF ELNext, Register, UseHandle

(* Type correctness of the callback-slot table under every scheduler. *)
THEOREM ELTypeCorrect == ELSpec => []ELTypeOK
  BY ELTypeInit, ELTypeStep, PTL DEF ELSpec

-----------------------------------------------------------------------------
(* The generation counter: one release moves it one further, modulo its width. *)
LEMMA LaterStep ==
    ASSUME NEW g \in 0 .. GenMod - 1, NEW n \in Nat, n + 1 < GenMod
    PROVE  NextGeneration(Later(g, n)) = Later(g, n + 1)
  BY DEF NextGeneration, Later

(* No release leaves the generation as it is. *)
LEMMA LaterZero ==
    ASSUME NEW g \in 0 .. GenMod - 1
    PROVE  Later(g, 0) = g
  BY DEF Later

(* A finished registration stays in trace when its slot is released again. *)
LEMMA TraceReleased ==
    ASSUME ELTypeOK, ELTypeOK', NEW d \in Callables, TraceOf(d), Over(d), regs'[d] = regs[d],
           NEW s \in Slots, regs[d].handle.slot = s,
           releases'[s] = releases[s] + 1,
           callback_generations'[s] = NextGeneration(callback_generations[s])
    PROVE  TraceOf(d)'
  <1> DEFINE n == releases[s] - regs[d].epoch
  <1>1. n \in Nat /\ releases'[s] - regs'[d].epoch = n + 1 /\ regs'[d].epoch < releases'[s]
    BY DEF TraceOf, Over, ELTypeOK, Registration
  <1>2. regs'[d].handle.generation \in 0 .. GenMod - 1 /\ regs'[d].epoch \in Nat /\ releases'[s] \in Nat
    BY DEF TraceOf, Over, ELTypeOK, Registration, Handle
  <1>3. n + 1 < GenMod => callback_generations'[s] = Later(regs'[d].handle.generation, n + 1)
    BY <1>1, <1>2, LaterStep DEF TraceOf, Over
  <1> HIDE DEF n
  <1> QED
    BY <1>1, <1>2, <1>3 DEF TraceOf, Over

(* A slot whose registration ends: the shape shared by remove() and by the  *)
(* completion of a delay.  Either the callable is executing and its         *)
(* destruction is deferred, or it is destroyed at once.                     *)
ReleaseStep(s, c, reason) ==
    /\ callback_used' = [callback_used EXCEPT ![s] = FALSE]
    /\ callback_generations' = [callback_generations EXCEPT ![s] = NextGeneration(callback_generations[s])]
    /\ releases' = [releases EXCEPT ![s] = releases[s] + 1]
    /\ regs' = [regs EXCEPT ![c] = [regs[c] EXCEPT !.phase = reason]]
    /\ \A u \in Slots : u # s => callback_tasks'[u] = callback_tasks[u]
    /\ ~ callback_tasks'[s].active /\ ~ callback_tasks'[s].enabled
    /\ \/ /\ callback_tasks'[s].clear_requested /\ callback_tasks'[s].invoking
          /\ callback_tasks'[s].stored = c
          /\ destroyed' = destroyed
       \/ /\ ~ callback_tasks'[s].clear_requested /\ ~ callback_tasks'[s].invoking
          /\ callback_tasks'[s].stored = NoCallable
          /\ destroyed'[c] = destroyed[c] + 1
          /\ \A d \in Callables : d # c => destroyed'[d] = destroyed[d]

(* Releasing a slot keeps the trace of every handle: the arithmetic of generations. *)
LEMMA ReleasePreserves ==
    ASSUME ELInv, ELTypeOK', NEW s \in Slots, NEW c \in Callables,
           NEW reason \in {"removed", "done"},
           callback_tasks[s].active, callback_tasks[s].stored = c,
           ReleaseStep(s, c, reason)
    PROVE  ELInv'
  <1>1. /\ regs[c].phase = "live" /\ regs[c].handle.slot = s /\ regs[c].epoch = releases[s]
        /\ callback_generations[s] = regs[c].handle.generation
        /\ destroyed[c] = 0
    <2>1. regs[c].phase = "live" /\ regs[c].handle.slot = s
      BY DEF ELInv, StoredOwner
    <2>2. regs[c].epoch = releases[s] /\ destroyed[c] = 0
      BY <2>1 DEF ELInv, HandleTrace, TraceOf, DestructorCount
    <2>3. regs[c].handle.generation \in 0 .. GenMod - 1
      BY <2>1 DEF ELInv, HandleTrace, TraceOf, ELTypeOK, Registration, Handle
    <2>4. callback_generations[s] = Later(regs[c].handle.generation, 0)
      BY <2>1, <2>2 DEF ELInv, HandleTrace, TraceOf, ELTypeOK
    <2> QED
      BY <2>1, <2>2, <2>3, <2>4, LaterZero
  <1>2. \A u \in Slots : u # s => callback_tasks[u].stored # c
    BY <1>1 DEF ELInv, StoredOwner
  <1>3. /\ regs'[c].phase = reason /\ regs'[c].handle = regs[c].handle
        /\ regs'[c].epoch = regs[c].epoch
        /\ \A d \in Callables : d # c => regs'[d] = regs[d]
    BY DEF ReleaseStep, ELInv, ELTypeOK, Registration
  <1>4. SlotFlags'
    <2>1. ~ callback_used'[s] /\ \A u \in Slots : u # s => callback_used'[u] = callback_used[u]
      BY DEF ReleaseStep, ELInv, ELTypeOK
    <2> QED
      BY <2>1 DEF ReleaseStep, ELInv, SlotFlags
  <1>5. StoredOwner'
    BY <1>1, <1>2, <1>3 DEF ReleaseStep, ELInv, StoredOwner, ELTypeOK, Task
  <1>6. HandleTrace'
    <2>1. /\ releases'[s] = releases[s] + 1
          /\ callback_generations'[s] = NextGeneration(callback_generations[s])
          /\ \A u \in Slots : u # s => /\ releases'[u] = releases[u]
                                       /\ callback_generations'[u] = callback_generations[u]
      BY DEF ReleaseStep, ELInv, ELTypeOK
    <2> SUFFICES ASSUME NEW d \in Callables PROVE TraceOf(d)'
      BY DEF HandleTrace
    <2>2. TraceOf(d)
      BY DEF ELInv, HandleTrace
    <2> regs'[d].epoch \in Nat /\ releases'[s] \in Nat
      BY DEF ELTypeOK, Registration
    <2>3. CASE d = c
      <3>1. /\ regs'[d].handle.slot = s /\ releases'[s] - regs'[d].epoch = 1
            /\ regs'[d].epoch < releases'[s] /\ regs'[d].phase = reason
            /\ regs'[d].handle.generation \in 0 .. GenMod - 1
        BY <1>1, <1>3, <2>1, <2>3 DEF ELInv, ELTypeOK
      <3>2. 1 < GenMod => callback_generations'[s] = Later(regs'[d].handle.generation, 1)
        <4>1. callback_generations[s] = Later(regs'[d].handle.generation, 0)
          BY <1>1, <1>3, <2>3, <3>1, LaterZero
        <4> QED
          BY <2>1, <3>1, <4>1, LaterStep
      <3> QED
        BY <3>1, <3>2 DEF TraceOf, Over
    <2>4. CASE d # c /\ regs[d].handle.slot # s
      BY <1>3, <2>1, <2>2, <2>4 DEF TraceOf, Over, ReleaseStep
    <2>5. CASE d # c /\ regs[d].handle.slot = s
      <3>1. regs[d].phase # "live"
        BY <2>2, <2>5 DEF TraceOf
      <3>2. CASE Over(d)
        BY <1>3, <2>1, <2>2, <2>5, <3>2, TraceReleased DEF ELInv
      <3> QED
        BY <1>3, <2>5, <3>1, <3>2 DEF TraceOf, Over
    <2> QED
      BY <2>3, <2>4, <2>5
  <1>7. DestructorCount'
    <2> SUFFICES ASSUME NEW d \in Callables
                 PROVE  /\ regs'[d].phase \in {"new", "live"} => destroyed'[d] = 0
                        /\ Over(d)' => destroyed'[d] = IF Stored(d)' THEN 0 ELSE 1
                        /\ destroyed'[d] <= 1
      BY DEF DestructorCount
    <2>1. CASE d = c
      <3>1. CASE callback_tasks'[s].stored = c
        BY <1>1, <1>3, <2>1, <3>1 DEF ReleaseStep, Stored, Over
      <3>2. CASE callback_tasks'[s].stored = NoCallable
        <4>1. destroyed'[d] = 1
          BY <1>1, <2>1, <3>2 DEF ReleaseStep, ELInv, ELTypeOK
        <4>2. ~ Stored(d)'
          BY <1>2, <2>1, <3>2 DEF ReleaseStep, Stored
        <4> QED
          BY <1>3, <2>1, <4>1, <4>2 DEF Over
      <3> QED
        BY <3>1, <3>2 DEF ReleaseStep
    <2>2. CASE d # c
      <3>1. destroyed'[d] = destroyed[d] /\ regs'[d] = regs[d]
        BY <1>3, <2>2 DEF ReleaseStep, ELInv, ELTypeOK
      <3>2. Stored(d)' <=> Stored(d)
        BY <2>2 DEF ReleaseStep, Stored
      <3> QED
        BY <3>1, <3>2 DEF ELInv, DestructorCount, Over
    <2> QED
      BY <2>1, <2>2
  <1> QED
    BY <1>4, <1>5, <1>6, <1>7 DEF ELInv

-----------------------------------------------------------------------------
(* A slot that is unused and not executing is empty. *)
LEMMA FreeSlotEmpty ==
    ASSUME ELInv, NEW s \in Slots, FirstUnused(s), set_ok(callback_tasks[s])
    PROVE  /\ ~ callback_tasks[s].active /\ ~ callback_tasks[s].enabled
           /\ ~ callback_tasks[s].invoking /\ ~ callback_tasks[s].clear_requested
           /\ callback_tasks[s].stored = NoCallable
  BY DEF ELInv, SlotFlags, FirstUnused, set_ok

(* A callable not yet registered is stored nowhere. *)
LEMMA NewNotStored ==
    ASSUME ELInv, NEW c \in Callables, regs[c].phase = "new", NEW s \in Slots
    PROVE  callback_tasks[s].stored # c
  BY DEF ELInv, StoredOwner

(* Tasks that agree in every field. *)
SameTask(t, u) ==
    /\ t.active <=> u.active
    /\ t.enabled <=> u.enabled
    /\ t.invoking <=> u.invoking
    /\ t.clear_requested <=> u.clear_requested
    /\ t.stored = u.stored

(* Registrations refused before anything is stored change no slot. *)
LEMMA RejectPreserves ==
    ASSUME ELInv, ELTypeOK', NEW c \in Callables, regs[c].phase = "new",
           regs' = [regs EXCEPT ![c].phase = "rejected"],
           \A u \in Slots : SameTask(callback_tasks'[u], callback_tasks[u]),
           callback_used' = callback_used,
           callback_generations' = callback_generations,
           releases' = releases, destroyed' = destroyed
    PROVE  ELInv'
  <1>1. /\ regs'[c].phase = "rejected"
        /\ \A d \in Callables : d # c => regs'[d] = regs[d]
    BY DEF ELInv, ELTypeOK, Registration
  <1>2. SlotFlags'
    BY DEF ELInv, SlotFlags, SameTask
  <1>3. StoredOwner'
    BY <1>1, NewNotStored DEF ELInv, StoredOwner, ELTypeOK, Task, SameTask
  <1>4. HandleTrace'
    BY <1>1 DEF ELInv, HandleTrace, TraceOf, Over, SameTask
  <1>5. DestructorCount'
    <2>1. \A d \in Callables : Stored(d)' <=> Stored(d)
      BY DEF Stored, SameTask
    <2> QED
      BY <1>1, <2>1 DEF ELInv, DestructorCount, Over
  <1> QED
    BY <1>2, <1>3, <1>4, <1>5 DEF ELInv

(* A registration that stops at an executing slot changes nothing that matters. *)
LEMMA RejectBusyPreserves ==
    ASSUME ELInv, ELTypeOK', NEW c \in Callables, NEW s \in Slots, RejectBusySlot(c, s)
    PROVE  ELInv'
  <1>1. /\ callback_tasks[s].invoking /\ ~ callback_tasks[s].active /\ ~ callback_tasks[s].enabled
        /\ callback_tasks[s].clear_requested
    BY DEF ELInv, SlotFlags, RejectBusySlot, FirstUnused, set_ok
  <1>2. SameTask(set(callback_tasks[s], c), callback_tasks[s])
    BY <1>1 DEF SameTask, set, clear, set_ok, ELInv, ELTypeOK, Task
  <1>3. \A u \in Slots : SameTask(callback_tasks'[u], callback_tasks[u])
    BY <1>2 DEF RejectBusySlot, SameTask, ELInv, ELTypeOK
  <1> QED
    BY <1>3, RejectPreserves DEF RejectBusySlot, Reject

(* A registration the scheduler refuses leaves its slot as unused as before. *)
LEMMA RejectUnscheduledPreserves ==
    ASSUME ELInv, ELTypeOK', NEW c \in Callables, NEW s \in Slots, RejectUnscheduled(c, s)
    PROVE  ELInv'
  <1>1. regs[c].phase = "new"
    BY DEF RejectUnscheduled
  <1>2. /\ ~ callback_tasks[s].active /\ ~ callback_tasks[s].enabled
        /\ ~ callback_tasks[s].invoking /\ ~ callback_tasks[s].clear_requested
        /\ callback_tasks[s].stored = NoCallable
    BY FreeSlotEmpty DEF RejectUnscheduled
  <1>3. /\ SameTask(clear(set(callback_tasks[s], c)), callback_tasks[s])
        /\ ClearDestroys(callback_tasks[s]) = {}
        /\ ClearDestroys(set(callback_tasks[s], c)) = {c}
    <2> DEFINE t == set(callback_tasks[s], c)
    <2>0. t \in Task
      BY TaskTyping DEF ELInv, ELTypeOK
    <2>1. t.active /\ ~ t.invoking /\ t.stored = c
      BY <1>2 DEF set, clear, destroy_now, set_ok, ELInv, ELTypeOK, Task
    <2>2. ClearDestroys(callback_tasks[s]) = {}
      BY <1>2 DEF ClearDestroys, Destroyed
    <2> HIDE DEF t
    <2>3. ClearDestroys(t) = {c}
      BY <2>1 DEF ClearDestroys, Destroyed
    <2>4. SameTask(clear(t), callback_tasks[s])
      BY <1>2, <2>0, <2>1 DEF SameTask, clear, destroy_now, Task
    <2> QED
      BY <2>2, <2>3, <2>4 DEF t
  <1>4. \A u \in Slots : SameTask(callback_tasks'[u], callback_tasks[u])
    BY <1>3 DEF RejectUnscheduled, SameTask, ELInv, ELTypeOK
  <1>5. /\ regs'[c].phase = "rejected"
        /\ \A d \in Callables : d # c => regs'[d] = regs[d]
    BY DEF RejectUnscheduled, Reject, ELInv, ELTypeOK, Registration
  <1>6. /\ destroyed'[c] = destroyed[c] + 1
        /\ \A d \in Callables : d # c => destroyed'[d] = destroyed[d]
    BY <1>3 DEF RejectUnscheduled, CountDestroyed, ELInv, ELTypeOK
  <1>7. /\ releases'[s] = releases[s] + 1
        /\ callback_generations'[s] = NextGeneration(callback_generations[s])
        /\ \A u \in Slots : u # s => /\ releases'[u] = releases[u]
                                     /\ callback_generations'[u] = callback_generations[u]
    BY DEF RejectUnscheduled, ELInv, ELTypeOK
  <1>8. SlotFlags'
    BY <1>4 DEF ELInv, SlotFlags, SameTask, RejectUnscheduled
  <1>9. StoredOwner'
    BY <1>1, <1>4, <1>5, NewNotStored DEF ELInv, StoredOwner, SameTask, ELTypeOK, Task
  <1>10. HandleTrace'
    <2> SUFFICES ASSUME NEW d \in Callables PROVE TraceOf(d)'
      BY DEF HandleTrace
    <2>1. TraceOf(d)
      BY DEF ELInv, HandleTrace
    <2>2. CASE d = c
      BY <1>5, <2>2 DEF TraceOf, Over
    <2>3. CASE d # c /\ regs[d].handle.slot # s
      BY <1>4, <1>5, <1>7, <2>1, <2>3 DEF TraceOf, SameTask, Over
    <2>4. CASE d # c /\ regs[d].handle.slot = s /\ Over(d)
      BY <1>5, <1>7, <2>1, <2>4, TraceReleased DEF ELInv
    <2>5. CASE d # c /\ regs[d].handle.slot = s /\ ~ Over(d)
      BY <1>2, <1>5, <2>1, <2>5 DEF TraceOf, Over
    <2> QED
      BY <2>2, <2>3, <2>4, <2>5
  <1>11. DestructorCount'
    <2>1. \A d \in Callables : Stored(d)' <=> Stored(d)
      BY <1>4 DEF Stored, SameTask
    <2>2. destroyed'[c] = 1
      BY <1>1, <1>6 DEF ELInv, DestructorCount
    <2> QED
      BY <1>5, <1>6, <2>1, <2>2 DEF ELInv, DestructorCount, Over
  <1> QED
    BY <1>8, <1>9, <1>10, <1>11 DEF ELInv

(* A successful registration keeps the invariant. *)
LEMMA AcceptPreserves ==
    ASSUME ELInv, ELTypeOK', NEW c \in Callables, NEW k \in Kinds, NEW s \in Slots, Accept(c, k, s)
    PROVE  ELInv'
  <1>1. regs[c].phase = "new" /\ destroyed[c] = 0
    BY DEF Accept, ELInv, DestructorCount
  <1>2. /\ ~ callback_tasks[s].active /\ ~ callback_tasks[s].enabled
        /\ ~ callback_tasks[s].invoking /\ ~ callback_tasks[s].clear_requested
        /\ callback_tasks[s].stored = NoCallable
    BY FreeSlotEmpty DEF Accept
  <1>3. /\ callback_tasks'[s].active /\ callback_tasks'[s].enabled
        /\ ~ callback_tasks'[s].invoking /\ ~ callback_tasks'[s].clear_requested
        /\ callback_tasks'[s].stored = c
    BY <1>2 DEF Accept, set, clear, destroy_now, set_ok, ELInv, ELTypeOK, Task
  <1>4. \A u \in Slots : u # s => callback_tasks'[u] = callback_tasks[u]
    BY DEF Accept, ELInv, ELTypeOK
  <1>5. /\ regs'[c].phase = "live" /\ regs'[c].epoch = releases[s]
        /\ regs'[c].handle.slot = s /\ regs'[c].handle.generation = callback_generations[s]
        /\ \A d \in Callables : d # c => regs'[d] = regs[d]
    BY DEF Accept, ELInv, ELTypeOK
  <1>6. \A d \in Callables : destroyed'[d] = destroyed[d]
    <2>1. ClearDestroys(callback_tasks[s]) = {}
      BY <1>2 DEF ClearDestroys, Destroyed
    <2> QED
      BY <2>1 DEF Accept, CountDestroyed, ELInv, ELTypeOK
  <1>7. SlotFlags'
    <2>1. callback_used'[s] /\ \A u \in Slots : u # s => callback_used'[u] = callback_used[u]
      BY DEF Accept, ELInv, ELTypeOK
    <2> QED
      BY <1>3, <1>4, <2>1 DEF ELInv, SlotFlags
  <1>8. StoredOwner'
    <2>1. \A u \in Slots : u # s => callback_tasks[u].stored # c
      BY <1>1, NewNotStored
    <2>2. \A u \in Slots : callback_tasks[u].stored \in Callables \cup {NoCallable}
      BY DEF ELInv, ELTypeOK, Task
    <2> QED
      BY <1>3, <1>4, <1>5, <2>1, <2>2 DEF ELInv, StoredOwner
  <1>9. HandleTrace'
    <2> SUFFICES ASSUME NEW d \in Callables PROVE TraceOf(d)'
      BY DEF HandleTrace
    <2>1. TraceOf(d) /\ releases' = releases /\ callback_generations' = callback_generations
      BY DEF ELInv, HandleTrace, Accept
    <2>2. CASE d = c
      <3>1. callback_generations[s] \in 0 .. GenMod - 1 /\ releases[s] \in Nat
        BY DEF ELInv, ELTypeOK
      <3>2. callback_generations[s] = Later(callback_generations[s], 0)
        BY <3>1, LaterZero
      <3> QED
        BY <1>3, <1>5, <2>1, <2>2, <3>1, <3>2 DEF TraceOf, Over
    <2>3. CASE d # c
      BY <1>2, <1>3, <1>4, <1>5, <2>1, <2>3 DEF TraceOf, Over
    <2> QED
      BY <2>2, <2>3
  <1>10. DestructorCount'
    <2>1. \A d \in Callables : d # c => (Stored(d)' <=> Stored(d))
      BY <1>2, <1>3, <1>4 DEF Stored
    <2> QED
      BY <1>1, <1>5, <1>6, <2>1 DEF ELInv, DestructorCount, Over
  <1> QED
    BY <1>7, <1>8, <1>9, <1>10 DEF ELInv

(* Steps that touch nothing but the flags enabled and invoking of one slot. *)
LEMMA FlagPreserves ==
    ASSUME ELInv, ELTypeOK', NEW s \in Slots,
           \A u \in Slots : u # s => callback_tasks'[u] = callback_tasks[u],
           callback_tasks'[s].active <=> callback_tasks[s].active,
           callback_tasks'[s].clear_requested <=> callback_tasks[s].clear_requested,
           callback_tasks'[s].stored = callback_tasks[s].stored,
           callback_tasks'[s].enabled => callback_tasks[s].active,
           callback_tasks[s].clear_requested => callback_tasks'[s].invoking,
           callback_tasks'[s].invoking => callback_tasks[s].stored # NoCallable,
           UNCHANGED <<callback_used, callback_generations, regs, releases, destroyed>>
    PROVE  ELInv'
  <1>1. SlotFlags'
    <2>1. callback_used' = callback_used
      OBVIOUS
    <2>2. \A u \in Slots : u # s => callback_tasks'[u] = callback_tasks[u]
      OBVIOUS
    <2> QED
      BY <2>1, <2>2 DEF ELInv, SlotFlags
  <1>2. StoredOwner'
    BY DEF ELInv, StoredOwner
  <1>3. HandleTrace'
    BY DEF ELInv, HandleTrace, TraceOf, Over
  <1>4. DestructorCount'
    <2>1. \A d \in Callables : Stored(d)' <=> Stored(d)
      BY DEF Stored
    <2> QED
      BY <2>1 DEF ELInv, DestructorCount, Over
  <1> QED
    BY <1>1, <1>2, <1>3, <1>4 DEF ELInv

(* enable() and disable() keep the invariant. *)
LEMMA SetEnabledPreserves ==
    ASSUME ELInv, ELTypeOK', NEW c \in Callables, NEW e \in BOOLEAN,
           SetEnabled(regs[c].handle, e)
    PROVE  ELInv'
  <1> DEFINE s == regs[c].handle.slot
  <1>1. s \in Slots /\ callback_tasks[s].active /\ callback_tasks[s] \in Task
    BY DEF SetEnabled, valid, ELInv, ELTypeOK, Registration, Handle, Slots
  <1>2. /\ \A u \in Slots : u # s => callback_tasks'[u] = callback_tasks[u]
        /\ callback_tasks'[s] = [callback_tasks[s] EXCEPT !.enabled = e]
    BY <1>1 DEF SetEnabled, set_enabled, ELInv, ELTypeOK
  <1>3. /\ callback_tasks'[s].active <=> callback_tasks[s].active
        /\ callback_tasks'[s].clear_requested <=> callback_tasks[s].clear_requested
        /\ callback_tasks'[s].invoking <=> callback_tasks[s].invoking
        /\ callback_tasks'[s].stored = callback_tasks[s].stored
    BY <1>1, <1>2 DEF Task
  <1>4. /\ callback_tasks[s].clear_requested => callback_tasks[s].invoking
        /\ callback_tasks[s].invoking => callback_tasks[s].stored # NoCallable
    BY <1>1 DEF ELInv, SlotFlags
  <1>5. UNCHANGED <<callback_used, callback_generations, regs, releases, destroyed>>
    BY DEF SetEnabled
  <1> HIDE DEF s
  <1> QED
    BY <1>1, <1>2, <1>3, <1>4, <1>5, FlagPreserves

(* Starting a callback keeps the invariant. *)
LEMMA PollEnterPreserves ==
    ASSUME ELInv, ELTypeOK', NEW s \in Slots, PollEnter(s)
    PROVE  ELInv'
  <1>1. /\ \A u \in Slots : u # s => callback_tasks'[u] = callback_tasks[u]
        /\ callback_tasks'[s] = [callback_tasks[s] EXCEPT !.invoking = TRUE]
        /\ callback_tasks[s] \in Task /\ callback_tasks[s].active
        /\ callback_tasks[s].stored # NoCallable
    BY DEF PollEnter, poll_enter, poll_runs, ELInv, ELTypeOK
  <1>2. /\ callback_tasks'[s].active <=> callback_tasks[s].active
        /\ callback_tasks'[s].clear_requested <=> callback_tasks[s].clear_requested
        /\ callback_tasks'[s].enabled <=> callback_tasks[s].enabled
        /\ callback_tasks'[s].stored = callback_tasks[s].stored
        /\ callback_tasks'[s].invoking
    BY <1>1 DEF Task
  <1>3. UNCHANGED <<callback_used, callback_generations, regs, releases, destroyed>>
    BY DEF PollEnter
  <1> QED
    BY <1>1, <1>2, <1>3, FlagPreserves

(* What EndRegistration does to the callable of slot s. *)
LEMMA EndRegistrationIs ==
    ASSUME ELTypeOK, NEW s, NEW reason, NEW c \in Callables, callback_tasks[s].stored = c
    PROVE  EndRegistration(s, reason) = [regs EXCEPT ![c] = [regs[c] EXCEPT !.phase = reason]]
  BY DEF EndRegistration, ELTypeOK

(* Counting one destructor call. *)
LEMMA CountOne ==
    ASSUME ELTypeOK, NEW c \in Callables, CountDestroyed({c})
    PROVE  /\ destroyed'[c] = destroyed[c] + 1
           /\ \A d \in Callables : d # c => destroyed'[d] = destroyed[d]
  BY DEF CountDestroyed, ELTypeOK

(* Counting none. *)
LEMMA CountNone ==
    ASSUME ELTypeOK, CountDestroyed({})
    PROVE  destroyed' = destroyed
  BY DEF CountDestroyed, ELTypeOK

(* remove() keeps the invariant, inside the callback it removes as well. *)
LEMMA RemovePreserves ==
    ASSUME ELInv, ELTypeOK', NEW d \in Callables, Remove(regs[d].handle)
    PROVE  ELInv'
  <1> DEFINE s == regs[d].handle.slot
             c == callback_tasks[s].stored
  <1>1. s \in Slots /\ callback_tasks[s].active /\ callback_tasks[s] \in Task
    BY DEF Remove, valid, ELInv, ELTypeOK, Registration, Handle, Slots
  <1>2. c \in Callables /\ ~ callback_tasks[s].clear_requested
    BY <1>1 DEF ELInv, SlotFlags, Task
  <1>3. regs' = [regs EXCEPT ![c] = [regs[c] EXCEPT !.phase = "removed"]]
    BY <1>2, EndRegistrationIs DEF Remove, ELInv
  <1>4. /\ \A u \in Slots : u # s => callback_tasks'[u] = callback_tasks[u]
        /\ callback_tasks'[s] = clear(callback_tasks[s])
        /\ CountDestroyed(ClearDestroys(callback_tasks[s]))
    BY <1>1 DEF Remove, ELInv, ELTypeOK
  <1>5. ~ callback_tasks'[s].active /\ ~ callback_tasks'[s].enabled
    BY <1>1, <1>4 DEF clear, destroy_now, Task
  <1>6. CASE callback_tasks[s].invoking
    <2>1. /\ callback_tasks'[s].clear_requested /\ callback_tasks'[s].invoking
          /\ callback_tasks'[s].stored = c
      BY <1>1, <1>4, <1>6 DEF clear, Task
    <2>2. destroyed' = destroyed
      BY <1>4, <1>6, CountNone DEF ClearDestroys, ELInv
    <2> QED
      BY <1>1, <1>2, <1>3, <1>4, <1>5, <2>1, <2>2, ReleasePreserves DEF ReleaseStep, Remove
  <1>7. CASE ~ callback_tasks[s].invoking
    <2>1. /\ ~ callback_tasks'[s].clear_requested /\ ~ callback_tasks'[s].invoking
          /\ callback_tasks'[s].stored = NoCallable
      BY <1>1, <1>4, <1>7 DEF clear, destroy_now, Task
    <2>2. ClearDestroys(callback_tasks[s]) = {c}
      BY <1>1, <1>2, <1>7 DEF ClearDestroys, Destroyed
    <2>3. /\ destroyed'[c] = destroyed[c] + 1
          /\ \A b \in Callables : b # c => destroyed'[b] = destroyed[b]
      BY <1>2, <1>4, <2>2, CountOne DEF ELInv
    <2> QED
      BY <1>1, <1>2, <1>3, <1>4, <1>5, <2>1, <2>3, ReleasePreserves DEF ReleaseStep, Remove
  <1> QED
    BY <1>6, <1>7

(* The handle of a live registration is valid. *)
LEMMA LiveIsValid ==
    ASSUME ELInv, NEW c \in Callables, regs[c].phase = "live"
    PROVE  valid(regs[c].handle) /\ callback_tasks[regs[c].handle.slot].stored = c
  <1> DEFINE s == regs[c].handle.slot
  <1>1. /\ s \in Slots /\ callback_tasks[s].stored = c /\ callback_tasks[s].active
        /\ regs[c].epoch = releases[s] /\ regs[c].handle.generation < GenMod
        /\ releases[s] - regs[c].epoch < GenMod =>
             callback_generations[s] = Later(regs[c].handle.generation, releases[s] - regs[c].epoch)
    BY DEF ELInv, HandleTrace, TraceOf
  <1>2. releases[s] \in Nat /\ regs[c].handle.generation \in 0 .. GenMod - 1
    BY <1>1 DEF ELInv, ELTypeOK, Registration, Handle
  <1>3. callback_generations[s] = regs[c].handle.generation
    BY <1>1, <1>2, LaterZero
  <1>4. callback_used[s]
    BY <1>1 DEF ELInv, SlotFlags
  <1>5. assigned(regs[c].handle) /\ s < MaxCallbacks
    BY <1>1 DEF assigned, Slots
  <1> QED
    BY <1>1, <1>3, <1>4, <1>5 DEF valid

(* The deferred destruction at the end of poll(). *)
LEMMA DeferredDestroyPreserves ==
    ASSUME ELInv, ELTypeOK', NEW s \in Slots, NEW c \in Callables,
           callback_tasks[s].clear_requested, callback_tasks[s].stored = c,
           \A u \in Slots : u # s => callback_tasks'[u] = callback_tasks[u],
           SameTask(callback_tasks'[s], EmptyTask),
           destroyed'[c] = destroyed[c] + 1,
           \A d \in Callables : d # c => destroyed'[d] = destroyed[d],
           UNCHANGED <<callback_used, callback_generations, regs, releases>>
    PROVE  ELInv'
  <1>1. /\ ~ callback_tasks'[s].active /\ ~ callback_tasks'[s].enabled
        /\ ~ callback_tasks'[s].invoking /\ ~ callback_tasks'[s].clear_requested
        /\ callback_tasks'[s].stored = NoCallable
    BY DEF SameTask, EmptyTask
  <1>2. /\ ~ callback_tasks[s].active /\ ~ callback_used[s]
        /\ regs[c].handle.slot = s /\ Over(c)
    BY DEF ELInv, SlotFlags, StoredOwner, Over
  <1>3. \A u \in Slots : u # s => callback_tasks[u].stored # c
    BY <1>2 DEF ELInv, StoredOwner
  <1>4. SlotFlags'
    <2>1. callback_used' = callback_used
      OBVIOUS
    <2>2. \A u \in Slots : u # s => callback_tasks'[u] = callback_tasks[u]
      OBVIOUS
    <2> QED
      BY <1>1, <1>2, <2>1, <2>2 DEF ELInv, SlotFlags
  <1>5. StoredOwner'
    BY <1>1 DEF ELInv, StoredOwner
  <1>6. HandleTrace'
    <2> SUFFICES ASSUME NEW d \in Callables PROVE TraceOf(d)'
      BY DEF HandleTrace
    <2>1. TraceOf(d)
      BY DEF ELInv, HandleTrace
    <2>2. CASE regs[d].handle.slot # s
      BY <2>1, <2>2 DEF TraceOf, Over
    <2>3. CASE regs[d].handle.slot = s
      <3>1. regs[d].phase # "live"
        BY <1>2, <2>1, <2>3 DEF TraceOf
      <3> QED
        BY <2>1, <2>3, <3>1 DEF TraceOf, Over
    <2> QED
      BY <2>2, <2>3
  <1>7. DestructorCount'
    <2>1. \A d \in Callables : d # c => (Stored(d)' <=> Stored(d))
      BY <1>1 DEF Stored
    <2>2. ~ Stored(c)' /\ Stored(c)
      BY <1>1, <1>3 DEF Stored
    <2>3. destroyed'[c] = 1
      BY <1>2, <2>2 DEF ELInv, DestructorCount
    <2> QED
      BY <1>2, <2>1, <2>2, <2>3 DEF ELInv, DestructorCount, Over
  <1> QED
    BY <1>4, <1>5, <1>6, <1>7 DEF ELInv

(* The return of a callback, with completion and deferred destruction, keeps the invariant. *)
LEMMA PollLeavePreserves ==
    ASSUME ELInv, ELTypeOK', NEW s \in Slots, PollLeave(s)
    PROVE  ELInv'
  <1> DEFINE c == callback_tasks[s].stored
  <1>1. callback_tasks[s].invoking /\ c \in Callables /\ callback_tasks[s] \in Task
    <2>1. callback_tasks[s].invoking /\ callback_tasks[s] \in Task
      BY DEF PollLeave, ELInv, ELTypeOK
    <2> QED
      BY <2>1 DEF ELInv, SlotFlags, Task
  <1>2. \A u \in Slots : u # s => callback_tasks'[u] = callback_tasks[u]
    BY DEF PollLeave, ELInv, ELTypeOK
  <1>3. regs[c].handle.slot = s
    BY <1>1 DEF ELInv, StoredOwner
  <1>4. CASE callback_tasks[s].active /\ regs[c].kind = "delay"
    <2>1. Released(regs[c].handle)
      <3>1. regs[c].phase = "live"
        BY <1>1, <1>4 DEF ELInv, StoredOwner
      <3>2. valid(regs[c].handle)
        BY <1>1, <3>1, LiveIsValid
      <3> QED
        BY <3>2 DEF valid, Released
    <2>2. /\ callback_tasks'[s] = poll_leave(clear(callback_tasks[s]))
          /\ CountDestroyed(LeaveDestroys(clear(callback_tasks[s])))
          /\ callback_used' = [callback_used EXCEPT ![s] = FALSE]
          /\ callback_generations' = [callback_generations EXCEPT ![s] = NextGeneration(callback_generations[s])]
          /\ releases' = [releases EXCEPT ![s] = releases[s] + 1]
          /\ regs' = EndRegistration(s, "done")
      BY <1>4, <2>1 DEF PollLeave, ELInv, ELTypeOK
    <2>3. /\ ~ callback_tasks'[s].active /\ ~ callback_tasks'[s].enabled
          /\ ~ callback_tasks'[s].clear_requested /\ ~ callback_tasks'[s].invoking
          /\ callback_tasks'[s].stored = NoCallable
      BY <1>1, <2>2 DEF poll_leave, clear, destroy_now, Task
    <2>4. LeaveDestroys(clear(callback_tasks[s])) = {c}
      BY <1>1 DEF LeaveDestroys, Destroyed, clear, Task
    <2>5. regs' = [regs EXCEPT ![c] = [regs[c] EXCEPT !.phase = "done"]]
      BY <1>1, <2>2, EndRegistrationIs DEF ELInv
    <2>6. /\ destroyed'[c] = destroyed[c] + 1
          /\ \A b \in Callables : b # c => destroyed'[b] = destroyed[b]
      BY <1>1, <2>2, <2>4, CountOne DEF ELInv
    <2> QED
      BY <1>1, <1>2, <1>4, <2>2, <2>3, <2>5, <2>6, ReleasePreserves DEF ReleaseStep
  <1>5. CASE callback_tasks[s].active /\ regs[c].kind # "delay"
    <2>1. ~ callback_tasks[s].clear_requested
      BY <1>5 DEF ELInv, SlotFlags
    <2>2. /\ callback_tasks'[s] = poll_leave(callback_tasks[s])
          /\ CountDestroyed(LeaveDestroys(callback_tasks[s]))
          /\ UNCHANGED <<callback_used, callback_generations, releases, regs>>
      BY <1>5 DEF PollLeave, ELInv, ELTypeOK
    <2>3. destroyed' = destroyed
      BY <2>1, <2>2, CountNone DEF LeaveDestroys, ELInv
    <2>4. /\ callback_tasks'[s].active <=> callback_tasks[s].active
          /\ callback_tasks'[s].clear_requested <=> callback_tasks[s].clear_requested
          /\ callback_tasks'[s].enabled <=> callback_tasks[s].enabled
          /\ callback_tasks'[s].stored = callback_tasks[s].stored
          /\ ~ callback_tasks'[s].invoking
      BY <1>1, <2>1, <2>2 DEF poll_leave, Task
    <2> QED
      BY <1>2, <1>5, <2>1, <2>2, <2>3, <2>4, FlagPreserves
  <1>6. CASE ~ callback_tasks[s].active
    <2>1. callback_tasks[s].clear_requested /\ ~ callback_used[s] /\ ~ callback_tasks[s].enabled
      BY <1>1, <1>6 DEF ELInv, SlotFlags
    <2>2. ~ Released(regs[c].handle)
      BY <1>3, <2>1 DEF Released
    <2>3. /\ callback_tasks'[s] = poll_leave(callback_tasks[s])
          /\ CountDestroyed(LeaveDestroys(callback_tasks[s]))
          /\ UNCHANGED <<callback_used, callback_generations, releases, regs>>
      BY <2>2 DEF PollLeave, ELInv, ELTypeOK
    <2>4. SameTask(callback_tasks'[s], EmptyTask)
      BY <1>1, <2>1, <2>3 DEF SameTask, EmptyTask, poll_leave, destroy_now, Task
    <2>5. LeaveDestroys(callback_tasks[s]) = {c}
      BY <1>1, <2>1 DEF LeaveDestroys, Destroyed
    <2>6. /\ destroyed'[c] = destroyed[c] + 1
          /\ \A b \in Callables : b # c => destroyed'[b] = destroyed[b]
      BY <1>1, <2>3, <2>5, CountOne DEF ELInv
    <2> QED
      BY <1>1, <1>2, <2>1, <2>3, <2>4, <2>6, DeferredDestroyPreserves
  <1> QED
    BY <1>4, <1>5, <1>6

-----------------------------------------------------------------------------
(* The invariant holds at the start ... *)
LEMMA ELInvInit == ELInit => ELInv
  <1> SUFFICES ASSUME ELInit PROVE ELInv
    OBVIOUS
  <1>1. SlotFlags /\ StoredOwner
    BY DEF ELInit, SlotFlags, StoredOwner, EmptyTask
  <1>2. HandleTrace
    BY DEF ELInit, HandleTrace, TraceOf, Over
  <1>3. DestructorCount
    <2>1. \A c \in Callables : destroyed[c] = 0 /\ regs[c].phase = "new"
      BY DEF ELInit
    <2>2. \A c \in Callables : ~ Over(c)
      BY <2>1 DEF Over
    <2>3. \A c \in Callables : destroyed[c] <= 1
      <3>1. 0 <= 1
        OBVIOUS
      <3> QED
        BY <2>1, <3>1, Zenon
    <2> QED
      BY <2>1, <2>2, <2>3 DEF DestructorCount
  <1> QED
    BY <1>1, <1>2, <1>3, ELTypeInit DEF ELInv

(* ... and is preserved by every operation of the facade. *)
LEMMA ELInvStep == ELInv /\ [ELNext]_elVars => ELInv'
  <1> SUFFICES ASSUME ELInv, [ELNext]_elVars PROVE ELInv'
    OBVIOUS
  <1>0. ELTypeOK'
    BY ELTypeStep DEF ELInv
  <1>1. ASSUME NEW c \in Callables, RejectTableFull(c) PROVE ELInv'
    BY <1>0, <1>1, RejectPreserves DEF RejectTableFull, Reject, SameTask
  <1>2. ASSUME NEW c \in Callables, NEW s \in Slots, RejectBusySlot(c, s) PROVE ELInv'
    BY <1>0, <1>2, RejectBusyPreserves
  <1>3. ASSUME NEW c \in Callables, NEW s \in Slots, RejectUnscheduled(c, s) PROVE ELInv'
    BY <1>0, <1>3, RejectUnscheduledPreserves
  <1>4. ASSUME NEW c \in Callables, NEW k \in Kinds, NEW s \in Slots, Accept(c, k, s)
        PROVE  ELInv'
    BY <1>0, <1>4, AcceptPreserves
  <1>5. ASSUME NEW c \in Callables, Remove(regs[c].handle) PROVE ELInv'
    BY <1>0, <1>5, RemovePreserves
  <1>6. ASSUME NEW c \in Callables, NEW e \in BOOLEAN, SetEnabled(regs[c].handle, e)
        PROVE  ELInv'
    BY <1>0, <1>6, SetEnabledPreserves
  <1>7. ASSUME NEW s \in Slots, PollEnter(s) PROVE ELInv'
    BY <1>0, <1>7, PollEnterPreserves
  <1>8. ASSUME NEW s \in Slots, PollLeave(s) PROVE ELInv'
    BY <1>0, <1>8, PollLeavePreserves
  <1>9. CASE UNCHANGED elVars
    <2>1. SlotFlags' /\ StoredOwner'
      BY <1>9 DEF elVars, ELInv, SlotFlags, StoredOwner
    <2>2. HandleTrace'
      BY <1>9 DEF elVars, ELInv, HandleTrace, TraceOf, Over
    <2>3. DestructorCount'
      BY <1>9 DEF elVars, ELInv, DestructorCount, Stored, Over
    <2> QED
      BY <1>0, <2>1, <2>2, <2>3 DEF ELInv
  <1> QED
    BY <1>1, <1>2, <1>3, <1>4, <1>5, <1>6, <1>7, <1>8, <1>9 DEF ELNext, Register, UseHandle

(* The inductive invariant holds in every reachable state. *)
THEOREM ELInvariant == ELSpec => []ELInv
  BY ELInvInit, ELInvStep, PTL DEF ELSpec

(* The properties TLC checks on a small table, for every table: live        *)
(* handles reach their callable ...                                         *)
THEOREM LiveHandlesValid == ELSpec => []LiveHandleValid
  <1>1. ELInv => LiveHandleValid
    BY LiveIsValid DEF LiveHandleValid
  <1> QED
    BY <1>1, ELInvariant, PTL

(* ... stale handles are rejected until the 16-bit generation has turned,   *)
(* whatever sequence of registrations and removals the application makes    *)
(* and whatever the scheduler answers ...                                   *)
THEOREM StaleHandlesRejected == ELSpec => []StaleHandleRejected
  <1>1. ELInv => StaleHandleRejected
    <2> SUFFICES ASSUME ELInv, NEW c \in Callables, Over(c), valid(regs[c].handle)
                 PROVE  releases[regs[c].handle.slot] - regs[c].epoch >= GenMod
      BY DEF StaleHandleRejected
    <2> DEFINE s == regs[c].handle.slot
               g == regs[c].handle.generation
               n == releases[s] - regs[c].epoch
    <2>1. s \in Slots /\ g < GenMod /\ regs[c].epoch < releases[s]
          /\ (n < GenMod => callback_generations[s] = Later(g, n))
      BY DEF ELInv, HandleTrace, TraceOf, Over
    <2>2. releases[s] \in Nat /\ regs[c].epoch \in Nat /\ g \in Nat
      BY <2>1 DEF ELInv, ELTypeOK, Registration, Handle
    <2>3. callback_generations[s] = g
      BY DEF valid
    <2>4. n \in Nat /\ n > 0
      BY <2>1, <2>2
    <2>5. n < GenMod => Later(g, n) # g
      BY <2>1, <2>2, <2>4 DEF Later
    <2> HIDE DEF n
    <2> QED
      BY <2>1, <2>3, <2>4, <2>5 DEF n
  <1> QED
    BY <1>1, ELInvariant, PTL

(* ... and the callable being executed is never destroyed under its feet,   *)
(* although its own callback may remove it.                                 *)
THEOREM ExecutingCallablesAlive == ELSpec => []ExecutingCallableAlive
  <1>1. ELInv => ExecutingCallableAlive
    <2> SUFFICES ASSUME ELInv, NEW s \in Slots, callback_tasks[s].invoking
                 PROVE  /\ callback_tasks[s].stored \in Callables
                        /\ regs[callback_tasks[s].stored].handle.slot = s
                        /\ destroyed[callback_tasks[s].stored] = 0
      BY DEF ExecutingCallableAlive
    <2> DEFINE c == callback_tasks[s].stored
    <2>1. c \in Callables
      BY DEF ELInv, SlotFlags, ELTypeOK, Task
    <2>2. regs[c].handle.slot = s /\ (regs[c].phase = "live" \/ Over(c))
      BY <2>1 DEF ELInv, StoredOwner, Over
    <2>3. Stored(c)
      BY DEF Stored
    <2> QED
      BY <2>1, <2>2, <2>3 DEF ELInv, DestructorCount
  <1> QED
    BY <1>1, ELInvariant, PTL

(* No stored callable is leaked or destroyed twice. *)
THEOREM CallablesDestroyedOnce == ELSpec => []DestroyedOnce
  <1>1. ELInv => DestroyedOnce
    <2> SUFFICES ASSUME ELInv, NEW c \in Callables
                 PROVE  /\ regs[c].phase = "live" => destroyed[c] = 0
                        /\ Over(c) => destroyed[c] =
                              IF \E s \in Slots : callback_tasks[s].invoking /\ callback_tasks[s].stored = c
                              THEN 0 ELSE 1
                        /\ destroyed[c] <= 1
      BY DEF DestroyedOnce
    <2>1. ASSUME Over(c), NEW s \in Slots, callback_tasks[s].stored = c
          PROVE  callback_tasks[s].invoking
      BY <2>1 DEF ELInv, SlotFlags, StoredOwner, Over
    <2> QED
      BY <2>1 DEF ELInv, DestructorCount, Stored
  <1> QED
    BY <1>1, ELInvariant, PTL

(* A callback starts only for a live, enabled registration. *)
THEOREM CallbacksRunOnlyLive == ELSpec => RunsOnlyLive
  <1>1. ELInv /\ [ELNext]_elVars =>
          [\A s \in Slots : ~ callback_tasks[s].invoking /\ callback_tasks'[s].invoking =>
             /\ regs[callback_tasks[s].stored].phase = "live"
             /\ callback_tasks[s].enabled]_elVars
    <2> SUFFICES ASSUME ELInv, ELNext, NEW s \in Slots,
                        ~ callback_tasks[s].invoking, callback_tasks'[s].invoking
                 PROVE  /\ regs[callback_tasks[s].stored].phase = "live"
                        /\ callback_tasks[s].enabled
      OBVIOUS
    <2>1. PICK u \in Slots : PollEnter(u)
      <3>1. ASSUME NEW c \in Callables, RejectTableFull(c) PROVE FALSE
        BY <3>1 DEF RejectTableFull
      <3>2. ASSUME NEW c \in Callables, NEW u \in Slots, RejectBusySlot(c, u) PROVE FALSE
        BY <3>2 DEF RejectBusySlot, set, set_ok, clear, ELInv, ELTypeOK, Task
      <3>3. ASSUME NEW c \in Callables, NEW u \in Slots, RejectUnscheduled(c, u) PROVE FALSE
        BY <3>3 DEF RejectUnscheduled, set, set_ok, clear, destroy_now, ELInv, ELTypeOK, Task
      <3>4. ASSUME NEW c \in Callables, NEW k \in Kinds, NEW u \in Slots, Accept(c, k, u) PROVE FALSE
        BY <3>4 DEF Accept, set, set_ok, clear, destroy_now, ELInv, ELTypeOK, Task
      <3>5. ASSUME NEW h, Remove(h) PROVE FALSE
        BY <3>5 DEF Remove, clear, destroy_now, ELInv, ELTypeOK, Task
      <3>6. ASSUME NEW h, NEW e \in BOOLEAN, SetEnabled(h, e) PROVE FALSE
        BY <3>6 DEF SetEnabled, set_enabled, ELInv, ELTypeOK, Task
      <3>7. ASSUME NEW u \in Slots, PollLeave(u) PROVE FALSE
        BY <3>7 DEF PollLeave, poll_leave, clear, destroy_now, ELInv, ELTypeOK, Task
      <3> QED
        BY <3>1, <3>2, <3>3, <3>4, <3>5, <3>6, <3>7 DEF ELNext, Register, UseHandle
    <2>2. u = s /\ poll_runs(callback_tasks[s])
      BY <2>1 DEF PollEnter, ELInv, ELTypeOK
    <2> QED
      BY <2>2 DEF poll_runs, ELInv, StoredOwner
  <1> QED
    BY <1>1, ELInvariant, PTL DEF ELSpec, RunsOnlyLive

-----------------------------------------------------------------------------
(* What the schedulers' proofs need to know of the facade's steps.          *)

(* A task keeps its callable while it is being invoked, and only polls      *)
(* start and end an invocation.                                             *)
ExecutingKept ==
    \A s \in Slots :
        /\ callback_tasks'[s].invoking = callback_tasks[s].invoking
        /\ callback_tasks[s].invoking => callback_tasks'[s].stored = callback_tasks[s].stored

(* Registering and the use of handles leave the executing callable alone. *)
LEMMA RegisterKeepsExecuting ==
    ASSUME ELInv, NEW c \in Callables, NEW k \in Kinds, Register(c, k)
    PROVE  ExecutingKept
  <1>1. CASE RejectTableFull(c)
    BY <1>1 DEF RejectTableFull, ExecutingKept
  <1>2. ASSUME NEW s \in Slots, RejectBusySlot(c, s) PROVE ExecutingKept
    BY <1>2 DEF RejectBusySlot, set, set_ok, clear, ELInv, ELTypeOK, Task, ExecutingKept
  <1>3. ASSUME NEW s \in Slots, RejectUnscheduled(c, s) PROVE ExecutingKept
    BY <1>3 DEF RejectUnscheduled, set, set_ok, clear, destroy_now, ELInv, ELTypeOK, Task, ExecutingKept
  <1>4. ASSUME NEW s \in Slots, Accept(c, k, s) PROVE ExecutingKept
    BY <1>4 DEF Accept, set, set_ok, clear, destroy_now, ELInv, ELTypeOK, Task, ExecutingKept
  <1> QED
    BY <1>1, <1>2, <1>3, <1>4 DEF Register

LEMMA UseKeepsExecuting ==
    ASSUME ELInv, NEW h, UseHandle(h)
    PROVE  ExecutingKept
  <1>1. CASE Remove(h)
    BY <1>1 DEF Remove, clear, destroy_now, ELInv, ELTypeOK, Task, ExecutingKept
  <1>2. ASSUME NEW e \in BOOLEAN, SetEnabled(h, e) PROVE ExecutingKept
    BY <1>2 DEF SetEnabled, set_enabled, ELInv, ELTypeOK, Task, ExecutingKept
  <1> QED
    BY <1>1, <1>2 DEF UseHandle

(* A registration, refused or not, leaves the other tasks and registrations *)
(* alone. *)
LEMMA RegisterKeepsOthers ==
    ASSUME ELInv, NEW c \in Callables, NEW k \in Kinds, Register(c, k),
           NEW d \in Callables, d # c
    PROVE  /\ regs'[d] = regs[d]
           /\ Live(d) => callback_tasks'[regs[d].handle.slot] = callback_tasks[regs[d].handle.slot]
  <1>1. ASSUME Live(d)
        PROVE  regs[d].handle.slot \in Slots /\ callback_used[regs[d].handle.slot]
    BY <1>1 DEF Live, ELInv, HandleTrace, TraceOf, SlotFlags
  <1>2. CASE RejectTableFull(c)
    BY <1>2 DEF RejectTableFull, Reject, ELInv, ELTypeOK
  <1>3. ASSUME NEW s \in Slots, RejectBusySlot(c, s) \/ RejectUnscheduled(c, s) \/ Accept(c, k, s)
        PROVE  /\ regs'[d] = regs[d]
               /\ Live(d) => callback_tasks'[regs[d].handle.slot] = callback_tasks[regs[d].handle.slot]
    <2>1. regs'[d] = regs[d] /\ ~ callback_used[s]
      BY <1>3 DEF RejectBusySlot, RejectUnscheduled, Accept, Reject, FirstUnused, ELInv, ELTypeOK
    <2>2. \A t \in Slots : t # s => callback_tasks'[t] = callback_tasks[t]
      BY <1>3 DEF RejectBusySlot, RejectUnscheduled, Accept, ELInv, ELTypeOK
    <2> QED
      BY <1>1, <2>1, <2>2
  <1> QED
    BY <1>2, <1>3 DEF Register

(* What the return of a callable does to its registration: a live delay is  *)
(* done, anything else stays as it is. *)
LEMMA LeaveEffect ==
    ASSUME ELInv, NEW s \in Slots, PollLeave(s), NEW c \in Callables, callback_tasks[s].stored = c
    PROVE  /\ \A d \in Callables : d # c => regs'[d] = regs[d]
           /\ \A t \in Slots : t # s => callback_tasks'[t] = callback_tasks[t]
           /\ Over(c) => regs'[c].phase \in {"removed", "done"}
           /\ Live(c) /\ regs[c].kind = "delay" => regs'[c].phase = "done"
           /\ Live(c) /\ regs[c].kind # "delay" =>
                /\ regs'[c] = regs[c] /\ regs[c].handle.slot = s
                /\ callback_tasks'[s].enabled = callback_tasks[s].enabled
  <1>1. \A d \in Callables : d # c => regs'[d] = regs[d]
    BY DEF PollLeave, EndRegistration
  <1>2. \A t \in Slots : t # s => callback_tasks'[t] = callback_tasks[t]
    BY DEF PollLeave, ELInv, ELTypeOK
  <1>3. regs'[c] = regs[c] \/ regs'[c].phase = "done"
    BY DEF PollLeave, EndRegistration, ELInv, ELTypeOK, Registration
  <1>4. ASSUME Live(c), regs[c].kind = "delay" PROVE regs'[c].phase = "done"
    <2>1. valid(regs[c].handle)
      BY <1>4, LiveIsValid DEF Live
    <2>2. Released(regs[c].handle)
      BY <2>1 DEF valid, Released
    <2> QED
      BY <1>4, <2>2 DEF PollLeave, EndRegistration, ELInv, ELTypeOK, Registration
  <1>5. ASSUME Live(c), regs[c].kind # "delay"
        PROVE  /\ regs'[c] = regs[c] /\ regs[c].handle.slot = s
               /\ callback_tasks'[s].enabled = callback_tasks[s].enabled
    <2>1. regs[c].handle.slot = s
      BY NoCallableAssumption DEF ELInv, StoredOwner
    <2>2. callback_tasks[s].active /\ ~ callback_tasks[s].clear_requested
      BY <1>5, <2>1 DEF Live, ELInv, HandleTrace, TraceOf, SlotFlags
    <2>3. regs' = regs /\ callback_tasks' = [callback_tasks EXCEPT ![s] = poll_leave(callback_tasks[s])]
      BY <1>5 DEF PollLeave
    <2>4. callback_tasks'[s].enabled = callback_tasks[s].enabled
      BY <2>2, <2>3 DEF poll_leave, ELInv, ELTypeOK, Task
    <2> QED
      BY <2>1, <2>3, <2>4
  <1> QED
    BY <1>1, <1>2, <1>3, <1>4, <1>5 DEF Over
=============================================================================
