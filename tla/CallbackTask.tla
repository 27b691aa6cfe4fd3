---------------------------- MODULE CallbackTask ----------------------------
(***************************************************************************)
(* The fixed-storage callback task of async_event_loop/scheduler.hpp: one  *)
(* callable constructed in place, four flags, and a destruction that is    *)
(* deferred while the callable is on the call stack.                       *)
(*                                                                         *)
(* A task is a record.  Its "stored" field is the callable object living   *)
(* in storage_, or NoCallable: the code's invoke_ and destroy_ pointers    *)
(* are non-null exactly when a callable is stored.                         *)
(***************************************************************************)
CONSTANTS Callables,     \* the callable objects the application registers
          NoCallable     \* the content of an empty storage_

ASSUME NoCallableAssumption == NoCallable \notin Callables

Task == [active          : BOOLEAN,
         enabled         : BOOLEAN,
         invoking        : BOOLEAN,
         clear_requested : BOOLEAN,
         stored          : Callables \cup {NoCallable}]

EmptyTask == [active |-> FALSE, enabled |-> FALSE, invoking |-> FALSE,
              clear_requested |-> FALSE, stored |-> NoCallable]

-----------------------------------------------------------------------------
(* The callable whose destructor destroy_now() runs on task t. *)
Destroyed(t) == IF t.active \/ t.clear_requested THEN {t.stored} \ {NoCallable} ELSE {}

destroy_now(t) ==
    [t EXCEPT !.active = FALSE, !.enabled = FALSE, !.clear_requested = FALSE,
              !.stored = NoCallable]

(* Seeded fault of clear(): destroying while the callable executes. *)
clear_Eager(t) == destroy_now(t)

clear(t) ==
    IF t.invoking
    THEN [t EXCEPT !.active = FALSE, !.enabled = FALSE, !.clear_requested = TRUE]
    ELSE destroy_now(t)

(* The callable that clear() destroys on the spot. *)
ClearDestroys(t) == IF t.invoking THEN {} ELSE Destroyed(t)

(* set(c): clear() first; storing fails when a callable is being invoked.   *)
set_ok(t) == ~ t.invoking

set(t, c) ==
    IF set_ok(t)
    THEN [clear(t) EXCEPT !.active = TRUE, !.enabled = TRUE,
                          !.clear_requested = FALSE, !.stored = c]
    ELSE clear(t)

set_enabled(t, e) == IF t.active THEN [t EXCEPT !.enabled = e] ELSE t

(* Seeded fault: poll() forgets enabled_. *)
poll_runs_Disabled(t) == t.active /\ t.stored # NoCallable

(* poll() up to the call of the callable, and from its return on. *)
poll_runs(t) == t.active /\ t.enabled /\ t.stored # NoCallable

poll_enter(t) == [t EXCEPT !.invoking = TRUE]

poll_leave(t) ==
    LET u == [t EXCEPT !.invoking = FALSE]
    IN  IF u.clear_requested THEN destroy_now(u) ELSE u

(* Seeded fault: poll() forgets the deferred destruction. *)
LeaveDestroys_Never(t) == {}

(* The callable that the end of poll() destroys. *)
LeaveDestroys(t) == IF t.clear_requested THEN Destroyed(t) ELSE {}
=============================================================================
