---------------------------- MODULE TimerService ----------------------------
(***************************************************************************)
(* What an event loop promises the application about its timers, whatever  *)
(* tables it keeps: a callback starts only while its registration is live  *)
(* and switched on, not before its due time, and one at a time; a delay is *)
(* over once it has run; a repeating callback that has been served moves   *)
(* on along its own period grid.  A registration has a period of 0 when it *)
(* is a delay.                                                             *)
(*                                                                         *)
(* Time jumps past points of a grid, and the loops differ in what becomes  *)
(* of those points.  A loop that catches up moves a callback to the very   *)
(* next point and runs it once for each point missed; the other moves it   *)
(* beyond the time it has read and leaves the missed points out.           *)
(***************************************************************************)
EXTENDS Naturals

CONSTANTS Callables,
          Idle,      \* no callable
          Periods,   \* the periods asked for
          Times,     \* the points in time
          CatchesUp  \* are missed points run one by one, or left out

VARIABLES clock,     \* the time
          seen,      \* the time as the loop last read it
          status,    \* "new", "live" or "over", per callable
          on,        \* switched on
          period,    \* 0 for a delay
          due,       \* when a live registration may run next, 0 otherwise
          running    \* the callable being executed, or Idle

vars == <<clock, seen, status, on, period, due, running>>

Init ==
    /\ clock \in Times
    /\ seen = clock
    /\ status = [c \in Callables |-> "new"]
    /\ on = [c \in Callables |-> FALSE]
    /\ period = [c \in Callables |-> 0]
    /\ due = [c \in Callables |-> 0]
    /\ running = Idle

Start(c, p, d) ==
    /\ status[c] = "new"
    /\ d >= clock
    /\ status' = [status EXCEPT ![c] = "live"]
    /\ on' = [on EXCEPT ![c] = TRUE]
    /\ period' = [period EXCEPT ![c] = p]
    /\ due' = [due EXCEPT ![c] = d]
    /\ UNCHANGED <<clock, seen, running>>

Refuse(c) ==
    /\ status[c] = "new"
    /\ status' = [status EXCEPT ![c] = "over"]
    /\ UNCHANGED <<clock, seen, on, period, due, running>>

(* The registration of c ends: every trace of it goes. *)
End(c) ==
    /\ status' = [status EXCEPT ![c] = "over"]
    /\ on' = [on EXCEPT ![c] = FALSE]
    /\ period' = [period EXCEPT ![c] = 0]
    /\ due' = [due EXCEPT ![c] = 0]

Cancel(c) ==
    /\ status[c] = "live"
    /\ End(c)
    /\ UNCHANGED <<clock, seen, running>>

Switch(c, e) ==
    /\ status[c] = "live"
    /\ on' = [on EXCEPT ![c] = e]
    /\ UNCHANGED <<clock, seen, status, period, due, running>>

(* The loop reads the time; it does not while a callback is executed. *)
Look ==
    /\ running = Idle
    /\ seen' = clock
    /\ UNCHANGED <<clock, status, on, period, due, running>>

Fire(c) ==
    /\ running = Idle
    /\ status[c] = "live" /\ on[c]
    /\ seen >= due[c]
    /\ running' = c
    /\ UNCHANGED <<clock, seen, status, on, period, due>>

(* Repeating callback c moves on along its grid: to the next point, or to  *)
(* the first one that has not been reached.                                *)
MoveOn(c) ==
    /\ IF CatchesUp
       THEN due' = [due EXCEPT ![c] = @ + period[c]]
       ELSE /\ \E n \in 1 .. seen + 1 : due' = [due EXCEPT ![c] = @ + n * period[c]]
            /\ seen < due'[c] /\ due'[c] <= seen + period[c]
    /\ UNCHANGED <<status, on, period>>

Return ==
    /\ running # Idle
    /\ running' = Idle
    /\ \/ status[running] = "live" /\ period[running] = 0 /\ End(running)
       \/ status[running] = "live" /\ period[running] # 0 /\ MoveOn(running)
       \/ status[running] # "live" /\ UNCHANGED <<status, on, period, due>>
    /\ UNCHANGED <<clock, seen>>

(* A repeating callback that is switched off lets its due times pass. *)
Pass(c) ==
    /\ status[c] = "live" /\ ~ on[c] /\ period[c] # 0
    /\ seen >= due[c]
    /\ MoveOn(c)
    /\ UNCHANGED <<clock, seen, running>>

Advance ==
    /\ clock' = clock + 1
    /\ UNCHANGED <<seen, status, on, period, due, running>>

Next ==
    \/ \E c \in Callables :
         \/ \E p \in Periods \cup {0}, d \in Times : Start(c, p, d)
         \/ Refuse(c) \/ Cancel(c) \/ Fire(c) \/ Pass(c)
         \/ \E e \in BOOLEAN : Switch(c, e)
    \/ Look
    \/ Return
    \/ Advance

Spec == Init /\ [][Next]_vars
=============================================================================
