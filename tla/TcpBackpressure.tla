-------------------------- MODULE TcpBackpressure --------------------------
(***************************************************************************)
(* TcpBackpressureMonitor of async_event_loop/tcp.hpp, enabled: it counts  *)
(* the checks that found a connection's queued output above the high-water *)
(* mark and reports once, until the output has been at or below the        *)
(* low-water mark again.                                                   *)
(***************************************************************************)
EXTENDS Naturals

CONSTANTS HighWater,         \* high_water_bytes, in blocks
          LowWater,          \* low_water_bytes
          MaxOverHighPolls,  \* max_over_high_polls; 0 counts as 1
          PollsMax           \* UINT32_MAX in the code: the counter saturates

ASSUME WaterMarksAssumption == LowWater \in Nat /\ HighWater \in Nat /\ LowWater <= HighWater
ASSUME PollsAssumption == MaxOverHighPolls \in Nat /\ PollsMax \in Nat /\ PollsMax >= MaxOverHighPolls

Monitor == [over_high_polls : 0 .. PollsMax, reported : BOOLEAN]

reset == [over_high_polls |-> 0, reported |-> FALSE]

trigger_polls == IF MaxOverHighPolls = 0 THEN 1 ELSE MaxOverHighPolls

(* What one check of the pending output does to the counters. *)
Counted(m, pending) ==
    CASE pending > HighWater -> [m EXCEPT !.over_high_polls = IF @ < PollsMax THEN @ + 1 ELSE @]
      [] pending <= LowWater -> reset
      [] OTHER -> m

(* check() returns true ... *)
Reports(m, pending) ==
    LET n == Counted(m, pending) IN n.over_high_polls >= trigger_polls /\ ~ n.reported

(* Seeded fault: reported_ is not remembered. *)
Checked_Forgets(m, pending) == Counted(m, pending)

(* ... and leaves the monitor like this. *)
Checked(m, pending) ==
    [Counted(m, pending) EXCEPT !.reported = @ \/ Reports(m, pending)]
=============================================================================
