--------------------------- MODULE SchedPriority ----------------------------
(***************************************************************************)
(* cpthread's priorities (cpthread.h) and sched_get_priority, which turns  *)
(* one into a scheduling policy and a priority within its range.           *)
(***************************************************************************)
EXTENDS Integers

CONSTANTS
  PrioMin,   (* sched_get_priority_min and _max of the two real-time *)
  PrioMax    (* policies: 1 and 99 on Linux, for both                *)

ASSUME PrioAssumption == PrioMin \in Nat /\ PrioMax \in Nat /\ PrioMin <= PrioMax

(* pthread_priority, in the order of the enumeration *)
inherit_priority == 0
idle_priority == 1
normal_priority == 2
rr_lowest_priority == 3
rr_highest_priority == 7
fifo_lowest_priority == 8
fifo_highest_priority == 12

RoundRobin == rr_lowest_priority .. rr_highest_priority
Fifo == fifo_lowest_priority .. fifo_highest_priority

AtMost(a, b) == IF a < b THEN a ELSE b
AtLeast(a, b) == IF a < b THEN b ELSE a

(* Mutant of Scaled: not kept within the range, divided by the lowest level. *)
ScaledUnbounded(priority, lowest, highest) ==
  PrioMin + ((priority - lowest) * (PrioMax - PrioMin)) \div lowest

(* The place of a level in the range; the divisor is the number of the     *)
(* highest level, where the number of levels above the lowest is meant, so *)
(* that the highest level stays below PrioMax.                             *)
Scaled(priority, lowest, highest) ==
  AtLeast(PrioMin, AtMost(PrioMax,
    PrioMin + ((priority - lowest) * (PrioMax - PrioMin)) \div highest))

(* sched_get_priority returns FALSE for any other priority. *)
IsScheduled(priority) ==
  priority \in {idle_priority, normal_priority} \cup RoundRobin \cup Fifo

Scheduling(priority) ==
  CASE priority = idle_priority   -> [policy |-> "idle", prio |-> 0]
    [] priority = normal_priority -> [policy |-> "other", prio |-> 0]
    [] priority \in RoundRobin ->
         [policy |-> "rr",
          prio   |-> Scaled(priority, rr_lowest_priority, rr_highest_priority)]
    [] priority \in Fifo ->
         [policy |-> "fifo",
          prio   |-> Scaled(priority, fifo_lowest_priority, fifo_highest_priority)]

Schedulings ==
  [policy : {"idle", "other"}, prio : {0}]
    \cup [policy : {"rr", "fifo"}, prio : PrioMin .. PrioMax]

=============================================================================
