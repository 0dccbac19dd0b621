----------------------------- MODULE MC_RTuinOS -----------------------------
(***************************************************************************)
(* RTuinOS configurations for TLC.  Events: one application event EVT_0    *)
(* and the bit ISR_USER_00 of user ISR 00.  The system time is 3 bits wide *)
(* (a cycle of 8 ticks, half a cycle 4) in every configuration.            *)
(***************************************************************************)
EXTENDS RTuinOS, TLC

CONSTANTS EVT_0, ISR_USER_00

MC_AppEvents == {EVT_0}
MC_IsrEvents == {ISR_USER_00}

\* rtos_setEvent(EVT_0), and EVT_0 together with a timer bit, which
\* rtos_setEvent has to mask out.
MC_PostVecs == { {EVT_0}, {EVT_0, ABS_TIMER}, {EVT_0, DELAY_TIMER} }

-----------------------------------------------------------------------------
(* Scheduling: three tasks, task 0 in class 1, tasks 1 and 2 in class 0;   *)
(* delays, an "all" wait on two events with a timeout, a pure event wait.  *)

Sched_PrioClass == (0 :> 1) @@ (1 :> 0) @@ (2 :> 0)

Sched_NoRoundRobin == [t \in 0..2 |-> 0]

Sched_StartCondition ==
    (0 :> [mask |-> {EVT_0, DELAY_TIMER}, all |-> FALSE, timeout |-> 2])
 @@ (1 :> [mask |-> {DELAY_TIMER}, all |-> FALSE, timeout |-> 0])
 @@ (2 :> [mask |-> {EVT_0, ISR_USER_00}, all |-> TRUE, timeout |-> 0])

Sched_WaitCalls == [t \in 0..2 |->
    { [mask |-> {DELAY_TIMER}, all |-> FALSE, timeout |-> 0],
      [mask |-> {EVT_0, ISR_USER_00, DELAY_TIMER}, all |-> TRUE, timeout |-> 1],
      [mask |-> {EVT_0}, all |-> FALSE, timeout |-> 0] }]

-----------------------------------------------------------------------------
(* Timers: two tasks in two classes; delay 0 and the largest delay (the +1 *)
(* overflow guard), an absolute period that is met and one longer than    *)
(* half the cycle (an overrun), and "all" waits with a timeout.           *)

Timer_PrioClass == (0 :> 1) @@ (1 :> 0)

Timer_NoRoundRobin == [t \in 0..1 |-> 0]

Timer_StartCondition ==
    (0 :> [mask |-> {ABS_TIMER}, all |-> FALSE, timeout |-> 5])
 @@ (1 :> [mask |-> {EVT_0, DELAY_TIMER}, all |-> TRUE, timeout |-> 7])

\* Task 0 is a regular task on its absolute timer, task 1 sleeps and waits.
Timer_WaitCalls ==
    (0 :> { [mask |-> {ABS_TIMER}, all |-> FALSE, timeout |-> 2],
            [mask |-> {ABS_TIMER}, all |-> FALSE, timeout |-> 6],
            [mask |-> {EVT_0, ABS_TIMER}, all |-> TRUE, timeout |-> 3] })
 @@ (1 :> { [mask |-> {DELAY_TIMER}, all |-> FALSE, timeout |-> 0],
            [mask |-> {DELAY_TIMER}, all |-> FALSE, timeout |-> 7],
            [mask |-> {EVT_0, DELAY_TIMER}, all |-> TRUE, timeout |-> 2] })

\* No user ISR configured; rtos_setEvent(EVT_0 | RTOS_EVT_ABSOLUTE_TIMER
\* | RTOS_EVT_DELAY_TIMER), whose timer bits rtos_setEvent masks out.
Timer_IsrEvents == {}
Timer_PostVecs == { {EVT_0, ABS_TIMER, DELAY_TIMER} }

-----------------------------------------------------------------------------
(* An "all" wait whose mask holds a timer bit and no postable event, as    *)
(* rtos_waitForEvent documents: "the task will resume when either the      *)
(* timer elapsed or when all other events in the mask were seen".          *)

AllTimer_StartCondition ==
    (0 :> [mask |-> {DELAY_TIMER}, all |-> FALSE, timeout |-> 1])
 @@ (1 :> [mask |-> {DELAY_TIMER}, all |-> FALSE, timeout |-> 2])

AllTimer_WaitCalls ==
    [t \in 0..1 |-> { [mask |-> {DELAY_TIMER}, all |-> TRUE, timeout |-> 3] }]

-----------------------------------------------------------------------------
(* Round robin: three tasks in one class with slices of 2, 2 and 1 ticks;  *)
(* each sleeps or waits for EVT_0.                                         *)

RR_PrioClass == [t \in 0..2 |-> 0]

RR_TimeRoundRobin == (0 :> 2) @@ (1 :> 2) @@ (2 :> 1)

RR_StartCondition == [t \in 0..2 |->
    [mask |-> {DELAY_TIMER}, all |-> FALSE, timeout |-> t]]

RR_WaitCalls == [t \in 0..2 |->
    { [mask |-> {DELAY_TIMER}, all |-> FALSE, timeout |-> 0],
      [mask |-> {EVT_0}, all |-> FALSE, timeout |-> 0] }]

RR_PostVecs == { {EVT_0} }
=============================================================================
