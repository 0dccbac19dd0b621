-------------------------- MODULE RTuinOSScheduler --------------------------
(***************************************************************************)
(* What the RTuinOS kernel promises its tasks, without lists, timers,      *)
(* events or stacks: every task is either waiting (suspended) or ready     *)
(* (due); the running task is a ready task of the highest priority class   *)
(* that has one, or the idle task if no task is ready.                     *)
(*                                                                         *)
(*  - Waiting tasks become ready only in a kernel step: a system timer     *)
(*    tick or the posting of events.                                       *)
(*  - Only the running task leaves the ready set, by suspending itself.    *)
(*  - A running task keeps the CPU while it is one of the highest ready    *)
(*    tasks, except at a tick in round-robin mode (its slice may end).     *)
(*                                                                         *)
(* now is the system time, which only the tick advances.                   *)
(***************************************************************************)
EXTENDS Naturals

CONSTANTS
    Tasks,          \* the application tasks
    Idle,           \* the idle task, not in Tasks
    PrioClass,      \* Tasks -> priority class, higher is more urgent
    RoundRobin,     \* round-robin mode compiled in
    TimeRange       \* the cycle of the system time

VARIABLES running, ready, waiting, now

vars == <<running, ready, waiting, now>>

\* The ready tasks of the highest class among R.
TopReady(R) == {t \in R : \A u \in R : PrioClass[u] <= PrioClass[t]}

\* The tasks that may run when R is ready.
Eligible(R) == IF R = {} THEN {Idle} ELSE TopReady(R)

Init ==
    /\ running = Idle
    /\ ready = {}
    /\ waiting = Tasks
    /\ now = TimeRange - 1

\* Tasks S are released; the running task is kept unless a higher class got
\* ready or, when mayRotate, its slice may have ended.
Release(S, mayRotate) ==
    /\ ready' = ready \cup S
    /\ waiting' = waiting \ S
    /\ running' \in Eligible(ready')
    /\ (~mayRotate /\ running \in Eligible(ready')) => running' = running

\* A system timer tick.
Tick ==
    /\ now' = (now + 1) % TimeRange
    /\ \E S \in SUBSET waiting : Release(S, RoundRobin)

\* rtos_setEvent or a user interrupt posts events.
Post ==
    /\ UNCHANGED now
    /\ \E S \in SUBSET waiting : Release(S, FALSE)

\* The running task suspends itself.
Suspend ==
    /\ running # Idle
    /\ ready' = ready \ {running}
    /\ waiting' = waiting \cup {running}
    /\ running' \in Eligible(ready')
    /\ UNCHANGED now

Next == Tick \/ Post \/ Suspend

\* The system timer keeps ticking: the tick interrupt is always enabled, and
\* every kernel entry and every task leaves interrupts enabled.
Spec == Init /\ [][Next]_vars /\ WF_vars(Tick)

\* The running task is eligible and the sets partition the tasks.
SchedulerInv ==
    /\ running \in Eligible(ready)
    /\ ready \cap waiting = {}
    /\ ready \cup waiting = Tasks
=============================================================================
