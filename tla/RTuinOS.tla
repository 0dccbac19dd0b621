------------------------------- MODULE RTuinOS -------------------------------
(***************************************************************************)
(* The RTuinOS kernel of src/RTuinOS/code/RTOS/rtos.c: the task table,     *)
(* the due (ready) lists and the suspended list, the tick engine, the      *)
(* event setter, the suspend command, and the context-switch protocol that *)
(* saves a task's CPU context on its own stack and stages the return code  *)
(* of a suspend command.                                                   *)
(*                                                                         *)
(* Every kernel entry (the system tick ISR, the user ISRs, rtos_setEvent,  *)
(* rtos_waitForEvent) runs with interrupts globally disabled from its      *)
(* first instruction to its final reti, so each is one atomic action.      *)
(*                                                                         *)
(* Event vectors (uint16_t bit vectors in the code) are sets of event      *)
(* bits: | is \cup, & is \cap, ^ is the symmetric difference and "!= 0" is *)
(* "# {}".  The system time is kept at its width TimeBits (cyclic).        *)
(***************************************************************************)
EXTENDS Integers, Sequences, FiniteSets, SequencesExt

CONSTANTS
    NoTasks,            \* RTOS_NO_TASKS: the application tasks are 0..NoTasks-1
    NoPrioClasses,      \* RTOS_NO_PRIO_CLASSES
    MaxTasksInPrioClass,\* RTOS_MAX_NO_TASKS_IN_PRIO_CLASS
    TimeBits,           \* width of uintTime_t
    OverrunMax,         \* saturation value of the 8 bit cntOverrun (0xff)
    RoundRobinMode,     \* RTOS_ROUND_ROBIN_MODE_SUPPORTED
    PrioClass,          \* task -> priority class (rtos_initializeTask)
    TimeRoundRobin,     \* task -> round-robin slice, 0 = off
    StartCondition,     \* task -> [mask, all, timeout] given to rtos_initializeTask
    ABS_TIMER,          \* RTOS_EVT_ABSOLUTE_TIMER
    DELAY_TIMER,        \* RTOS_EVT_DELAY_TIMER
    AppEvents,          \* the postable event bits
    IsrEvents,          \* RTOS_EVT_ISR_USER_00/01 of the enabled user ISRs
    WaitCalls,          \* task -> the rtos_waitForEvent calls its code makes
    PostVecs,           \* the vectors the tasks may pass to rtos_setEvent
    NoSP                \* the saved stack pointer 0 of the idle task at start

Tasks    == 0..NoTasks-1
Idle     == NoTasks                      \* IDLE_TASK_ID
AllTasks == Tasks \cup {Idle}
Classes  == 0..NoPrioClasses-1
TimeRange == 2^TimeBits
TimerEvtMask == {ABS_TIMER, DELAY_TIMER}
Events   == AppEvents \cup IsrEvents \cup TimerEvtMask

\* The layout of a task's saved context on its stack.  "noRet": the context
\* of a suspend command or a fresh task, without r24/r25; "full": with them;
\* "none": nothing saved, the task runs; "corrupt": a frame of the wrong size.
Frames == {"none", "noRet", "full", "corrupt"}

ASSUME /\ NoTasks \in Nat \ {0} /\ NoPrioClasses \in Nat \ {0}
       /\ TimeBits \in Nat \ {0} /\ OverrunMax \in Nat \ {0}
       /\ RoundRobinMode \in BOOLEAN
       /\ PrioClass \in [Tasks -> Classes]
       /\ TimeRoundRobin \in [Tasks -> 0..TimeRange-1]
       \* _pDueTaskAryAry has room for every task of a class.
       /\ \A c \in Classes :
            Cardinality({t \in Tasks : PrioClass[t] = c}) <= MaxTasksInPrioClass

VARIABLES
    time,               \* _time
    timeDueAt,          \* task_t.timeDueAt
    cntDelay,           \* task_t.cntDelay
    cntRoundRobin,      \* task_t.cntRoundRobin
    postedEventVec,     \* task_t.postedEventVec
    eventMask,          \* task_t.eventMask
    waitForAnyEvent,    \* task_t.waitForAnyEvent
    cntOverrun,         \* task_t.cntOverrun
    dueTaskAry,         \* _pDueTaskAryAry with _noDueTasksAry: class -> Seq
    suspendedTaskAry,   \* _pSuspendedTaskAry with _noSuspendedTasks
    activeTask,         \* _pActiveTask
    suspendedTask,      \* _pSuspendedTask
    stackPointer,       \* task_t.stackPointer: whose stack it points into
    cpuSp,              \* the CPU stack pointer: whose stack it points into
    frame,              \* per stack: the saved context on top of it
    \* History, not kernel state: the timeout of the task's last delay-timer
    \* load in storeResumeCondition and the ticks counted since then.
    delayAsked,
    ticksWaited

vars == <<time, timeDueAt, cntDelay, cntRoundRobin, postedEventVec, eventMask,
          waitForAnyEvent, cntOverrun, dueTaskAry, suspendedTaskAry,
          activeTask, suspendedTask, stackPointer, cpuSp, frame,
          delayAsked, ticksWaited>>

Prio(t) == IF t = Idle THEN 0 ELSE PrioClass[t]   \* idle: zero-initialised
\* Variant: the round-robin counter is not reloaded.
RRReloadMissing(t) == 0
RRReload(t) == IF RoundRobinMode /\ t # Idle THEN TimeRoundRobin[t] ELSE 0

\* (intTime_t)x: the signed reading of a uintTime_t value.
IntTime(x) == IF x >= TimeRange \div 2 THEN x - TimeRange ELSE x

-----------------------------------------------------------------------------
(* Context primitive: PUSH_CONTEXT_*, PUSH_RET_CODE_OF_CONTEXT_SWITCH and  *)
(* POP_CONTEXT_FROM_STACK as what they do to the frame on top of a stack.  *)

PushContext(f, entry) == IF f = "none" THEN entry ELSE "corrupt"
PushRetCode(f) == IF f = "noRet" THEN "full" ELSE "corrupt"
PopContext(f)  == IF f = "full" THEN "none" ELSE "corrupt"

(* The tail of every kernel entry: push the interrupted context (with or   *)
(* without r24/r25), and if the active task changed SWITCH_CONTEXT and     *)
(* PUSH_RET_CODE_OF_CONTEXT_SWITCH, then POP_CONTEXT_FROM_STACK.  p is the *)
(* posted-event vector the kernel logic left behind.                       *)
\* Variant: the staged task's postedEventVec is not reset.
ContextSwitchNoClear(entry, sw, newActive, newSuspended, p) ==
    LET f1   == [frame EXCEPT ![cpuSp] = PushContext(@, entry)]
        cpu1 == IF sw THEN stackPointer[newActive] ELSE cpuSp
        stage == sw /\ p[newActive] # {}
        f2   == IF stage THEN [f1 EXCEPT ![cpu1] = PushRetCode(@)] ELSE f1
    IN /\ stackPointer' = IF sw THEN [stackPointer EXCEPT ![newSuspended] = cpuSp]
                                ELSE stackPointer
       /\ cpuSp' = cpu1
       /\ postedEventVec' = p
       /\ frame' = [f2 EXCEPT ![cpu1] = PopContext(@)]

ContextSwitch(entry, sw, newActive, newSuspended, p) ==
    LET f1   == [frame EXCEPT ![cpuSp] = PushContext(@, entry)]
        cpu1 == IF sw THEN stackPointer[newActive] ELSE cpuSp
        stage == sw /\ p[newActive] # {}
        f2   == IF stage THEN [f1 EXCEPT ![cpu1] = PushRetCode(@)] ELSE f1
    IN /\ stackPointer' = IF sw THEN [stackPointer EXCEPT ![newSuspended] = cpuSp]
                                ELSE stackPointer
       /\ cpuSp' = cpu1
       /\ postedEventVec' = IF stage THEN [p EXCEPT ![newActive] = {}] ELSE p
       /\ frame' = [f2 EXCEPT ![cpu1] = PopContext(@)]

-----------------------------------------------------------------------------
(* Tick and event engine.                                                  *)

\* The wait predicate of checkForTaskActivation, for posted vector p.
IsReleased(t, p) ==
    LET m == eventMask[t]
    IN \/ waitForAnyEvent[t] /\ p[t] # {}
       \/ /\ ~waitForAnyEvent[t]
          /\ \/ ((p[t] \ m) \cup (m \ p[t])) \ TimerEvtMask = {}
             \/ p[t] \cap m \cap TimerEvtMask # {}

\* Variant: the scan advances its index after a release too, so the task
\* compacted into the current slot is skipped in this scan.
RECURSIVE ReleasedTasksSkipNext(_, _)
ReleasedTasksSkipNext(susp, p) ==
    IF susp = <<>> THEN <<>>
    ELSE IF IsReleased(Head(susp), p)
           THEN <<Head(susp)>> \o IF Len(susp) = 1 THEN <<>>
                                  ELSE ReleasedTasksSkipNext(Tail(Tail(susp)), p)
           ELSE ReleasedTasksSkipNext(Tail(susp), p)

\* The released tasks in the order the while loop over _pSuspendedTaskAry
\* meets them; the loop does not advance its index on a release because
\* the compaction moves the next task into the current slot.
ReleasedTasks(susp, p) == SelectSeq(susp, LAMBDA t : IsReleased(t, p))

\* Variant: the class loop runs upwards from class 0.
LowestDueClass(due) ==
    LET ne == {c \in Classes : due[c] # <<>>}
    IN IF ne = {} THEN -1 ELSE Min(ne)

\* The first non-empty class scanning from RTOS_NO_PRIO_CLASSES-1 down; -1
\* if every due list is empty.
HighestDueClass(due) ==
    LET ne == {c \in Classes : due[c] # <<>>}
    IN IF ne = {} THEN -1 ELSE Max(ne)

\* Variant: _noDueTasksAry[prio] is not incremented.
AppendReleasedNoCount(due, rel) == due

\* Variant: a released task is inserted at index 0 instead of at the end.
AppendReleasedAtFront(due, rel) ==
    [c \in Classes |-> SelectSeq(rel, LAMBDA t : Prio(t) = c) \o due[c]]

\* Each released task is appended to the due list of its class.
AppendReleased(due, rel) ==
    [c \in Classes |-> due[c] \o SelectSeq(rel, LAMBDA t : Prio(t) = c)]

(* checkForTaskActivation(isNewActiveTask) after the posted vectors became *)
(* p, the due lists due and the round-robin counters rr: the new state of  *)
(* the lists and tasks, and whether the active task changed.               *)
CheckForTaskActivation(isNew, p, due, rr) ==
    LET rel  == ReleasedTasks(suspendedTaskAry, p)
        relS == ToSet(rel)
        due1 == AppendReleased(due, rel)
        cand == isNew \/ rel # <<>>
        top  == HighestDueClass(due1)
        look == cand /\ top # -1
        act  == IF look THEN Head(due1[top]) ELSE activeTask
    IN [susp   |-> SelectSeq(suspendedTaskAry, LAMBDA t : t \notin relS),
        due    |-> due1,
        mask   |-> [t \in AllTasks |-> IF t \in relS THEN {} ELSE eventMask[t]],
        rr     |-> [t \in AllTasks |-> IF t \in relS THEN RRReload(t) ELSE rr[t]],
        active |-> act,
        suspTk |-> IF look THEN activeTask ELSE suspendedTask,
        switch |-> look /\ act # activeTask]

\* Apply the result of CheckForTaskActivation and leave the kernel.
LeaveKernel(sc, entry, p) ==
    /\ suspendedTaskAry' = sc.susp
    /\ dueTaskAry' = sc.due
    /\ eventMask' = sc.mask
    /\ cntRoundRobin' = sc.rr
    /\ activeTask' = sc.active
    /\ suspendedTask' = sc.suspTk
    /\ ContextSwitch(entry, sc.switch, sc.active, sc.suspTk, p)

\* The timer events onTimerTic posts to suspended task t at time now.
TimerEvents(t, now) ==
    ((IF now = timeDueAt[t] THEN {ABS_TIMER} ELSE {})
       \cup (IF cntDelay[t] = 1 THEN {DELAY_TIMER} ELSE {}))
    \cap eventMask[t]

\* Variant: the roll does not force the search for a new active task.
ForceNewActiveMissing(rotate) == FALSE
\* isNewActiveTask = true after a roll: the new head must be looked up even
\* if no suspended task is released.
ForceNewActive(rotate) == rotate

\* Variant: the active task is appended without dropping it from slot 0.
RollDueListKeepHead(s, a) == Append(s, a)

\* The round-robin roll of a due list: every task moves up one slot and the
\* active task, which was at index 0, goes to the end.
RollDueList(s, a) == Append(Tail(s), a)

(* ISR(RTOS_ISR_SYSTEM_TIMER_TIC) with onTimerTic: advance the time, serve *)
(* the timers of the suspended tasks, the round-robin slice of the active  *)
(* task, then checkForTaskActivation.                                      *)
Tick ==
    LET now == (time + 1) % TimeRange
        S   == ToSet(suspendedTaskAry)
        p1  == [t \in AllTasks |->
                  IF t \in S THEN postedEventVec[t] \cup TimerEvents(t, now)
                  ELSE postedEventVec[t]]
        a   == activeTask
        c   == Prio(a)
        dec == RoundRobinMode /\ cntRoundRobin[a] > 0
        expired == dec /\ cntRoundRobin[a] = 1
        rr1 == IF dec THEN [cntRoundRobin EXCEPT ![a] =
                              IF expired THEN RRReload(a) ELSE @ - 1]
               ELSE cntRoundRobin
        rotate == expired /\ Len(dueTaskAry[c]) > 1
        due1 == IF rotate THEN [dueTaskAry EXCEPT ![c] = RollDueList(@, a)]
                ELSE dueTaskAry
    IN /\ time' = now
       /\ cntDelay' = [t \in AllTasks |->
                         IF t \in S /\ cntDelay[t] > 0 THEN cntDelay[t] - 1
                         ELSE cntDelay[t]]
       /\ ticksWaited' = [t \in AllTasks |->
                            IF t \in S /\ cntDelay[t] > 0 THEN ticksWaited[t] + 1
                            ELSE ticksWaited[t]]
       /\ LeaveKernel(CheckForTaskActivation(ForceNewActive(rotate), p1, due1, rr1), "full", p1)
       /\ UNCHANGED <<timeDueAt, waitForAnyEvent, cntOverrun, delayAsked>>

(* setEvent, the logic of rtos_setEvent and of the user ISRs, which jump   *)
(* into rtos_setEvent after its prologue with their own event bit.         *)
\* Variant: the timer bits are not cleared from the posted vector.
PostableEventsUnmasked(vec) == vec

\* The timer events can't be set manually.
PostableEvents(vec) == vec \ TimerEvtMask

\* Variant: the loop stops after the first suspended task it posted to.
PostEventsFirstWaiter(v) ==
    LET hit == SelectSeq(suspendedTaskAry, LAMBDA t : v \cap eventMask[t] # {})
    IN [t \in AllTasks |->
          IF hit # <<>> /\ t = Head(hit)
            THEN postedEventVec[t] \cup (v \cap eventMask[t])
            ELSE postedEventVec[t]]

\* The posting loop: every task in the suspended list gets the bits of v
\* it waits for; tasks that are not suspended get nothing.
PostEvents(v) ==
    [t \in AllTasks |->
       IF t \in ToSet(suspendedTaskAry)
         THEN postedEventVec[t] \cup (v \cap eventMask[t])
         ELSE postedEventVec[t]]

SetEventLogic(vec) ==
    LET p1 == PostEvents(PostableEvents(vec))
    IN /\ LeaveKernel(CheckForTaskActivation(FALSE, p1, dueTaskAry,
                                              cntRoundRobin), "full", p1)
       /\ UNCHANGED <<time, timeDueAt, cntDelay, waitForAnyEvent, cntOverrun,
                      delayAsked, ticksWaited>>

\* rtos_setEvent, called by the active task (the idle task included).
SetEvent == \E vec \in PostVecs : SetEventLogic(vec)

\* ISR(RTOS_ISR_USER_00) and ISR(RTOS_ISR_USER_01).
IsrUser == \E e \in IsrEvents : SetEventLogic({e})

(* storeResumeCondition: the timer part.  With the absolute timer the due  *)
(* time advances by timeout; if it is not ahead of now (signed compare) it *)
(* is an overrun and the task becomes due at the next tick.                *)
\* Variant: the due time taken relative to now, as for a delay.
AbsDueAtFromNow(t, timeout) == (time + timeout) % TimeRange
AbsDueAt(t, timeout) == (timeDueAt[t] + timeout) % TimeRange
\* Variant: "< 0" instead of "<= 0" in the overrun test.
IsOverrunStrict(t, timeout) == IntTime((AbsDueAt(t, timeout) - time) % TimeRange) < 0
IsOverrun(t, timeout) == IntTime((AbsDueAt(t, timeout) - time) % TimeRange) <= 0
\* Variant: cntOverrun is incremented without saturation.
IncOverrunUnsaturated(n) == n + 1
IncOverrun(n) == IF n < OverrunMax THEN n + 1 ELSE n
\* Variant: the delay counter is loaded with the timeout, without ++.
DelayCountNoInc(timeout) == timeout
DelayCount(timeout) ==
    IF (timeout + 1) % TimeRange # 0 THEN timeout + 1 ELSE timeout

StoreResumeCondition(t, mask, all, timeout) ==
    /\ IF ABS_TIMER \in mask
         THEN /\ IF IsOverrun(t, timeout)
                   THEN /\ cntOverrun' = [cntOverrun EXCEPT ![t] = IncOverrun(@)]
                        /\ timeDueAt' = [timeDueAt EXCEPT ![t] = (time + 1) % TimeRange]
                   ELSE /\ timeDueAt' = [timeDueAt EXCEPT ![t] = AbsDueAt(t, timeout)]
                        /\ UNCHANGED cntOverrun
              /\ UNCHANGED <<cntDelay, delayAsked, ticksWaited>>
         ELSE /\ cntDelay' = [cntDelay EXCEPT ![t] = DelayCount(timeout)]
              /\ delayAsked' = [delayAsked EXCEPT ![t] = timeout]
              /\ ticksWaited' = [ticksWaited EXCEPT ![t] = 0]
              /\ UNCHANGED <<timeDueAt, cntOverrun>>
    /\ eventMask' = [eventMask EXCEPT ![t] = mask]
    /\ waitForAnyEvent' = [waitForAnyEvent EXCEPT ![t] = ~all]

(* rtos_waitForEvent with waitForEvent: the active task leaves the head of *)
(* its due list, stores its resume condition, joins the suspended list,    *)
(* and the head of the highest non-empty class (or idle) becomes active.   *)
(* The stack switch is unconditional.  The idle task must not call it.     *)
WaitForEvent ==
    /\ activeTask # Idle
    /\ \E call \in WaitCalls[activeTask] :
      LET pT  == activeTask
          c   == Prio(pT)
          due1 == [dueTaskAry EXCEPT ![c] = Tail(@)]
          top == HighestDueClass(due1)
          new == IF top = -1 THEN Idle ELSE Head(due1[top])
      IN /\ StoreResumeCondition(pT, call.mask, call.all, call.timeout)
         /\ dueTaskAry' = due1
         /\ suspendedTaskAry' = Append(suspendedTaskAry, pT)
         /\ suspendedTask' = pT
         /\ activeTask' = new
         /\ ContextSwitch("noRet", TRUE, new, pT, postedEventVec)
         /\ UNCHANGED <<time, cntRoundRobin>>

\* rtos_getTaskOverrunCounter(idxTask, doReset = true); reading without the
\* reset changes no state.
GetTaskOverrunCounter ==
    \E idx \in Tasks :
      /\ cntOverrun' = [cntOverrun EXCEPT ![idx] = 0]
      /\ UNCHANGED <<time, timeDueAt, cntDelay, cntRoundRobin, postedEventVec,
                     eventMask, waitForAnyEvent, dueTaskAry, suspendedTaskAry,
                     activeTask, suspendedTask, stackPointer, cpuSp, frame,
                     delayAsked, ticksWaited>>

-----------------------------------------------------------------------------
(* rtos_initializeTask(t, ..., startEventMask, startByAllEvents,          *)
(* startTimeout): storeResumeCondition on a task with timeDueAt = cntDelay *)
(* = 0, called from setup() while _time still holds its initial -1.  The  *)
(* fields of the idle task are set by rtos_initRTOS instead.               *)
rtos_initializeTask(t) ==
    LET sc   == StartCondition[t]
        now  == TimeRange - 1
        abs  == ABS_TIMER \in sc.mask
        over == IntTime((sc.timeout - now) % TimeRange) <= 0
    IN [timeDueAt  |-> IF ~abs THEN 0
                       ELSE IF over THEN (now + 1) % TimeRange
                       ELSE sc.timeout % TimeRange,
        cntDelay   |-> IF abs THEN 0 ELSE DelayCount(sc.timeout),
        delayAsked |-> IF abs THEN 0 ELSE sc.timeout,
        eventMask  |-> sc.mask,
        waitForAnyEvent |-> ~sc.all]

\* ASSERT(startEventMask != 0) of rtos_initializeTask.
ASSUME \A t \in Tasks : StartCondition[t].mask # {}

(* rtos_initRTOS after setup() called rtos_initializeTask for every task:  *)
(* the stack seeded by prepareTaskStack, every task suspended in index     *)
(* order, the idle task's fields zeroed and the idle task active on the    *)
(* main stack.                                                             *)
Init ==
    LET T(f, idle) == [t \in AllTasks |->
                         IF t = Idle THEN idle ELSE rtos_initializeTask(t)[f]]
    IN /\ time = TimeRange - 1
       /\ timeDueAt = T("timeDueAt", 0)
       /\ cntDelay = T("cntDelay", 0)
       /\ cntRoundRobin = [t \in AllTasks |-> 0]
       /\ postedEventVec = [t \in AllTasks |-> {}]
       /\ eventMask = T("eventMask", {})
       /\ waitForAnyEvent = T("waitForAnyEvent", TRUE)
       /\ cntOverrun = [t \in AllTasks |-> 0]
       /\ dueTaskAry = [c \in Classes |-> <<>>]
       /\ suspendedTaskAry = [i \in 1..NoTasks |-> i - 1]
       /\ activeTask = Idle
       /\ suspendedTask = Idle
       /\ stackPointer = [t \in AllTasks |-> IF t = Idle THEN NoSP ELSE t]
       /\ cpuSp = Idle
       /\ frame = [t \in AllTasks |-> IF t = Idle THEN "none" ELSE "noRet"]
       /\ delayAsked = T("delayAsked", 0)
       /\ ticksWaited = [t \in AllTasks |-> 0]

Next ==
    \/ Tick
    \/ IsrUser
    \/ SetEvent
    \/ WaitForEvent
    \/ GetTaskOverrunCounter

\* The system tick is a hardware interrupt; every kernel entry and every
\* task returns to interrupts enabled, so the tick is never held off forever.
\* Tick has no guard and always advances time, so it is enabled in every
\* state and weak fairness of Tick is the same as infinitely many ticks.
Spec == Init /\ [][Next]_vars /\ []<><<Tick>>_vars


-----------------------------------------------------------------------------
(* Properties.                                                             *)

Suspended == ToSet(suspendedTaskAry)

\* The tasks in the due lists.
Due == UNION {ToSet(dueTaskAry[c]) : c \in Classes}

Scheduler == INSTANCE RTuinOSScheduler
    WITH running <- activeTask, ready <- Due, waiting <- Suspended,
         now <- time, RoundRobin <- RoundRobinMode

(* The kernel implements the abstract scheduler of RTuinOSScheduler: tasks *)
(* leave the suspended list only in the tick ISR, rtos_setEvent or a user  *)
(* ISR; only the active task suspends; the active task is displaced only   *)
(* by a higher class or, at a tick, by the round-robin roll.               *)
SchedulerSpec == Scheduler!Spec

TypeOK ==
    /\ time \in 0..TimeRange-1
    /\ timeDueAt \in [AllTasks -> 0..TimeRange-1]
    /\ cntDelay \in [AllTasks -> 0..TimeRange-1]
    /\ cntRoundRobin \in [AllTasks -> 0..TimeRange-1]
    /\ postedEventVec \in [AllTasks -> SUBSET Events]
    /\ eventMask \in [AllTasks -> SUBSET Events]
    /\ waitForAnyEvent \in [AllTasks -> BOOLEAN]
    /\ cntOverrun \in [AllTasks -> 0..OverrunMax]
    /\ dueTaskAry \in [Classes -> Seq(Tasks)]
    /\ suspendedTaskAry \in Seq(Tasks)
    /\ {activeTask, suspendedTask, cpuSp} \subseteq AllTasks
    /\ stackPointer \in [AllTasks -> AllTasks \cup {NoSP}]
    /\ frame \in [AllTasks -> Frames]
    /\ delayAsked \in [AllTasks -> 0..TimeRange-1]
    /\ ticksWaited \in [AllTasks -> 0..TimeRange]

(* Every application task is in exactly one slot of exactly one list: the  *)
(* due list of its own class or the suspended list, and no list outgrows   *)
(* its array; the idle task is in none.  The compaction loops of           *)
(* checkForTaskActivation, the head removal of waitForEvent and the        *)
(* round-robin roll of onTimerTic must each keep this.                     *)
TaskListsPartition ==
    /\ \A t \in Tasks :
         Cardinality({<<c, i>> \in Classes \X (1..NoTasks) :
                        i <= Len(dueTaskAry[c]) /\ dueTaskAry[c][i] = t})
         + Cardinality({i \in 1..Len(suspendedTaskAry) : suspendedTaskAry[i] = t})
         = 1
    /\ \A c \in Classes :
         /\ Len(dueTaskAry[c]) <= MaxTasksInPrioClass
         /\ \A i \in 1..Len(dueTaskAry[c]) : PrioClass[dueTaskAry[c][i]] = c

(* Priority respect: the active task is the head of the highest non-empty  *)
(* due list, and it is the idle task exactly when every due list is empty  *)
(* (checkForTaskActivation, waitForEvent and the round-robin roll).        *)
ActiveIsHighestDue ==
    IF \A c \in Classes : dueTaskAry[c] = <<>>
      THEN activeTask = Idle
      ELSE \E c \in Classes :
             /\ dueTaskAry[c] # <<>>
             /\ Head(dueTaskAry[c]) = activeTask
             /\ \A d \in Classes : d > c => dueTaskAry[d] = <<>>

(* The context-switch protocol: the CPU runs on the active task's stack;   *)
(* every other task's saved stack pointer points into its own stack; a     *)
(* task's saved context lacks r24/r25 exactly when it waits inside a       *)
(* suspend command (or has never run) and has not been handed its return   *)
(* code yet, and PUSH_RET_CODE_OF_CONTEXT_SWITCH uses postedEventVec # 0   *)
(* as the signal that it is so.  A violation means a pop of the wrong      *)
(* frame size, i.e. a corrupted task.                                      *)
ContextConsistent ==
    /\ cpuSp = activeTask
    /\ frame[activeTask] = "none"
    /\ postedEventVec[activeTask] = {}
    /\ \A t \in AllTasks \ {activeTask} :
         /\ stackPointer[t] = t
         /\ frame[t] = IF t \in Suspended \/ postedEventVec[t] # {}
                         THEN "noRet" ELSE "full"

(* A task suspended on a timer is armed to fire: on its absolute timer it  *)
(* is due 1 to half a cycle minus one ticks ahead (storeResumeCondition's  *)
(* overrun test), on its delay timer the counter is not 0 (the +1 and its  *)
(* overflow guard).  Otherwise it would sleep a whole cycle or forever.    *)
TimerArmed ==
    \A t \in Suspended :
      /\ ABS_TIMER \in eventMask[t] =>
           (timeDueAt[t] - time) % TimeRange \in 1..(TimeRange \div 2 - 1)
      /\ DELAY_TIMER \in eventMask[t] => cntDelay[t] > 0

(* Invariant 6 of the kernel: no suspended task is left behind whose wait  *)
(* condition already holds (every scan of checkForTaskActivation releases  *)
(* all of them, and a new waiter never starts satisfied).                  *)
NoReleasableSuspended ==
    \A t \in Suspended : ~IsReleased(t, postedEventVec)

\* A due time d is ahead of now when d - now, on the cycle, is in the first
\* half of it (without the signed cast of the code).
AheadOfNow(d) == (d - time) % TimeRange \in 1..(TimeRange \div 2 - 1)

(* The cadence of a regular task (spec: absolute-timer cadence): each time *)
(* a task suspends on its absolute timer with period p, timeDueAt advances *)
(* by exactly p on the cycle if that is still ahead of now and the overrun *)
(* counter is left alone; otherwise the overrun is counted (saturating)    *)
(* and the task becomes due at the next tick.  This is about the += and    *)
(* the signed compare in storeResumeCondition across the wrap of _time.    *)
AbsCadence ==
    [][\A t \in Tasks :
         (/\ t = activeTask /\ t \notin Suspended /\ t \in Suspended'
          /\ ABS_TIMER \in eventMask'[t])
         => \E call \in WaitCalls[t] :
              LET due == (timeDueAt[t] + call.timeout) % TimeRange
              IN /\ ABS_TIMER \in call.mask
                 /\ IF AheadOfNow(due)
                    THEN timeDueAt'[t] = due /\ cntOverrun'[t] = cntOverrun[t]
                    ELSE /\ timeDueAt'[t] = (time + 1) % TimeRange
                         /\ cntOverrun'[t] = IF cntOverrun[t] < OverrunMax
                                              THEN cntOverrun[t] + 1
                                              ELSE OverrunMax]_vars

(* rtos_setEvent broadcasts: the posting loop of setEvent gives an event  *)
(* to every task suspended on it at that moment, not to the first one.     *)
(* So whenever a step posts a postable event e to some task, every other   *)
(* task that was suspended with e in its mask has e posted as well, unless *)
(* it became the active task (its vector then went to r24/r25 and was      *)
(* cleared).  An event set while a task is not suspended is not kept for  *)
(* it (events are not latched), which is the other half of this loop.     *)
EventBroadcast ==
    [][\A e \in AppEvents \cup IsrEvents, t, u \in Tasks :
         (/\ e \in postedEventVec'[t] \ postedEventVec[t]
          /\ u \in Suspended /\ e \in eventMask[u] /\ u # activeTask')
         => e \in postedEventVec'[u]]_vars

(* Timer event bits appear in a posted vector only by expiry of that timer *)
(* in onTimerTic: DELAY_TIMER when the delay counter reaches 0, ABS_TIMER  *)
(* when the time reaches timeDueAt; setEvent must never post them.         *)
TimerEventsOnlyOnExpiry ==
    [][\A t \in Tasks :
         /\ DELAY_TIMER \in postedEventVec'[t] \ postedEventVec[t]
              => cntDelay'[t] = 0 /\ cntDelay[t] = 1
         /\ ABS_TIMER \in postedEventVec'[t] \ postedEventVec[t]
              => time' = timeDueAt[t]]_vars

(* The resolution of the delay timer as rtos_waitForEvent documents it: a *)
(* timeout of n means a delay of n to n+1 tics.  The call falls between    *)
(* two tics, so the delay event must come with the (n+1)-th tic counted   *)
(* by onTimerTic after storeResumeCondition loaded the delay counter.      *)
DelayWithinResolution ==
    [][\A t \in Tasks :
         DELAY_TIMER \in postedEventVec'[t] \ postedEventVec[t]
           => ticksWaited'[t] = delayAsked[t] + 1]_vars

(* Round robin: a task in the due list of the highest class becomes active *)
(* eventually when all tasks of that class have a time slice (the roll of  *)
(* onTimerTic, the reload of the slice on release and on expiry).          *)
DueTaskEventuallyActive ==
    \A t \in Tasks :
      (\E c \in Classes : Contains(dueTaskAry[c], t)) ~> activeTask = t

=============================================================================
