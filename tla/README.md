# TLA+ model of the RTuinOS kernel

This directory holds a TLA+ model of the RTuinOS kernel in
`src/RTuinOS/code/RTOS/rtos.c`, the TLC configurations that check it, and
`PROJECT.json`. `PROJECT.json` maps every model definition to the source lines
it translates. It also lists the runs, their mutants, the hazards and the
findings.

## The system

RTuinOS is a preemptive RTOS for an 8-bit AVR. All of its state is in
`rtos.c`:

- **Task table.** `_taskAry` holds the application tasks and, at index
  `RTOS_NO_TASKS`, the idle task. Each task keeps its saved stack pointer, its
  priority class, its timers (`timeDueAt` and `cntDelay`), its round-robin
  slice, its `eventMask`, `postedEventVec` and `waitForAnyEvent`, and its
  overrun counter.
- **Lists.**
  - There is one due list per class: `_pDueTaskAryAry` with `_noDueTasksAry`.
    The active task stays at index 0 of its class's list.
  - There is one suspended list: `_pSuspendedTaskAry` with
    `_noSuspendedTasks`.
  - `_pActiveTask` and `_pSuspendedTask` tell the assembler code which stacks
    to switch.
- **Kernel entries.** There are four: the system tick ISR (which calls
  `onTimerTic`), the user ISRs 00 and 01, `rtos_setEvent` (both call
  `setEvent`), and `rtos_waitForEvent` (which calls `waitForEvent` and
  `storeResumeCondition`).
  - Each entry runs with interrupts disabled from its first instruction to
    its `reti`.
  - Each entry pushes the interrupted context onto the current stack. The
    full context is pushed, except by `rtos_waitForEvent`, which leaves out
    r24/r25.
  - Each entry then runs the C logic, and `checkForTaskActivation` moves
    released tasks to the due lists.
  - If the active task changed, the entry runs `SWITCH_CONTEXT`.
    `PUSH_RET_CODE_OF_CONTEXT_SWITCH` then pushes the resumed task's posted
    events as the return value of its suspend call, but only if the value is
    non-zero.
  - Finally the entry pops the context from the new stack.
- **Initialisation.** `rtos_initializeTask` and `rtos_initRTOS` set up each
  task as suspended with its start condition. The stack is seeded by
  `prepareTaskStack` like a suspend command's stack (no r24/r25). The idle
  task then runs `loop()`. The operator `rtos_initializeTask` computes a
  task's start fields by `storeResumeCondition` at `_time = -1`. Its
  `ASSERT(startEventMask != 0)` is an ASSUME.

## Module `RTuinOS.tla`

**The four entries.** Because each kernel entry is atomic, each is one
action:

- `Tick` models the tick ISR and `onTimerTic`.
- `IsrUser` and `SetEvent` model the user ISRs and `rtos_setEvent`. Both go
  through `SetEventLogic` (`setEvent`).
- `WaitForEvent` models `rtos_waitForEvent` and `waitForEvent`.
- `GetTaskOverrunCounter` is the read-and-reset of
  `rtos_getTaskOverrunCounter`. It disables interrupts for the reset.

**The shared tail.** `CheckForTaskActivation` is the shared tail of the
first three entries. It returns the new lists, the new active task and
whether to switch. `LeaveKernel` applies them and runs `ContextSwitch`.

**Data abstractions.**

- Event vectors are sets of event bits.
- Time is cyclic with width `TimeBits`. `IntTime` is the `(intTime_t)` cast.
- A task's stack is abstracted to the shape of the saved context on top of
  it (`frame`). The shapes are `none`, `noRet` (no r24/r25), `full`, and
  `corrupt` (a push or pop that does not match).
- `stackPointer[t]` and `cpuSp` say which task's stack they point into.

These abstractions are enough to check the push/stage/pop protocol, which
is the part of the context switch that can go wrong across entries.

**Inputs.** The application code is outside `src/`. The model lets the
active task make any call from small per-task sets:

- `WaitCalls[t]` for `rtos_waitForEvent`;
- `PostVecs` for `rtos_setEvent`;
- `IsrEvents` for the enabled user ISRs.

An ISR can interrupt any task at any step. The model also allows the idle
task to post events, as `loop()` may.

**History variables.** `delayAsked` and `ticksWaited` are not kernel
state. They record the timeout of a task's last delay-timer load and the
tics counted since then, so that the documented delay resolution can be
stated (`DelayWithinResolution`).

## Module `RTuinOSScheduler.tla` (the abstract scheduler)

This module states what the kernel promises, without lists, timers, events
or stacks. Each task is either `waiting` or `ready`, and `running` is one
of the highest-class ready tasks, or idle if none is ready. There are three
steps:

- `Tick` (the clock advances) and `Post` release any set of waiting tasks.
  Either way the running task keeps the CPU while it is among the highest
  ready tasks. In round-robin mode a tick may also switch to another task
  of the same class.
- `Suspend` moves the running task to `waiting`.

`RTuinOS.tla` instantiates the module as `Scheduler`, mapping `running` to
`activeTask`, `ready` to the union of the due lists and `waiting` to the
suspended list. `SchedulerSpec == Scheduler!Spec` is checked as a PROPERTY.
This check is about the steps, not only the states. It catches, for
example, a released task placed ahead of the running task of its own class
(`AppendReleasedAtFront`). That bug leaves every invariant of the sched run
true.

## Module `RTuinOSEventBits.tla` (the wait predicate at bit level)

This module models one suspended task's `postedEventVec`, `eventMask` and
`waitForAnyEvent` as W-bit numbers, using the community module `Bitwise`:

- `SetEvent` masks out the timer bits and ORs in `v & mask`.
- `TimerEvent` ORs in a timer bit.
- `Rewait` stands for the resume (the staging cleared the vector) and a new
  wait.

`PredicateMatchesDoc` checks the `^`, `&` and `~` expression of
`checkForTaskActivation` against the any/all rule as documented, on sets of
bit positions. The check covers every mask and every vector that can
accumulate (W = 4: two postable bits and two timer bits). `RTuinOS.tla`
uses the set form, and this run is what justifies it.

## Module `RTuinOSContext.tla` (the context switch at register level)

This module runs the context macros instruction by instruction. The state
is the CPU (`reg` r0..r31, `sreg`, `pc` as LSB/MidSB/MSB, `sp`) and one RAM
`mem` that holds the stacks of all tasks. It also holds
`task_t.stackPointer`, `_pActiveTask`, `postedEventVec` and the set of
suspended tasks that no event has released yet.

**Instructions.**

- A run of `push` instructions is one step of the interpreter `Exec`, and
  so is a run of `pop` instructions. `in`/`out` of SREG and `ldi`/`lds` into
  a register are steps too.
- `PUSH_CONTEXT_WITHOUT_R24R25_ONTO_STACK`, `PUSH_CONTEXT_ONTO_STACK` and
  `POP_CONTEXT_FROM_STACK` are these programs, in the order of the asm
  lines.
- `EnterKernel` is the PC push of an accepted interrupt or a call, LSB
  first, together with the clearing of I. `Reti` pops the PC MSB first and
  sets I.
- `KernelCall` is the C function the naked entry calls. It uses
  `KernelFrame` bytes below the context and leaves the call-used registers
  and the flags changed.
- `SWITCH_CONTEXT` and `PUSH_RET_CODE_OF_CONTEXT_SWITCH` are as in the code.

**Seeding.** `prepareTaskStack` builds its 37 bytes and fills the rest with
`0x29` down to `pStackArea`. `rtos_getStackReserve` is the search for the
first byte that is not the pattern.

**Actions.** There is one action per kernel entry:

- `Isr` is the tick ISR or a user ISR, with `clr r1` and the user ISR's
  `ldi r24/r25`;
- `rtos_setEvent`;
- `rtos_waitForEvent`, which pushes no r24/r25.

Each entry ends in `LeaveKernel`. The choice of the C function is left
open: it may release any suspended task with a vector from `RetVecs`, and
switch to any task that is not suspended. `RTuinOS.tla` checks that choice.
Here it is the environment.

**Application code.** `Compute` changes all registers (r1 may be non-zero
mid-sequence), SREG and PC. `PushLocal` and `PopLocal` move the task's own
stack depth. A task calls the kernel only with r1 = 0, as compiled C code
does.

**History variables.** `ctx[t]` is the context task t is owed: what it had
when it entered the kernel, with r24/r25 set to the staged return code when
that code is pushed. A new task starts from all zeros, SREG 0x80 and its
entry point. `lowSp[t]` is the lowest SP task t's stack has had.

## Runs (`MC_RTuinOS.tla` defines the constants)

| run | cfg | what it shows |
|---|---|---|
| sched | MC_Sched.cfg | Three tasks in two classes with delays, an all-wait with a timeout, event waits, posts and a user ISR. The properties are `TaskListsPartition`, `ActiveIsHighestDue`, `ContextConsistent`, `NoReleasableSuspended`, `TimerEventsOnlyOnExpiry`, `DelayWithinResolution` (a delay of n ends with the (n+1)-th counted tic) and `EventBroadcast`. `EventBroadcast` says that a step posting an event to one task posts it to every task suspended on it, unless that task became active. 48k states. |
| timer | MC_Timer.cfg | Absolute periods that are met and one that overruns, delay 0 and the largest delay (the `+1` wrap guard), all-waits with timeouts, and timer bits passed to `rtos_setEvent`. The properties are `TypeOK` (the 8-bit overrun counter saturates), `TimerArmed`, `TimerEventsOnlyOnExpiry` and `AbsCadence`. `AbsCadence` says that a suspension on the absolute timer advances `timeDueAt` by exactly the period if that is still ahead of now. Otherwise the overrun is counted, saturating, and the task is due at the next tick. Ahead of now is stated on modular distance, without the code's signed cast, and this serves as the reference for the compare. 11k states. |
| round_robin | MC_RoundRobin.cfg | Three round-robin tasks in one class with slices 2, 2 and 1. The properties are `TaskListsPartition`, `ActiveIsHighestDue`, `ContextConsistent`, `NoReleasableSuspended` and the liveness property `DueTaskEventuallyActive`. `ActiveIsHighestDue` holds here only because a roll forces the search for the new head (`isNewActiveTask = true`). 15k states. |
| sched_refinement | MC_SchedRefine.cfg | The sched instance implements `RTuinOSScheduler` (`SchedulerSpec`). |
| round_robin_refinement | MC_RoundRobinRefine.cfg | The round-robin instance implements `RTuinOSScheduler`. |
| event_bits | EventBits.cfg | `PredicateMatchesDoc` with W = 4. 108 states. |
| context | Context.cfg (module `RTuinOSContext`) | One task and idle, with interrupts, `rtos_setEvent` and `rtos_waitForEvent` in any order and with any switch. The properties are `TypeOK` (every `stackPointer` in its own area), `ContextRestored` (every resume gives back exactly the registers, SREG, PC and SP the task is owed, with the return code low byte in r24) and `ReserveNotPessimistic`. 12k states, about 70 s. |
| all_timer_wait | MC_AllTimer.cfg | Expected to be violated: `ContextConsistent` (see the findings below). |
| delay_max | MC_DelayMax.cfg | Expected to be violated: `DelayWithinResolution` at the largest timeout. |

**Bounds.** `TimeBits = 3` gives a cycle of 8 ticks and half a cycle of 4.
That is enough to reach:

- an absolute time that is met;
- one that overruns (a timeout of 5 or 6 ticks is over half a cycle);
- the delay wrap at timeout 7;
- the wrap of `_time` itself.

Three tasks are the fewest that make these cases possible:

- the suspended-list compaction skipping a neighbour;
- a roll with more than two due tasks;
- a release into a class other than the active one.

`OverrunMax` stands for the 0xff saturation limit.

**Bounds of the context run.**

- `StackSize = 50` is the least size `rtos_initRTOS` asserts.
- The deepest use is 3 guard bytes, one local byte, a 36-byte interrupt
  frame and a 3-byte kernel frame. That leaves 7 bytes that are never
  touched, so the reserve search runs over a real unused prefix.
- One application task is enough: the idle task is preempted with a full
  frame, the task suspends with a frame without r24/r25, and it is released
  and resumed either at once or later from the ready state. Every frame
  shape meets every kind of entry.
- A second task adds no frame shape but multiplies the states. In a
  first minute it reached 18k states with the queue still growing.
- The return code 0x0102 has different low and high bytes.

**Fairness.** The only fairness assumed is that ticks keep coming:
`[]<><<Tick>>_vars`. The tick is a hardware interrupt, and every entry and
task returns with interrupts enabled. `Tick` has no guard and always changes
`time`, so this is the same as weak fairness of `Tick`. TLC checks it much
faster than `WF_vars(Tick)`, whose `ENABLED` it would have to evaluate in
every state. With `WF_vars(Tick)` the round_robin run takes 4 minutes; with
this form it takes seconds. Tasks get no
fairness, because an application task may run forever without a kernel
call. The abstract `RTuinOSScheduler` states the same assumption as
`WF_vars(Tick)`: its `Tick` is always enabled. The two refinement runs check
that the kernel's behaviours satisfy it. Because the property is an
abstract one, TLC checks it quickly (20 s and 7 s).

## Findings

**Return code of an all-wait on a timer.**

In the all_timer_wait run, `rtos_waitForEvent(RTOS_EVT_DELAY_TIMER, true, 3)`
goes wrong. That is an "all" wait whose mask has no postable event.

1. `checkForTaskActivation` (lines 629–635) finds that the postable part of
   the mask equals the posted vector (both are empty), so it releases the
   task at the next scan, with `postedEventVec = 0`.
2. `PUSH_RET_CODE_OF_CONTEXT_SWITCH` (line 252) therefore pushes no return
   code.
3. `POP_CONTEXT_FROM_STACK` pops r24/r25 that the frame does not hold.

The task resumes on a misaligned stack. Releasing it at the next scan
agrees with a literal reading of the `rtos_waitForEvent` documentation
(lines 1305–1308): "all other events in the mask were seen" is vacuous when
the mask has only a timer bit. The defect is the misaligned stack. Line 252
assumes that a released suspend command always has a non-zero vector, and
this release breaks that assumption.

**Delay at the largest timeout.** This is the delay_max run.
`storeResumeCondition` loads `cntDelay = timeout + 1` so that a delay of n
tics is a minimum. The call falls between two tics, so n+1 counted tics
make a real delay of n to n+1 tics, as `rtos_waitForEvent` documents. For
the largest timeout the guard at line 1199 skips the `++` (it would wrap to
0). The event then comes with the n-th tic, and the real delay is n−1 to n
tics, shorter than documented.

## Mutants

Each property of a passing run is broken by a plausible bug in the code it
covers:

- the overrun counter without saturation;
- the due count not incremented;
- a roll that keeps the head;
- the class search run upwards;
- the staged vector not cleared;
- the scan index advanced after a compaction;
- timer bits not masked in `setEvent`;
- `<` instead of `<=` in the overrun test;
- the slice not reloaded;
- the delay counter loaded without `++`;
- a released task inserted at index 0 of its due list;
- `&` typed for `^` in the all-condition;
- the return code pushed high byte first;
- SWITCH_CONTEXT storing the SP in the entered task's slot;
- the fill loop with `>` instead of `>=`;
- an absolute due time taken from now, as for a delay;
- the posting loop of `setEvent` stopping at the first waiter;
- the roll not forcing the search for a new active task.

The staged vector not cleared and the scan index advanced after a
compaction are also run against the round_robin configuration.

`PROJECT.json` lists each mutant with its run.

## Not modelled

- `rtos_enableIRQTimerTic`: hardware setup.
- The values the kernel's C code computes in registers and in its own
  stack frame. `RTuinOSContext` replaces them with one junk byte, since only
  their being overwritten matters to the context.
- The other direction of the stack reserve. A used byte that equals 0x29
  is counted as unused, as the code documents, so the reserve may be too
  optimistic. No property claims equality.
- A suspend command called by the idle task. `rtos_waitForEvent`
  documents this as illicit and does not check for it (rtos.c:1363). The
  model has it as the guard of `WaitForEvent`.
- Events are not latched. An event set while its receiver is not suspended
  is dropped by design. `EventBroadcast` checks the delivery to the tasks
  that are suspended.
- The `sei()` at the end of `rtos_getTaskOverrunCounter`. It enables
  interrupts inside any critical section of its caller, and that caller is
  application code.

## Plan for later work

- A second application task in `RTuinOSContext`. It needs a larger
  machine or a coarser abstraction of the registers.
