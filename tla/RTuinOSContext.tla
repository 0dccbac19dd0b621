-------------------------- MODULE RTuinOSContext --------------------------
(***************************************************************************)
(* The context switch of RTuinOS at register and byte level (ATmega2560:   *)
(* 3 byte program counter).  Every kernel entry (the system timer ISR, the *)
(* user ISRs, rtos_setEvent and rtos_waitForEvent) runs with interrupts    *)
(* disabled from its first to its last instruction and is one action here: *)
(* the CPU or the call instruction pushes the PC, the entry pushes the     *)
(* context with the instruction sequence of its macro, the kernel's C      *)
(* function runs, SWITCH_CONTEXT and PUSH_RET_CODE_OF_CONTEXT_SWITCH may   *)
(* move to another task's stack, POP_CONTEXT_FROM_STACK and reti restore   *)
(* the CPU from that stack.  The macros are executed instruction by        *)
(* instruction on one RAM that holds the stacks of all tasks.              *)
(*                                                                         *)
(* Which task the kernel picks, and which task an event releases, is left  *)
(* open: any due task may be picked and any suspended task released with  *)
(* a non-zero event vector.  RTuinOS.tla checks that choice; this module   *)
(* checks that whatever it is, every task gets its own CPU context back.   *)
(*                                                                         *)
(* Byte values are labels: only their identity matters, except for 0,      *)
(* the SREG interrupt flag and UNUSED_STACK_PATTERN.                       *)
(***************************************************************************)
EXTENDS Integers, Sequences

CONSTANTS
    NTasks,         \* application tasks 1..NTasks; 0 is the idle task
    StackSize,      \* bytes of every task's stack area
    RetVecs,        \* non-zero event vectors a released task may get
    MaxLocal,       \* bytes a task pushes of its own between kernel calls
    KernelFrame     \* bytes the kernel's C function uses below the context

\* rtos_initRTOS asserts stackSize >= 50.
ASSUME /\ NTasks \in 1..3 /\ StackSize >= 50 /\ MaxLocal \in 0..2 /\ KernelFrame \in 0..4
       /\ RetVecs \subseteq 1..65535

Idle == 0
Tasks == 1..NTasks
AllTasks == 0..NTasks
NoTask == -1

UNUSED_STACK_PATTERN == 41      \* 0x29
SREG_I == 128                   \* the global interrupt enable flag of SREG
JUNK == 7                       \* a byte the kernel's C code leaves behind
ISR_EVT == 8192                 \* the event a user ISR loads into r24/r25

\* pStackArea of a task; the idle task runs on the main stack.
Base(t) == (t + 1) * StackSize
Top(t) == Base(t) + StackSize - 1
Area(t) == Base(t)..Top(t)
Addr == (StackSize - 8)..Top(NTasks)

Lo(v) == v % 256
Hi(v) == v \div 256
SetI(f) == IF f >= SREG_I THEN f ELSE f + SREG_I
ClrI(f) == f % SREG_I

\* What a task keeps in register r, in SREG and in PC while it computes.
Work(t, r) == 1000 + 100 * t + r
WorkSreg(t) == SREG_I + t
WorkPc(t) == <<Work(t, 40), Work(t, 41), Work(t, 42)>>
LocalByte(t) == Work(t, 50)
\* taskFunction of a task as <<LSB, MidSB, MSB>>.
Entry(t) == <<2000 + 10 * t, 2001 + 10 * t, 2002 + 10 * t>>

(***************************************************************************)
(* The instructions of the context macros and an interpreter for them.     *)
(* A machine state s has the registers, SREG, PC, SP and RAM.  A run of    *)
(* push instructions is one step: push stores at SP and then decrements    *)
(* it, so the i-th register of the run lands at SP - i + 1.  A run of pop  *)
(* instructions (of distinct registers) is one step: pop increments SP and *)
(* then loads, so the i-th register gets the byte at SP + i.               *)
(***************************************************************************)
Push(rs) == <<"push", rs>>
Pop(rs) == <<"pop", rs>>
InSreg(r) == <<"in", r>>
OutSreg(r) == <<"out", r>>
Ldi(r, v) == <<"ldi", r, v>>

\* The position of register r in the run rs.
PosIn(rs, r) == CHOOSE i \in 1..Len(rs) : rs[i] = r

Step(i, s) ==
    CASE i[1] = "push" ->
           LET n == Len(i[2]) IN
           [s EXCEPT !.mem = [a \in DOMAIN @ |->
                                IF a \in (s.sp - n + 1)..s.sp
                                THEN s.reg[i[2][s.sp - a + 1]] ELSE @[a]],
                     !.sp = s.sp - n]
      [] i[1] = "pop" ->
           LET popped == {i[2][k] : k \in 1..Len(i[2])} IN
           [s EXCEPT !.reg = [r \in 0..31 |->
                                IF r \in popped THEN s.mem[s.sp + PosIn(i[2], r)]
                                ELSE @[r]],
                     !.sp = s.sp + Len(i[2])]
      [] i[1] = "in"   -> [s EXCEPT !.reg[i[2]] = s.sreg]
      [] i[1] = "out"  -> [s EXCEPT !.sreg = s.reg[i[2]]]
      [] i[1] = "ldi"  -> [s EXCEPT !.reg[i[2]] = i[3]]

RECURSIVE Exec(_, _)
Exec(prog, s) == IF prog = <<>> THEN s ELSE Exec(Tail(prog), Step(Head(prog), s))

\* r1 .. r23 and r26 .. r31, the registers pushed in one run.
Mid == [i \in 1..23 |-> i] \o [i \in 1..6 |-> 25 + i]
Reverse(rs) == [i \in 1..Len(rs) |-> rs[Len(rs) - i + 1]]

PUSH_CONTEXT_WITHOUT_R24R25_ONTO_STACK ==
    <<Push(<<0>>), InSreg(0), Push(<<0>> \o Mid)>>

PUSH_CONTEXT_ONTO_STACK ==
    PUSH_CONTEXT_WITHOUT_R24R25_ONTO_STACK \o <<Push(<<24, 25>>)>>

POP_CONTEXT_FROM_STACK ==
    <<Pop(<<25, 24>> \o Reverse(Mid) \o <<0>>), OutSreg(0), Pop(<<0>>)>>

\* The CPU pushes the PC, LSB first, when it accepts an interrupt and clears
\* I; a suspend command's call pushes the return address and its first
\* instruction, cli, clears I.  reti pops the PC MSB first and sets I.
EnterKernel(s) ==
    [s EXCEPT !.mem = [@ EXCEPT ![s.sp] = s.pc[1], ![s.sp - 1] = s.pc[2],
                                ![s.sp - 2] = s.pc[3]],
              !.sp = s.sp - 3, !.sreg = ClrI(s.sreg)]
Reti(s) ==
    [s EXCEPT !.pc = <<s.mem[s.sp + 3], s.mem[s.sp + 2], s.mem[s.sp + 1]>>,
              !.sp = s.sp + 3, !.sreg = SetI(s.sreg)]

\* The kernel's C function (onTimerTic, setEvent, waitForEvent), called from
\* the naked entry: its frame takes KernelFrame bytes below SP, and it leaves
\* the call-used registers and the flags changed.
KernelCall(s) ==
    LET frame == Exec(<<Ldi(0, JUNK), Push([i \in 1..KernelFrame |-> 0])>>, s)
    IN [frame EXCEPT !.sp = s.sp, !.sreg = JUNK,
                     !.reg = [@ EXCEPT ![0] = JUNK, ![18] = JUNK, ![19] = JUNK,
                                 ![20] = JUNK, ![21] = JUNK, ![22] = JUNK,
                                 ![23] = JUNK, ![24] = JUNK, ![25] = JUNK,
                                 ![26] = JUNK, ![27] = JUNK, ![30] = JUNK,
                                 ![31] = JUNK]]

\* SWITCH_CONTEXT with the task left and the task entered: SP is stored in
\* the left task's stackPointer and loaded from the entered one's; r0
\* carries the bytes.
SWITCH_CONTEXTStoreTo(s, from, to) ==
    [s EXCEPT !.reg[0] = JUNK, !.sp = s.stackPointer[to],
              !.stackPointer[to] = s.sp]

SWITCH_CONTEXT(s, from, to) ==
    [s EXCEPT !.reg[0] = JUNK, !.sp = s.stackPointer[to],
              !.stackPointer[from] = s.sp]

\* Variant: the high byte pushed first.
PUSH_RET_CODE_OF_CONTEXT_SWITCHHiFirst(s, vec) ==
    IF vec > 0
    THEN Exec(<<Ldi(0, Hi(vec)), Push(<<0>>), Ldi(0, Lo(vec)), Push(<<0>>)>>, s)
    ELSE s

\* PUSH_RET_CODE_OF_CONTEXT_SWITCH: a non-zero postedEventVec of the new
\* active task is pushed, low byte at the r24 position, then the high byte.
PUSH_RET_CODE_OF_CONTEXT_SWITCH(s, vec) ==
    IF vec > 0
    THEN Exec(<<Ldi(0, Lo(vec)), Push(<<0>>), Ldi(0, Hi(vec)), Push(<<0>>)>>, s)
    ELSE s

(***************************************************************************)
(* prepareTaskStack: from the top of the area downward the guard PC 0, the *)
(* entry PC LSB first, r0 = 0, SREG = 0x80, r1 = 0, r2..r23 and r26..r31   *)
(* all 0; the SP after these bytes is returned; the loop                   *)
(* while(sp >= pEmptyTaskStack) fills the rest with the pattern.  A byte   *)
(* the loop does not write keeps the 0 of the zero-initialised array.      *)
(***************************************************************************)
Seed(t) ==
    <<0, 0, 0>> \o Entry(t) \o <<0, SREG_I, 0>>
    \o [i \in 1..22 |-> 0] \o [i \in 1..6 |-> 0]

PrepareRetCode(t) == Top(t) - Len(Seed(t))

prepareTaskStackFillGt(t) ==
    [a \in Area(t) |-> IF a > PrepareRetCode(t) THEN Seed(t)[Top(t) - a + 1]
                       ELSE IF a > Base(t) THEN UNUSED_STACK_PATTERN ELSE 0]

prepareTaskStack(t) ==
    [a \in Area(t) |-> IF a > PrepareRetCode(t) THEN Seed(t)[Top(t) - a + 1]
                       ELSE IF a >= Base(t) THEN UNUSED_STACK_PATTERN ELSE 0]

\* The bytes of the three guard PC bytes a task starts below.
Guard(t) == IF t = Idle THEN 0 ELSE 3

VARIABLES
    reg,            \* r0..r31
    sreg,           \* SREG
    pc,             \* PC as <<LSB, MidSB, MSB>>
    sp,             \* SP
    mem,            \* the RAM of the stack areas
    stackPointer,   \* task_t.stackPointer
    active,         \* _pActiveTask
    posted,         \* task_t.postedEventVec
    waiting,        \* the suspended tasks that no event has released yet
    local,          \* bytes the application code of a task has pushed
    ctx,            \* history: the CPU context each task is owed
    lowSp           \* history: the lowest SP each task's stack has had

vars == <<reg, sreg, pc, sp, mem, stackPointer, active, posted, waiting,
          local, ctx, lowSp>>

Machine == [reg |-> reg, sreg |-> sreg, pc |-> pc, sp |-> sp, mem |-> mem,
            stackPointer |-> stackPointer]
Cpu(s) == [reg |-> s.reg, sreg |-> s.sreg, pc |-> s.pc]

Deeper(l, t, a) == [l EXCEPT ![t] = IF a < @ THEN a ELSE @]

(***************************************************************************)
(* rtos_getStackReserve: count the pattern bytes from pStackArea upward.   *)
(***************************************************************************)
rtos_getStackReserve(t) ==
    LET RECURSIVE Scan(_)
        Scan(a) == IF mem[a] = UNUSED_STACK_PATTERN THEN Scan(a + 1) ELSE a
    IN Scan(Base(t)) - Base(t)

(***************************************************************************)
(* rtos_initializeTask seeds each task's stack and stores its stackPointer *)
(* and start condition (suspended, nothing posted); then the idle task     *)
(* runs loop() on the main stack with interrupts enabled.                  *)
(***************************************************************************)
Init ==
    /\ reg = [r \in 0..31 |-> IF r = 1 THEN 0 ELSE Work(Idle, r)]
    /\ sreg = WorkSreg(Idle)
    /\ pc = WorkPc(Idle)
    /\ sp = Top(Idle)
    /\ mem = [a \in Addr |-> LET t == a \div StackSize - 1
                             IN IF t \in Tasks THEN prepareTaskStack(t)[a] ELSE 0]
    /\ stackPointer = [t \in AllTasks |-> IF t = Idle THEN 0 ELSE PrepareRetCode(t)]
    /\ active = Idle
    /\ posted = [t \in AllTasks |-> 0]
    /\ waiting = Tasks
    /\ local = [t \in AllTasks |-> 0]
    /\ ctx = [t \in AllTasks |->
                IF t = Idle THEN [reg |-> reg, sreg |-> sreg, pc |-> pc]
                ELSE [reg |-> [r \in 0..31 |-> 0], sreg |-> SREG_I, pc |-> Entry(t)]]
    /\ lowSp = [t \in AllTasks |-> IF t = Idle THEN Top(Idle) ELSE PrepareRetCode(t)]

(***************************************************************************)
(* Application code of the active task between kernel calls.               *)
(***************************************************************************)
\* It computes: registers, flags and PC change; r1, the zero register, may
\* be non-zero inside a sequence of instructions.  Interrupts stay enabled.
Compute(r1) ==
    /\ reg' = [r \in 0..31 |-> IF r = 1 THEN r1 ELSE Work(active, r)]
    /\ sreg' = WorkSreg(active)
    /\ pc' = WorkPc(active)
    /\ ctx' = [ctx EXCEPT ![active] = [reg |-> reg', sreg |-> sreg', pc |-> pc']]
    /\ UNCHANGED <<sp, mem, stackPointer, active, posted, waiting, local, lowSp>>

\* It pushes a local byte (which may equal the pattern) or pops one.
PushLocal(v) ==
    /\ local[active] < MaxLocal
    /\ mem' = [mem EXCEPT ![sp] = v]
    /\ sp' = sp - 1
    /\ local' = [local EXCEPT ![active] = @ + 1]
    /\ lowSp' = Deeper(lowSp, active, sp - 1)
    /\ UNCHANGED <<reg, sreg, pc, stackPointer, active, posted, waiting, ctx>>

PopLocal ==
    /\ local[active] > 0
    /\ sp' = sp + 1
    /\ local' = [local EXCEPT ![active] = @ - 1]
    /\ UNCHANGED <<reg, sreg, pc, mem, stackPointer, active, posted, waiting,
                   ctx, lowSp>>

(***************************************************************************)
(* The end of every kernel entry.  s is the machine after the C function,  *)
(* pv the postedEventVec after it, next the task it made active.  If that  *)
(* is another task, SWITCH_CONTEXT stores SP in the left task's            *)
(* stackPointer and loads the new one, and PUSH_RET_CODE_OF_CONTEXT_SWITCH *)
(* stages and clears its postedEventVec.  POP_CONTEXT_FROM_STACK and reti  *)
(* follow.  A staged vector is what the resumed suspend command returns in *)
(* r24 (low byte) and r25 (high byte): the context the task is owed.       *)
(***************************************************************************)
LeaveKernel(s, pv, next) ==
    LET switch == next # active
        s1 == IF switch
              THEN PUSH_RET_CODE_OF_CONTEXT_SWITCH(
                       SWITCH_CONTEXT(s, active, next), pv[next])
              ELSE s
        s2 == Reti(Exec(POP_CONTEXT_FROM_STACK, s1))
        staged == switch /\ pv[next] > 0
    IN /\ reg' = s2.reg /\ sreg' = s2.sreg /\ pc' = s2.pc /\ sp' = s2.sp
       /\ mem' = s2.mem
       /\ stackPointer' = s2.stackPointer
       /\ posted' = IF staged THEN [pv EXCEPT ![next] = 0] ELSE pv
       /\ active' = next
       /\ ctx' = IF staged
                 THEN [ctx EXCEPT ![next].reg = [@ EXCEPT ![24] = Lo(pv[next]),
                                                          ![25] = Hi(pv[next])]]
                 ELSE ctx
       /\ lowSp' = Deeper(Deeper(lowSp, active, s.sp - KernelFrame), next, s1.sp)

\* The C function may release one suspended task rel with event vector v.
Released(rel, v) == IF rel = NoTask THEN posted ELSE [posted EXCEPT ![rel] = v]
StillWaiting(rel) == waiting \ {rel}

\* ISR(RTOS_ISR_SYSTEM_TIMER_TIC) or, if user, ISR(RTOS_ISR_USER_00/01),
\* which loads its event into r24/r25 and jumps into rtos_setEvent.  The C
\* function (onTimerTic or setEvent) may release a task and switch to any
\* due task.
Isr(user, rel, v, next) ==
    /\ sreg >= SREG_I
    /\ next \in AllTasks \ StillWaiting(rel)
    /\ LET ldi == IF user THEN <<Ldi(24, Lo(ISR_EVT)), Ldi(25, Hi(ISR_EVT))>>
                  ELSE <<>>
           s == Exec(PUSH_CONTEXT_ONTO_STACK \o <<Ldi(1, 0)>> \o ldi,
                     EnterKernel(Machine))
       IN LeaveKernel(KernelCall(s), Released(rel, v), next)
    /\ waiting' = StillWaiting(rel)
    /\ UNCHANGED local

\* rtos_setEvent, called by any task (the idle task too): the full context
\* is saved; setEvent may release a task and switch to any due task.
rtos_setEvent(rel, v, next) ==
    /\ reg[1] = 0
    /\ next \in AllTasks \ StillWaiting(rel)
    /\ LET s == Exec(PUSH_CONTEXT_ONTO_STACK, EnterKernel(Machine))
       IN LeaveKernel(KernelCall(s), Released(rel, v), next)
    /\ waiting' = StillWaiting(rel)
    /\ UNCHANGED local

\* rtos_waitForEvent, called by an application task (the code documents
\* that a call by the idle task crashes): r24/r25 are not saved, the task
\* is suspended and the kernel switches to a due task or to idle.
rtos_waitForEvent(next) ==
    /\ active # Idle
    /\ reg[1] = 0
    /\ next \in AllTasks \ (waiting \cup {active})
    /\ LET s == Exec(PUSH_CONTEXT_WITHOUT_R24R25_ONTO_STACK, EnterKernel(Machine))
       IN LeaveKernel(KernelCall(s), posted, next)
    /\ waiting' = waiting \cup {active}
    /\ UNCHANGED local

Next ==
    \/ \E r1 \in {0, Work(active, 1)} : Compute(r1)
    \/ \E v \in {LocalByte(active), UNUSED_STACK_PATTERN} : PushLocal(v)
    \/ PopLocal
    \/ \E user \in BOOLEAN, rel \in waiting \cup {NoTask}, v \in RetVecs,
          next \in AllTasks :
          \/ Isr(user, rel, v, next)
          \/ rtos_setEvent(rel, v, next)
    \/ \E next \in AllTasks : rtos_waitForEvent(next)

Spec == Init /\ [][Next]_vars

-----------------------------------------------------------------------------
\* Every stack pointer stays inside its task's stack area (the idle task's
\* stackPointer is 0 until it is first left).
TypeOK ==
    /\ active \in AllTasks
    /\ waiting \subseteq Tasks /\ active \notin waiting
    /\ sp \in Area(active)
    /\ \A t \in AllTasks :
          \/ stackPointer[t] \in Area(t)
          \/ t = Idle /\ stackPointer[t] = 0
    /\ \A t \in AllTasks : posted[t] \in RetVecs \cup {0}

(* Whatever the order of interrupts, events and suspend commands, the      *)
(* running task has exactly the CPU context it is owed: the registers,     *)
(* SREG and PC it had when it entered the kernel, with r24/r25 holding the *)
(* return code of rtos_waitForEvent if it resumes from one; a new task     *)
(* starts at its entry point with r1 = 0 and its start events in r24/r25;  *)
(* and its SP is back where its own code left it.  This is about the push  *)
(* and pop macros, prepareTaskStack and the staging of the return code     *)
(* matching each other byte for byte.                                      *)
ContextRestored ==
    /\ reg = ctx[active].reg
    /\ sreg = ctx[active].sreg
    /\ pc = ctx[active].pc
    /\ sp = Top(active) - Guard(active) - local[active]

(* rtos_getStackReserve never reports less than the bytes of a task's      *)
(* stack that were never used (it may report more: a used byte that equals *)
(* the pattern is counted), and its search ends inside the stack area.      *)
(* This is about the fill loop of prepareTaskStack reaching pStackArea and  *)
(* every push of the kernel entries staying above the counted prefix.       *)
ReserveNotPessimistic ==
    \A t \in Tasks :
        /\ rtos_getStackReserve(t) >= lowSp[t] - Base(t) + 1
        /\ rtos_getStackReserve(t) < StackSize

=============================================================================
