\* Scheduling configuration: the kernel refines the abstract scheduler RTuinOSScheduler.
CONSTANTS
    NoTasks = 3
    NoPrioClasses = 2
    MaxTasksInPrioClass = 2
    TimeBits = 3
    OverrunMax = 2
    RoundRobinMode = FALSE
    ABS_TIMER = ABS_TIMER
    DELAY_TIMER = DELAY_TIMER
    EVT_0 = EVT_0
    ISR_USER_00 = ISR_USER_00
    NoSP = NoSP
    PrioClass <- Sched_PrioClass
    TimeRoundRobin <- Sched_NoRoundRobin
    StartCondition <- Sched_StartCondition
    WaitCalls <- Sched_WaitCalls
    PostVecs <- MC_PostVecs
    AppEvents <- MC_AppEvents
    IsrEvents <- MC_IsrEvents

SPECIFICATION Spec

PROPERTY SchedulerSpec
