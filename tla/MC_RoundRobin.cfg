\* Round robin: the roll of a due list and the starvation freedom it gives.
CONSTANTS
    NoTasks = 3
    NoPrioClasses = 1
    MaxTasksInPrioClass = 3
    TimeBits = 3
    OverrunMax = 1
    RoundRobinMode = TRUE
    ABS_TIMER = ABS_TIMER
    DELAY_TIMER = DELAY_TIMER
    EVT_0 = EVT_0
    ISR_USER_00 = ISR_USER_00
    NoSP = NoSP
    PrioClass <- RR_PrioClass
    TimeRoundRobin <- RR_TimeRoundRobin
    StartCondition <- RR_StartCondition
    WaitCalls <- RR_WaitCalls
    PostVecs <- RR_PostVecs
    AppEvents <- MC_AppEvents
    IsrEvents <- Timer_IsrEvents

SPECIFICATION Spec

INVARIANT TaskListsPartition
INVARIANT ActiveIsHighestDue
INVARIANT ContextConsistent
INVARIANT NoReleasableSuspended
PROPERTY DueTaskEventuallyActive
