\* rtos_waitForEvent(RTOS_EVT_DELAY_TIMER, all = true, 3): the return code staging.
CONSTANTS
    NoTasks = 2
    NoPrioClasses = 2
    MaxTasksInPrioClass = 2
    TimeBits = 3
    OverrunMax = 1
    RoundRobinMode = FALSE
    ABS_TIMER = ABS_TIMER
    DELAY_TIMER = DELAY_TIMER
    EVT_0 = EVT_0
    ISR_USER_00 = ISR_USER_00
    NoSP = NoSP
    PrioClass <- Timer_PrioClass
    TimeRoundRobin <- Timer_NoRoundRobin
    StartCondition <- AllTimer_StartCondition
    WaitCalls <- AllTimer_WaitCalls
    PostVecs <- Timer_PostVecs
    AppEvents <- MC_AppEvents
    IsrEvents <- Timer_IsrEvents

SPECIFICATION Spec

INVARIANT ContextConsistent
