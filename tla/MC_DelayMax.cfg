\* The delay timer at the largest timeout (7 for a 3 bit time): the documented n..n+1 tics.
CONSTANTS
    NoTasks = 2
    NoPrioClasses = 2
    MaxTasksInPrioClass = 2
    TimeBits = 3
    OverrunMax = 1
    RoundRobinMode = FALSE
    ABS_TIMER = ABS_TIMER
    DELAY_TIMER = DELAY_TIMER
    EVT_0 = EVT_0
    ISR_USER_00 = ISR_USER_00
    NoSP = NoSP
    PrioClass <- Timer_PrioClass
    TimeRoundRobin <- Timer_NoRoundRobin
    StartCondition <- Timer_StartCondition
    WaitCalls <- Timer_WaitCalls
    PostVecs <- Timer_PostVecs
    AppEvents <- MC_AppEvents
    IsrEvents <- Timer_IsrEvents

SPECIFICATION Spec

PROPERTY DelayWithinResolution
