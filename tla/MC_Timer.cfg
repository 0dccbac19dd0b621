\* Timers: arming, overrun detection and where timer events come from.
CONSTANTS
    NoTasks = 2
    NoPrioClasses = 2
    MaxTasksInPrioClass = 2
    TimeBits = 3
    OverrunMax = 1
    RoundRobinMode = FALSE
    ABS_TIMER = ABS_TIMER
    DELAY_TIMER = DELAY_TIMER
    EVT_0 = EVT_0
    ISR_USER_00 = ISR_USER_00
    NoSP = NoSP
    PrioClass <- Timer_PrioClass
    TimeRoundRobin <- Timer_NoRoundRobin
    StartCondition <- Timer_StartCondition
    WaitCalls <- Timer_WaitCalls
    PostVecs <- Timer_PostVecs
    AppEvents <- MC_AppEvents
    IsrEvents <- Timer_IsrEvents

SPECIFICATION Spec

INVARIANT TypeOK
INVARIANT TimerArmed
PROPERTY TimerEventsOnlyOnExpiry
PROPERTY AbsCadence
