\* The context macros with one application task and the idle task.
CONSTANTS
    NTasks = 1
    StackSize = 50
    RetVecs = {258}
    MaxLocal = 1
    KernelFrame = 3
SPECIFICATION Spec
INVARIANTS
    TypeOK
    ContextRestored
    ReserveNotPessimistic
