\* The shipped library, stdout may break: what the log tells, panics, poison, leaks. The program may hang.
SPECIFICATION Spec
CONSTANTS
    main = main
    w = w
    None = None
    x = x
    Threads = {main, w}
    Main = main
    Mutexes <- OneMutex
    Cells = {x}
    GuardOf <- GuardedByFirst
    Kinds <- FaultKinds
    MaxOps = 2
    Hooks <- ShippedHooks
    StdoutMayBreak = TRUE
INVARIANTS
    TypeOK
    RecordsWhole
    LockLogFaithful
    AccessLogFaithful
    HangsOnlyOnLeak
PROPERTIES
    PoisonSilences
CHECK_DEADLOCK FALSE
