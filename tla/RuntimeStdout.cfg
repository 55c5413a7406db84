\* The program locks stdout around instrumented code: it may hang.
SPECIFICATION Spec
CONSTANTS
    main = main
    w = w
    None = None
    x = x
    Threads = {main, w}
    Main = main
    Mutexes <- OneMutex
    Cells = {x}
    GuardOf <- GuardedByFirst
    Kinds <- StdoutKinds
    MaxOps = 3
    Hooks <- ShippedHooks
    StdoutMayBreak = FALSE
INVARIANTS
    HangsOnlyOnStdout
CHECK_DEADLOCK FALSE
