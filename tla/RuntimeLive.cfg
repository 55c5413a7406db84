\* Refinement of the uninstrumented program, with liveness.
SPECIFICATION Spec
CONSTANTS
    main = main
    w = w
    None = None
    x = x
    Threads = {main, w}
    Main = main
    Mutexes <- OneMutex
    Cells = {x}
    GuardOf <- GuardedByFirst
    Kinds <- AccessKinds
    MaxOps = 2
    Hooks <- ShippedHooks
    StdoutMayBreak = FALSE
PROPERTIES
    HooksReturn
    ImplementsUser
