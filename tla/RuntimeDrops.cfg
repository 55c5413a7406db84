\* A library with drop hooks, stdout may break: critical sections in the log. The program may hang on a leaked guard.
SPECIFICATION Spec
CONSTANTS
    main = main
    w = w
    None = None
    x = x
    Threads = {main, w}
    Main = main
    Mutexes <- OneMutex
    Cells = {x}
    GuardOf <- GuardedByFirst
    Kinds <- TryKinds
    MaxOps = 2
    Hooks <- SectionHooks
    StdoutMayBreak = TRUE
INVARIANTS
    HoldIntervalsDisjoint
    LockDiscipline
CHECK_DEADLOCK FALSE
