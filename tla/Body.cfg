\* Calls, drops, entry hooks, and every mixture of memory accesses.
SPECIFICATION Spec
CONSTANTS
    Names  <- AllNames
    Bodies <- AllBodies
    Libs   <- AllLibs
    Owners <- AllOwners
INVARIANTS
    TypeOK
    FlowPreserved
    HooksAsPromised
    PositionsNotStale
    CleanupStaysClosed
    HooksSeeLiveValues
    CrashesOnlyWhenUnsupported
\* A pass over one body ends.
CHECK_DEADLOCK FALSE
