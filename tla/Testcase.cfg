\* Some threads are meant to hang.
SPECIFICATION Spec
CONSTANTS
    Functions <- AllFunctions
    MaxWakeups = 3
INVARIANTS
    TypeOK
    NobodyPanics
    HangsAsMeant
PROPERTIES
    MainReturns
CHECK_DEADLOCK FALSE
