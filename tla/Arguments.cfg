SPECIFICATION Spec
CONSTANTS
    Options <- SomeOptions
    MaxOptions = 3
INVARIANTS
    TypeOK
    StaysAccepted
    LevelOnlyOnRequest
    MirEncoded
