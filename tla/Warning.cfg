SPECIFICATION Spec
CONSTANTS
    Options <- CargoOptions
    MaxOptions = 1
INVARIANTS
    WarnsOnlyIfAsked
