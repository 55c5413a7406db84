SPECIFICATION Spec
CONSTANTS
    Structs <- SomeStructs
    CrateLists <- SomeCrateLists
INVARIANTS
    TypeOK
    MacroTransparent
    OnlyLibraryFunctions
    FoundAsMarked
