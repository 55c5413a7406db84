SPECIFICATION Spec
CONSTANTS
    lib = lib
    co = co
    helper = helper
    main = main
    NoEntry = NoEntry
    Elsewhere = Elsewhere
    Bodies <- FourBodies
    LastCrate <- TwoCrates
    Home <- HomeOf
    Inlines <- InlineTree
    Early <- Coroutines
    FactSets <- Builds
    FlagSets <- AllFlags
INVARIANTS
    TypeOK
    HooksNotDoubled
    CrashesOnlyOnForeignEntry
    EntryHooked
    HooksLinked
    SessionInvariant
PROPERTIES
    KeepsPromise
    BuildEnds
