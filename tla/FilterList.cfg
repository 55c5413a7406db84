SPECIFICATION Spec
CONSTANTS
    Crates <- ThreeCrates
    Values <- SomeValues
INVARIANTS
    ListedCratesAdmitted
