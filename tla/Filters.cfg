SPECIFICATION Spec
CONSTANTS
    Crates <- ThreeCrates
    Values <- SomeValues
INVARIANTS
    NothingElseAdmitted
    RejectedByListOnly
