SPECIFICATION Spec
CONSTANTS
    Parts = {"iterator", "two levels", "block", "damaged block", "format", "separators", "bloom", "reads", "verified reads"}
CHECK_DEADLOCK FALSE
INVARIANTS
    LookupsFind
    ErrorsAreReported
PROPERTIES
    IsACursor
