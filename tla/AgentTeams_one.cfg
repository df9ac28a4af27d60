SPECIFICATION Spec
CONSTANTS
    Docks = {d1}
    Values = {v1, v2}
    MaxEdits = 3
INVARIANTS TypeOK FlagKept RegistryWhole
PROPERTIES FailureRestores
SYMMETRY ValueSymmetry
