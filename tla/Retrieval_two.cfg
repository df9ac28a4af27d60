SPECIFICATION Spec
CONSTANTS
    Readers = {r1, r2}
    Names = {n1, n2}
    MaxRecords = 2
    MaxStarts = 2
INVARIANTS TypeOK Accounted FilesKept Complete
SYMMETRY ReaderSymmetry
CHECK_DEADLOCK FALSE
