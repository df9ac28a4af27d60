SPECIFICATION Spec
CONSTANTS
    Deployers = {p1, p2}
    Inboxes = {i1}
    Drives = {d1}
    Kits = {k1, k2}
    MaxKeys = 2
INVARIANTS TypeOK AuthorKept OneDeployment RecordsMatch
SYMMETRY DeploymentSymmetry
CHECK_DEADLOCK FALSE
