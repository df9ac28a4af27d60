SPECIFICATION ProfilesSpec
CONSTANTS
    Agents = {claude, codex}
    Keys = {k1, k2}
    None = None
    Blank = Blank
    MaxProfiles = 1
    MaxId = 2
INVARIANTS ProfilesTypeOK SlotsMatchLists
SYMMETRY ProfilesSymmetry
