\* Two tasks, two workstations, storage that fails, a kill; a user who may not wait.
SPECIFICATION MobileSpec
CONSTANTS
    Tasks = {t1, t2}
    Workstations = {w1, w2}
    Keys = {k1, k2, k3}
    NoKey = NoKey
    NoSession = NoSession
    NoTask = NoTask
    MaxTaps = 3
    MaxKills = 1
    MaxCodes = 2
SYMMETRY MCSymmetry
INVARIANTS
    StoredIdentity
CHECK_DEADLOCK FALSE
