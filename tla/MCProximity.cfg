\* Five taps, or fewer and the end of the page, at any point of the taps before.
SPECIFICATION ProximitySpec
CONSTANTS
    Tasks = {t1, t2, t3, t4, t5}
    NoTask = NoTask
    Devices = {d1}
    Levels <- MCLevels
    nearThreshold <- MCNear
    farThreshold <- MCFar
    MaxReadings = 3
SYMMETRY MCSymmetry
INVARIANTS
    OffMeansOff
    SilentWhenOff
    HysteresisRight
CHECK_DEADLOCK FALSE
