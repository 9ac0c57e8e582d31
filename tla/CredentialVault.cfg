\* The Windows build; with {"libsecret", "none"} the property holds.
SPECIFICATION VaultSpec
CONSTANTS
    Platforms = {"windows"}
    Names = {a}
    Secrets = {s}
    Missing = Missing
INVARIANT StoredReadsBack
CHECK_DEADLOCK FALSE
