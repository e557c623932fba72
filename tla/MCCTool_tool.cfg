\* Two users, each protocol and the commands without a key.
SPECIFICATION CToolSpec
CONSTANTS
    User = {a, b}
    Typed <- MCTyped
    Edited <- MCEdited
    Protocols = {"sym", "asym", "dratchet", "otp", "files"}
    PadLen = 2
    MaxRuns = 5
    MaxFaults = 1
INVARIANTS ShowsOwnResult OpensInOrder KeyUsedOnce
PROPERTIES DecodesWhatWasEncoded
CHECK_DEADLOCK FALSE
