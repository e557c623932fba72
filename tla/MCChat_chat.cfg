\* Two users, who log in once each and type one message between them.
SPECIFICATION Spec
CONSTANTS
    User = {a, b}
    Prefix = 2
    Beat = 3
    Present = 5
    MaxMsgs = 1
    MaxLogins = 1
SYMMETRY MCSymmetry
INVARIANTS ShownAsTyped StaysListed GoneUnlisted
