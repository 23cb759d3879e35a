SPECIFICATION Spec
CONSTANTS
    c1 = c1
    c2 = c2
    Runs = {r1, r2, r3}
    Turns = {1, 2, 3}
    Convs = {c1, c2}
    Ids = {"owner", "realm", "p", "ada", "e", "s", "d1", "d2"}
    Inputs <- MCInputs
    WindowSize = 3
    ReadSize = 1
    MaxFaults = 1
    None = None
SYMMETRY Symmetric
INVARIANTS
    RowsOfOneParty
    ReadsOwnParty
PROPERTIES
    ReadIsSnapshot
CHECK_DEADLOCK FALSE
