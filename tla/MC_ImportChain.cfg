CONSTANTS
    Files <- MC_Files
    Starts = {1, 2}
    Batch = 2
    MaxBlock = 4
SPECIFICATION Spec
INVARIANTS
    TypeOK
    ErrorLocated
PROPERTIES
    ImportRefines
    Terminates
CHECK_DEADLOCK FALSE
