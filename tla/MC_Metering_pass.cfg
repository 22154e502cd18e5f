CONSTANTS
    Codes <- MC_Codes
    Sizes = {1, 3}
    Versions = {62, 63}
    MaxMsgs = 3
SPECIFICATION Spec
INVARIANTS TypeOK MetersMatchTraffic
\* A stream carries at most MaxMsgs messages here; the peer then
\* disconnects.
CHECK_DEADLOCK FALSE
