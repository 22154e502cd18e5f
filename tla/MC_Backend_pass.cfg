CONSTANTS
    MaxHead = 4
    MaxCommits = 2
    Numbers <- MC_Numbers
    ForkBlocks = {2, 4}
    ChanCap = 2
    MaxSetHeads = 1
SPECIFICATION Spec
INVARIANTS TypeOK
PROPERTIES EnrCurrentUnlessRewound UpdaterExitsAfterStop
\* After Stop the updater returns and the process ends.
CHECK_DEADLOCK FALSE
