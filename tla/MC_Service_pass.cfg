CONSTANTS
    cA = cA
    cB = cB
    m1 = m1
    m2 = m2
    NoCfg = NoCfg
    Versions = {1, 2}
    Cfgs <- MC_Cfgs
    ForkBlock <- MC_ForkBlock
    MaxHeight = 3
    Clients <- MC_Clients
    PowModes = {"normal", "fake"}
SPECIFICATION Spec
INVARIANTS
    TypeOK
    ChainFollowsConfig
    DbVersionMatchesBinary
PROPERTIES
    CallsReturn
