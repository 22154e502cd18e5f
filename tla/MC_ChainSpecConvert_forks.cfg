CONSTANTS
    Nil = Nil
    Configs <- MC_Configs
    Nonces = {0, 66}
    MaxNum = 2
SPECIFICATION Spec
INVARIANTS
    ForkRulesFaithful
CHECK_DEADLOCK FALSE
