CONSTANTS
    Names <- MC_Names
    Args = {x, y}
    Types = {"function", "", "event", "constructor", "fallback"}
    MaxFields = 3
INIT Init
NEXT Next
INVARIANT PackSelectorDeclared
