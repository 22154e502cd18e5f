CONSTANTS
    a1 = a1
    v1 = v1
    v2 = v2
    Absent = Absent
    Nil = Nil
    Side = 10
    Keys = {1, 2, 3}
    MaxResults = {0, 1, 2}
    Addrs = {a1}
    Vals = {v1, v2}
    Canon = {0, 1}
SPECIFICATION Spec
INVARIANTS
    RangeMatchesRef
    PagingExact
PROPERTIES
    PagingTerminates
