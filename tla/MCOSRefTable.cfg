CONSTANTS
    r1 = r1
    r2 = r2
    r3 = r3
    a = a
    b = b
    Refs = {r1, r2, r3}
    Names = {a, b}
    fString <- MCfString
    Users = {u1, u2, u3}
    RefCounts = {0, 1}
    None = None
SPECIFICATION FairSpec
INVARIANTS RefsAreCounted NamesAreUnique UnregisteredIsUnused
PROPERTIES UnRegisterReturns
CHECK_DEADLOCK FALSE
