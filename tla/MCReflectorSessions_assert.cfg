\* The assertion of RemoveOutput, with one player.
CONSTANTS
    Sessions = {s1}
    Broadcasters = {b1, b2}
    Players = {p1}
    Streams = {x1, x2}
    MaxRefs = 6
    None = None
    Cleared = Cleared
SPECIFICATION Spec
INVARIANT EveryReleaseFindsAReference
CHECK_DEADLOCK FALSE
