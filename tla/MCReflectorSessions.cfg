\* Two broadcasters of two streams and three players, in any order.  Who has to use a
\* session that was deleted under it goes no further, so all may stop.
CONSTANTS
    Sessions = {s1, s2}
    Broadcasters = {b1, b2}
    Players = {p1, p2, p3}
    Streams = {x1, x2}
    MaxRefs = 9
    None = None
    Cleared = Cleared
SPECIFICATION Spec
SYMMETRY SessionSymmetry
INVARIANTS
    SessionOutlivesUsers
    ReferencesCoverUsers
CHECK_DEADLOCK FALSE
