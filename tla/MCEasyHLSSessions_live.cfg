\* Two sessions that end by EasyHLSClose, one whose timer may expire.  One request
\* is enough: it holds the mutex of the map from its first step to its last.
CONSTANTS
    Sessions = {s1, s2, s3}
    Requests = {q1}
    Timeouts = {s3}
    None = None
SPECIFICATION FairSpec
INVARIANTS TypeOK FoundIsNotDying HandlesClosedOnce
PROPERTIES EndedIsDeleted
CHECK_DEADLOCK FALSE
