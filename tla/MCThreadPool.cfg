\* Two threads, one of which a job may keep for ever, and a queue of two: two
\* callers fill it while it is closed by one of two.
SPECIFICATION FairSpec
CONSTANTS
    Workers = {w1, w2}
    Callers = {c1, c2}
    Destroyers = {d1, d2}
    Jobs = {j1, j2, j3, j4}
    Endless = {j4}
    queue_max_num = 2
    NoJob = NoJob
INVARIANT FreedIsDrained
PROPERTIES AcceptedRuns CallersReturn DestroyReturns
CHECK_DEADLOCK FALSE
