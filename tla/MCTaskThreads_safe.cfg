\* Two threads that can run either of two tasks, two calls of Signal under way.
SPECIFICATION Spec
CONSTANTS
    Tasks = {a, b}
    BlockingTasks = {}
    ShortThreads = {th1, th2}
    BlockingThreads = {th3}
    Signalers = {s1, s2}
    Events = {kReadEvent}
    kAlive = kAlive
    kIdleEvent = kIdleEvent
    None = None
SYMMETRY ThreadSymmetry
INVARIANTS OneHolder DeletedIsUnreachable BoundTaskStays LockedRunIsAlone
PROPERTIES KeepsPromise
CHECK_DEADLOCK FALSE
