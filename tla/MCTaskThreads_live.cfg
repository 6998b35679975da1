\* Two tasks in the queue of one thread.
SPECIFICATION FairSpec
CONSTANTS
    Tasks = {a, b}
    BlockingTasks = {}
    ShortThreads = {th1}
    BlockingThreads = {th2}
    Signalers = {s1}
    Events = {kReadEvent}
    kAlive = kAlive
    kIdleEvent = kIdleEvent
    None = None
CONSTRAINT NotStopping
PROPERTIES EventsDelivered
CHECK_DEADLOCK FALSE
