\* Two contexts on two descriptors, one of them asking to read, the other to write.
CONSTANTS
    Contexts = {c1, c2}
    MaxFD = 2
    Masks <- ReadOneWriteTheOther
    kMaxUniqueID = 9
    None = None
SPECIFICATION FairSpec
INVARIANTS TypeOK ArmedIsWatched OneOwnerPerFD EventReachesOwner IDsAreUnique
PROPERTIES ReadyIsTold RemovedIsClosed
CHECK_DEADLOCK FALSE
