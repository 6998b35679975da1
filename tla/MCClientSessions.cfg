\* Two connections of a client and the RTP session they may both use, under the
\* fairness of the task threads.  The invariants are proved for any number.
SPECIFICATION FairSpec
CONSTANTS
    RTSPSessions = {c1, c2}
    RTPSessions = {p1}
    HolderModulus = 4
    None = None
INVARIANTS ResolvedIsActive RefsMatchUsers HoldersCounted HeldIsNotDeleted
PROPERTIES KilledIsDeleted DeadIsDeleted
CHECK_DEADLOCK FALSE
