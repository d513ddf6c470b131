SPECIFICATION FairSpec
CONSTANTS
    t1 = t1
    t2 = t2
    Threads <- MCThreads
    Owner = t1
    MaxOpen = 2
    MaxAsks <- MCAsks
    Backlog = 1
INVARIANTS
    TypeOK
    OwnAck
    PostedIsThere
    ConnackIsOwn
    ThreadServes
    NothingFreedIsUsed
PROPERTIES
    ThreadFollowsSessions
CHECK_DEADLOCK FALSE
