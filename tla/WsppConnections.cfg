CONSTANTS
    Conns = {c1, c2}
    Workers = {w1, w2}
    Main = Main
    Free = Free
    NoJob = NoJob
    MaxMessages = 1
SPECIFICATION FairSpec
INVARIANTS
    TypeOK
    CallbacksFindHandler
    ClosesOnce
    DestructorNeverBlocks
    WaitChainsEnd
    JobsInOrder
    LivesWhileShared
PROPERTIES
    DropsOnlyClosed
    ClosedIsDestroyed
