CONSTANTS
    Workers = {w1, w2, w3}
    Main = Main
    Free = Free
    MaxPushes = 4
SPECIFICATION FairSpec
INVARIANTS
    TypeOK
    NoLostWakeup
    FrontNeverEmpty
PROPERTIES
    ImplementsTaskQueue
    PushedIsTaken
