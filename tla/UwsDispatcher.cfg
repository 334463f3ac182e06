CONSTANTS
    Workers = {w1, w2}
    Main = Main
    Free = Free
    Sockets = {s1, s2}
    Null = Null
    MaxData = 3
    MaxMessages = 1
SPECIFICATION FairSpec
INVARIANTS
    TypeOK
    SendsOnLiveSocket
    DisconnectionFindsNull
    DataIsOfItsSocket
    TasksInOrder
PROPERTIES
    ImplementsTaskQueue
    DisconnectionEnds
