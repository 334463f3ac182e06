CONSTANTS
    Workers = {w1, w2}
    Main = Main
    Free = Free
    Sockets = {s1}
    Null = Null
    MaxData = 1
    MaxMessages = 0
SPECIFICATION Spec
INVARIANT
    PopBlocksOnEmpty
