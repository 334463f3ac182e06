CONSTANTS
    Conns = {c1}
    Workers = {w1, w2}
    Main = Main
    Free = Free
    NoJob = NoJob
    MaxMessages = 1
SPECIFICATION Spec
INVARIANT
    NoNullDereference
