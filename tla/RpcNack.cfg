SPECIFICATION FairSpec
CONSTANTS
    NumNackBuffers = 4
    f1 = f1
    f2 = f2
    f3 = f3
    Funcs = {f1, f2, f3}
INVARIANTS TypeOK NackCountExact WaitingCovered OneSender
PROPERTY NackIsSent
