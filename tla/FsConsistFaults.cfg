SPECIFICATION FairSpec
CONSTANTS
    c1 = c1
    c2 = c2
    s1 = s1
    Clients = {c1, c2}
    Slots = {s1}
    Modes = {"write", "exec", "stat"}
    MaxOpens = 3
    MaxTimeouts = 1
    DiskFull = TRUE
    Scavenge = FALSE
    CleanReaders = FALSE
    Overlap = TRUE
    Preempt = TRUE
\* The opens are bounded by MaxOpens: the model stops after the last close.
CHECK_DEADLOCK FALSE
PROPERTY OpenReturns
