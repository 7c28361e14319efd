SPECIFICATION Spec
CONSTANTS
    c1 = c1
    c2 = c2
    s1 = s1
    s2 = s2
    Clients = {c1, c2}
    Slots = {s1, s2}
    Modes = {"read", "write", "exec"}
    MaxOpens = 4
    MaxTimeouts = 0
    DiskFull = FALSE
    Scavenge = FALSE
    CleanReaders = FALSE
    Overlap = TRUE
    Preempt = FALSE
SYMMETRY Symmetry
\* The opens are bounded by MaxOpens: the model stops after the last close.
CHECK_DEADLOCK FALSE
INVARIANT NextIsListed
INVARIANT UseCountsAgree
