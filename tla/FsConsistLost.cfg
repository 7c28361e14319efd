SPECIFICATION Spec
CONSTANTS
    c1 = c1
    c2 = c2
    s1 = s1
    Clients = {c1, c2}
    Slots = {s1}
    Modes = {"read", "write"}
    MaxOpens = 4
    MaxTimeouts = 0
    DiskFull = FALSE
    Scavenge = FALSE
    CleanReaders = FALSE
    Overlap = FALSE
    Preempt = FALSE
SYMMETRY Symmetry
\* The opens are bounded by MaxOpens: the model stops after the last close.
CHECK_DEADLOCK FALSE
INVARIANT FreshReads
