SPECIFICATION Spec
CONSTANTS
    c1 = c1
    c2 = c2
    c3 = c3
    s1 = s1
    Clients = {c1, c2, c3}
    Slots = {s1}
    Modes = {"read", "write", "exec", "stat"}
    MaxOpens = 4
    MaxTimeouts = 0
    DiskFull = FALSE
    Scavenge = TRUE
    CleanReaders = TRUE
    Overlap = FALSE
    Preempt = FALSE
SYMMETRY Symmetry
\* The opens are bounded by MaxOpens: the model stops after the last close.
CHECK_DEADLOCK FALSE
INVARIANT TypeOK
INVARIANT FreshReads
INVARIANT DirtyIsKnown
