SPECIFICATION Spec
CONSTANTS
    p1 = p1
    p2 = p2
    p3 = p3
    s1 = s1
    s2 = s2
    Procs = {p1, p2, p3}
    Servers = {s1, s2}
    NoServer = NoServer
    NumChannels = 3
    MaxUnhappy = 1
    ChannelNegAcks = FALSE
    Multiprocessor = TRUE
SYMMETRY Symmetry
INVARIANTS TypeOK ChannelDedicated FreeCountExact NeverPanics
