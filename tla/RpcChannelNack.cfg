SPECIFICATION FairSpec
CONSTANTS
    p1 = p1
    p2 = p2
    p3 = p3
    s1 = s1
    s2 = s2
    Procs = {p1, p2, p3}
    Servers = {s1, s2}
    NoServer = NoServer
    NumChannels = 2
    MaxUnhappy = 1
    ChannelNegAcks = TRUE
    Multiprocessor = FALSE
CHECK_DEADLOCK FALSE
INVARIANT SleeperHasWaker
PROPERTY SleeperWakes
