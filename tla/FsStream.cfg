SPECIFICATION Spec
CONSTANTS
    p1 = p1  p2 = p2  p3 = p3
    h1 = h1  h2 = h2  h3 = h3
    Procs = {p1, p2, p3}
    Hosts = {h1, h2, h3}
    HostOf <- MCHostOf
    Server = h1
    Lists <- MCLists
    MaxUpsets = 1
    Nobody = Nobody
    Recov = Recov
    Disciplined = TRUE
    BlockSize = 2
    IntRange = 32
    EndsOf <- OneWriter
    NoOp = NoOp
    Modes <- MCModes
    ReadSizes = {1}
    WriteSizes = {3}
    Selects = {"READ"}
    NonBlocking <- MCNonBlocking
    MaxBytes = 3
    MaxCrashes = 1
\* Once the pipe is gone and the hosts are down nothing needs to happen.
CHECK_DEADLOCK FALSE
INVARIANT TypeOK
INVARIANT SleeperMustWait
INVARIANT PipeFifo
INVARIANT EndsAgree
 
 
