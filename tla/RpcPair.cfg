SPECIFICATION FairSpec
CONSTANTS
    c1 = c1
    echo = echo
    Commands = {echo}
    NoClient = NoClient
    NoCommand = NoCommand
    Clients = {c1}
    NumServers = 1
    MaxTries = 3
    MaxServerAge = 3
    SendNegAcks = TRUE
    FreshServers = TRUE
    Ordered = TRUE
    Prompt = TRUE
    MaxID = 3
    MaxReboots = 0
    MaxNet = 2
\* The calls of a client are bounded by MaxID: the model stops after the last.
CHECK_DEADLOCK FALSE
INVARIANT TypeOK
INVARIANT ReplyIsForRequest
INVARIANT OnlyRequestsServed
PROPERTY CallReturns
PROPERTY ImplementsService
