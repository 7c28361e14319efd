SPECIFICATION Spec
CONSTANTS
    c1 = c1
    echo = echo
    Commands = {echo}
    NoClient = NoClient
    NoCommand = NoCommand
    Clients = {c1}
    NumServers = 1
    MaxTries = 2
    MaxServerAge = 3
    SendNegAcks = FALSE
    FreshServers = FALSE
    Ordered = TRUE
    Prompt = TRUE
    MaxID = 2
    MaxReboots = 1
    MaxNet = 2
\* The calls of a client are bounded by MaxID: the model stops after the last.
CHECK_DEADLOCK FALSE
INVARIANT AtMostOnce
INVARIANT ResendIsBacked
PROPERTY BusyIsServed
