SPECIFICATION Spec
CONSTANTS
    p1 = p1
    p2 = p2
    h1 = h1
    h2 = h2
    Readers = {p1}
    Openers = {p1}
    Handles = {h1}
    Removable = {h1}
    MaxReboots = 1
    MaxCuts = 1
INVARIANT TypeOK
 
INVARIANT RecoveredIsOpen
INVARIANT OpensShutOutBacked
CHECK_DEADLOCK FALSE
