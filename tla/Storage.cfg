SPECIFICATION Spec
CONSTANTS
    c1 = c1
    c2 = c2
    c3 = c3
    a = a
    Clients = {c1, c2, c3}
    Names = {a}
    Opens <- MCOpens
    Calls <- MCCalls
    Nodes = {1, 2}
    MaxCalls = 3
    MaxFlips = 1
INVARIANTS
    ListExact
    ReachesOwnFile
    OpenFileExists
PROPERTIES
    ImplementsFileTable
    OpenReturns
