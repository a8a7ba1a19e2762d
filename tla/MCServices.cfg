SPECIFICATION MCSpec
CONSTANTS
    Clients = {c1, c2}
    ServerPumps = {"story"}
    MaxEvals = 2
    MaxTimeouts = 2
    MaxDepth = 2
    Machines = {bg3le, plain}
    Extended = {bg3le}
    Peers = {1, 2}
    NoPeer = 0
    MaxConnects = 4
    MaxPosts = 2
    MaxServers = 2
    Answering = {"Server", "Client"}
    MaxAsked = 3
    MaxRebuilds = 2
    c1 = c1
    c2 = c2
INVARIANTS
    AnsweredAsAsked
PROPERTIES
    ImplementsService
    EvaluateAnswered
    HandshakeKept
    RequestAnswered
CHECK_DEADLOCK FALSE
