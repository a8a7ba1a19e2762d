SPECIFICATION NetSpec
CONSTANTS
    Machines = {bg3le, plain}
    Extended = {bg3le}
    Peers = {1, 2}
    NoPeer = 0
    MaxConnects = 4
    MaxPosts = 2
    MaxServers = 2
INVARIANTS
    OnlyExtendedAreSent400
CHECK_DEADLOCK FALSE
