SPECIFICATION ChannelSpec
CONSTANTS
    Answering = {"Server", "Client"}
    MaxAsked = 2
    MaxRebuilds = 1
INVARIANTS
    ReplyOfItsRequest
