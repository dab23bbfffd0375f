\* The first connection of a boot.
SPECIFICATION Spec
CONSTANTS
    Client = {c1}
    NoClient = NoClient
    MaxFailures = 0
    ReplyLen = 1
    QueueLen = 1
    Window = 1
    Kinds = {"echo"}
    MaxFrames = 1
INVARIANTS
    QueueBeforeReply
