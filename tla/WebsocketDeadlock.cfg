\* As many requests as the queue, reply_loop and a handler hold together.
SPECIFICATION Spec
CONSTANTS
    Client = {c1}
    NoClient = NoClient
    MaxFailures = 0
    ReplyLen = 2
    QueueLen = 1
    Window = 4
    Kinds = {"echo"}
    MaxFrames = 4
INVARIANTS
    NoReplyDeadlock
