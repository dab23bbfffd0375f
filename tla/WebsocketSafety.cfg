\* Boot, broken connections and closes of both kinds: one place more than
\* requests under way, for the report of a connection that comes in between.
SPECIFICATION Spec
CONSTANTS
    Client = {c1, c2}
    NoClient = NoClient
    MaxFailures = 1
    ReplyLen = 3
    QueueLen = 1
    Window = 2
    Kinds = {"echo", "set", "over", "silent", "close", "close_other"}
    MaxFrames = 3
INVARIANTS
    TypeOK
    RepliesInOrder
    LockHeld
    LinkHasTask
    NoReplyDeadlock
SYMMETRY Symmetry
