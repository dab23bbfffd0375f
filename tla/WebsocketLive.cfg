\* Sets, closes with a status code, a broken connection or a failed connect.
SPECIFICATION FairSpec
CONSTANTS
    Client = {c1, c2}
    NoClient = NoClient
    MaxFailures = 1
    ReplyLen = 2
    QueueLen = 1
    Window = 2
    Kinds = {"set", "close"}
    MaxFrames = 2
PROPERTIES
    FramesHandled
    QueueDrains
    ComesBack
