\* A close frame without a status code, or with a reason.
SPECIFICATION FairSpec
CONSTANTS
    Client = {c1}
    NoClient = NoClient
    MaxFailures = 0
    ReplyLen = 1
    QueueLen = 1
    Window = 1
    Kinds = {"close_other"}
    MaxFrames = 1
PROPERTIES
    ComesBack
