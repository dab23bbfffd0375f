\* Beams, engine and handlers together.  The control unit has one request more
\* under way than the queue of replies holds.
SPECIFICATION ElementFairSpec
CONSTANTS
    QueueLen = 2
    ReplyLen = 1
    Paths   <- Free
    Silents = {TRUE}
    Beams   <- BeamA
    Tasks   = {"set", "over", "echo"}
    MaxTick = 1
    MaxInputs = 5
    MaxMessages = 3
    Window = 2
    IsrLen = 1
    Debounce = 1
    TickRange = 2
    FirstTick = 1
    MaxHits = 2
PROPERTIES
    HandlerReturns
    OverObeyed
    SetSettles
    HitsDecided
INVARIANTS
    ElementTypeOK
    SolvedByTwoPassages
