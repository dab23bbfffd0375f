\* A set that nobody hits is never answered.
SPECIFICATION FairSpec
CONSTANTS
    QueueLen = 2
    ReplyLen = 1
    Paths   = {"TP_A_TO_B"}
    Silents = {TRUE}
    Beams   <- BothBeams
    Tasks   = {"set"}
    MaxTick = 2
    MaxInputs = 2
PROPERTY SetIsAnswered
