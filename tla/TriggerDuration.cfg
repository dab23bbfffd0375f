\* The duration of a solved exercise is reported in ticks.
SPECIFICATION Spec
CONSTANTS
    QueueLen = 2
    ReplyLen = 1
    Paths   = {"TP_A_TO_B"}
    Silents = {TRUE}
    Beams   <- BothBeams
    Tasks   = {"set"}
    MaxTick = 2
    MaxInputs = 3
INVARIANT DurationInMillis
