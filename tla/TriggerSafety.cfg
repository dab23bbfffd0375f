\* Safety of the exercise engine: two beams, queues of two and one, no limit on
\* requests.
SPECIFICATION Spec
CONSTANTS
    QueueLen = 2
    ReplyLen = 1
    Paths   <- FreeAndForth
    Silents = {FALSE}
    Beams   <- BothBeams
    Tasks   = {"set", "over", "echo"}
    MaxTick = 2
    MaxInputs = 5
INVARIANTS
    TypeOK
    ResultsJustified
    AnswersInOrder
    TimesConsistent
    LitOnlyInExercise
PROPERTIES
    NoAnswerAfterOver
    KeepsPromise
