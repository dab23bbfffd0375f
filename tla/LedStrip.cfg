\* The array, the animation and the driver.
SPECIFICATION FairSpec
CONSTANTS
    HBF_LED_COUNT = 2
    Half = 1
    trans_queue_depth = 2
    mem_block_symbols = 2
    SemaLimit = 2
    FlashLength = 0
    Colours <- AllColours
    Calls   <- SomeCalls
    MaxCalls = 2
PROPERTIES
    CallsReturn
    FlashEnds
INVARIANTS
    TypeOK
    ShownIsStored
    LoneCallShown
