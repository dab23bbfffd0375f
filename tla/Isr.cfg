\* Two beams and the push button around a wrap of the tick count.
SPECIFICATION Spec
CONSTANTS
    IsrLen = 2
    Debounce = 2
    TickRange = 5
    FirstTick = 3
    Sources = {"TE_HIT_BEAM_A", "TE_HIT_BEAM_B", "TE_PUSH"}
    MaxTime = 4
    MaxHits = 4
INVARIANTS
    TypeOK
    PostedInOrder
    BeamsDebounced
    IgnoredHadPrecursor
CHECK_DEADLOCK FALSE
