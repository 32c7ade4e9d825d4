CONSTANTS
    Low = 1
    High = 2
    Maximum = 4
    Sizes <- SmallSizes
    MaxWrites = 4
SPECIFICATION FairSpec
INVARIANTS
    NothingLost
    NoLostDrain
    CallbacksTrue
PROPERTIES
    ImplementsChannel
    DrainComes
    EndCloses
CHECK_DEADLOCK FALSE
