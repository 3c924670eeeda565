CONSTANTS
    Sizes = {3}
    Lengths = {4}
    Movies = {m1}
    CtxSlots = {0, 1}
    NoMovie = NoMovie
    MaxRead = 6
SPECIFICATION FeedAndTakeSpec
INVARIANT TakenOnce
