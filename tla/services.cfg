CONSTANTS
    Saves = {1, 2}
    Asked <- MCAsked
    Blobs = {"ICON0.PNG"}
    MaxSaves = 2
    Params = {"block"}
    Polls = 1
    SaveLists <- MCLists
    Channels = {1, 2}
    RING_FRAMES = 6
    BLOCK_FRAMES = 2
    NUM_BLOCKS = 2
    Lens = {1, 4}
    Voices = {1}
    Streams <- MCStreams
    SAMPLES = 3
    Native = 2
    Pitches = {1, 2, 5}
    Grains = {1, 4}
    DefaultGrain = 4
    CTRL_RING = 4
    Readers = {a, b}
    Wakes = 4
SPECIFICATION ServicesSpec
INVARIANTS SaveThenLoad FinishedMeansOwnResult SoundInOrder CountsUnread ParkedOnlyWhenEmpty
PROPERTY WaitsEnd
