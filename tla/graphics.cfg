CONSTANTS
    SEGMENT = 2
    Segments = 2
    STACK = 2
    GUARD = 5
    Starts = {0}
    Words = {1}
    MatrixSize <- MCMatrixSize
    NumberMask <- MCNumberMask
    Lights = {0, 3}
    VertexTypes <- MCVertexTypes
    Counts3D = {1, 2}
    Base = 4
    EPSILON = 1000
    Depths <- MCDepths
    Ws <- MCWs
    SUB = 2
    Corners <- MCCorners
    Scissor <- MCScissor
    PixelFormats <- MCPixelFormats
    PixelRegs <- MCPixelRegs
    Fragments <- MCFragments
    PixelWords = {3, 8}
    DepthFar = 2
    Textures <- MCTextures
    Keys = {p, q, r}
    Contents = {0, 1}
    MAX_TEX = 2
    EVICTED = 1
    MAX_DRAWS = 3
    Sizes = {3}
    Lengths = {0, 3}
    Movies = {m1, m2}
    CtxSlots = {0, 1}
    NoMovie = NoMovie
    MaxRead = 4
SPECIFICATION GraphicsSpec
INVARIANTS ListRunsInPlace OneFieldPerByte DrawsWhatIsInFront OneSurface KeepsTheRest TexelsAsLaidOut PendingHaveTheirImage RingFilledRightly
PROPERTIES EndsDrained
CHECK_DEADLOCK FALSE
