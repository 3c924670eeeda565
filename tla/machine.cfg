CONSTANTS
    CodeSize = 3
    MemSize = 2
    CpuResults = {0, 1}
    WIDTH = 4
    Accs = {0, 1, 7, 8, 15}
    Floats <- MCFloats
    POINT5 = 8
    NaN = NaN
    PlusInf = PlusInf
    MinusInf = MinusInf
    MATRICES = 1
    Registers <- MCRegisters
    SPrefixes <- MCSPrefixes
    DPrefixes <- MCDPrefixes
    LaneResults = {30}
    LaneCounts = {3}
    CcBits = {4, 6, 7}
    MaxRun = 3
    ByteValues = {0, 1}
    TableCap = 3
    Functions = {1, 2, 4, 5}
    Bodies = {f, g}
    NoBody = NoBody
    Threads = {a, b, c}
    CBSLOTS = 2
    MaxDepth = 2
    PAGE = 8
    ALIGN = 4
    DEFAULT = 1
    RAM_BASE = 8
    DEFAULT_STACK = 6
    STACK_TOP = 32
    TLS = 3
    ROOM = 1
    MAXBLOCKS = 2
    MAXTHREADS = 3
    WRAP = 36
    Segments = {10, 16}
    BlockSizes = {0, 6}
    StackSizes = {0, 3, 9}
    Clients = {c1, c2}
    MaxFd = 2
    GuestPaths = {"disc", "stick"}
    DiscSize <- MCDiscSize
    HostName <- MCHostName
    MaxLen = 1
    Counts = {1}
    Discs <- MCDiscs
    SECTOR = 5
    PVD = 1
    Wrapper = "img"
    Paths <- MCPaths
    RawPaths <- MCRawPaths
    FRAME = 3
    LINES = 3
    MaxFrames = 3
    MaxReads = 5
SYMMETRY MCClientSymmetry
SPECIFICATION MachineSpec
INVARIANTS InterpreterFaithful InstructionsExact RuntimeKeepsFaith EachFindsItsRegisters GuestMemorySound FilesServed FoundByName
PROPERTIES TimeMovesOn
CHECK_DEADLOCK FALSE
