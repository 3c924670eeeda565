CONSTANTS
    MAXTHREADS = 3
    Prios = {2}
    EntryPrio = 2
    Delays = {1}
    Period = 1
    MaxElapse = 0
    MaxWakeups = 0
    Paced = FALSE
    VBLANK = VBLANK
    OtherObjs = {f, s}
    NoObj = NoObj
    Semas = {s}
    Flags = {f}
    TableSize = 1
    Bits = {1, 2}
    MaxCount = 2
    Timeouts <- Forever
SPECIFICATION WaitersSpec
INVARIANT NoSatisfiedWaiter
PROPERTY ImplementsMonitor
