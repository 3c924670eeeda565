CONSTANTS
    MAXTHREADS = 2
    Prios = {2}
    EntryPrio = 2
    Delays = {1}
    Period = 2
    MaxElapse = 1
    MaxWakeups = 0
    Paced = TRUE
    VBLANK = VBLANK
    OtherObjs = {s}
    NoObj = NoObj
    Semas = {s}
    Flags = {}
    TableSize = 1
    Bits = {}
    MaxCount = 1
    Timeouts <- LongAndShort
SPECIFICATION ClaimSpec
PROPERTY SignalIsNotTimeout
