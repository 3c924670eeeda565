CONSTANTS
    MAXTHREADS = 2
    Prios = {1, 2}
    EntryPrio = 2
    Delays = {1, 3}
    Period = 2
    MaxElapse = 1
    MaxWakeups = 1
    Paced = TRUE
    VBLANK = VBLANK
    OtherObjs = {}
    NoObj = NoObj
SPECIFICATION Spec
INVARIANTS OneRunning ParkedIsSaved SleeperHasNoWakeup StrandedOnlyByReturn StopIsFinal
PROPERTY DelayNotCutShort
