CONSTANTS
    w1 = w1
    w2 = w2
    NoWindow = NoWindow
    Windows <- MCWindows
    MaxJobs = 3
    MaxEvents = 1
    OutCap = 1
    StageCap = 1
    InitialSlot = 0
    OutputSlot <- MCOutputSlot

SPECIFICATION Spec


INVARIANT FinalityEventsStaged
