SPECIFICATION FairSpec
CONSTANTS
    a1 = a1  a2 = a2  m1 = m1  m2 = m2  printer = printer  switch = switch
    NoMac = NoMac
    Frames <- MCFrames
    KernelTables <- MCKernelTables
    MaxEntries = 3
    MaxAge = 2
    DedupeWindow = 3
    MaxLag = 1
    MaxFrames = 2
    MaxTime = 3
    MaxFaults = 1
INVARIANTS
    GoneOnlyIfSilent
    TablesSound
PROPERTY ServiceEnds
CHECK_DEADLOCK FALSE
