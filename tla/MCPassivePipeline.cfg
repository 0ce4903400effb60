SPECIFICATION LoopSpec
CHECK_DEADLOCK FALSE
CONSTANTS
    f1 = f1
    f2 = f2
    Facts <- MCFacts
    Frames <- MCFrames
    Malformed = Malformed
    NoFrame = NoFrame
    Workers = {w1, w2}
    Submitters = {s1}
    QueueSize = 1
    MaxFrames = 4
INVARIANTS
    CountsExact
    StoppedIsQuiet
    NoSilentLoss
PROPERTIES
    StopEndsIfSinkReturns
    DrainBounded
