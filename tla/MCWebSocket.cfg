SPECIFICATION Spec
CONSTANTS
    Frames <- MCFrames
    MaxEvents = 3
INVARIANTS
    TypeOK
    NoOrphan
    CloseIsFinal
    MessagesAreWhole
    FramesApartAreIntact
CHECK_DEADLOCK FALSE
