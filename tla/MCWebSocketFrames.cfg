\* A statement of the source that the connection refutes: EachFrameOnce.
SPECIFICATION Spec
CONSTANTS
    Frames <- MCFrames
    MaxEvents = 2
INVARIANT EachFrameOnce
CHECK_DEADLOCK FALSE
