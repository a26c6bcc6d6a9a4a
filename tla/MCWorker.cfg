\* One worker and two connections, two surviving reads each: safety, the
\* refinement of IdleTimeout, and liveness.
SPECIFICATION FairSpec
CONSTANTS
    Conns = {c1, c2}
    Timeout = 1
    MaxReads = 2
INVARIANTS
    TypeOK
    DeadlineIsKnown
    DeadlineOfOpenConn
    GuardedUntilTimeout
PROPERTIES
    IsIdleTimeout
    FiredIsReleased
    EndsOrStrands
