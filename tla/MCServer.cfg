\* The acceptor, the workers' life and the shutdown.  run() may return, or
\* wait for a worker that is stuck: the system may stop.
SPECIFICATION FairSpec
CONSTANTS
    N = 3
    Conns = {c1, c2, c3, c4}
INVARIANTS
    TypeOK
    QueueLengthExact
    ReadyBeforeUse
    PickIsLeastLoaded
PROPERTIES
    StopReturns
CHECK_DEADLOCK FALSE
