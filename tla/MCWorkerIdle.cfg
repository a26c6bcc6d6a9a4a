\* The timeout promise of app.h, refuted: a stale cancel removes a deadline.
SPECIFICATION FairSpec
CONSTANTS
    Conns = {c1, c2}
    Timeout = 1
    MaxReads = 1
PROPERTY
    IdleIsEnded
