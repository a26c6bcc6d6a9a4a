\* Every sequence of three requests on one connection.  A closed connection
\* stops, and so does one that reached the bound.
SPECIFICATION Spec
CONSTANT MaxRequests = 3
INVARIANTS
    TypeOK
    CleanBetweenRequests
    AnsweredOnce
    AnswerOfRequest
CHECK_DEADLOCK FALSE
