\* A statement of the source that the exchange refutes: NoRouteNoSuccess.
SPECIFICATION Spec
CONSTANT MaxRequests = 3
INVARIANT NoRouteNoSuccess
CHECK_DEADLOCK FALSE
