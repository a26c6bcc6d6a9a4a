\* A statement of the source that the exchange refutes: OthersHaveTheirBody.
SPECIFICATION Spec
CONSTANT MaxRequests = 3
INVARIANT OthersHaveTheirBody
CHECK_DEADLOCK FALSE
