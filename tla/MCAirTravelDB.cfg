SPECIFICATION Spec
CONSTANTS
    Strings <- MCStrings
    Null = 10
    Sized <- MCSized
    Value <- MCValue
    IntMax = 100
    Sent <- MCSent
    Encoded <- MCEncoded
    Within <- MCWithin
    Records <- MCRecords
    Limit = 2
    MaxLines = 3
INVARIANTS TypeOK LastLineWins AnswerIsMeant RefusedIsAbsent SuggestionsResolve
