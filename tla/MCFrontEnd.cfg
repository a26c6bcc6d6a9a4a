\* Four requests: both airports typed and two searches for them.
SPECIFICATION Spec
CONSTANTS
    Texts = {"A", "B"}
    NoText = ""
    MaxRequests = 4
INVARIANTS
    SuggestionsOfText
    BusyWaits
    StatusTellsResults
    OneAnswerShown
CHECK_DEADLOCK FALSE
