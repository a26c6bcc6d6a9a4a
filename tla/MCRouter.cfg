SPECIFICATION Spec
CONSTANTS
    Rules <- MCRules
    Urls <- MCUrls
    MaxRules = 3
INVARIANTS
    TypeOK
    FirstRuleAnswers
    RefusalIsJust
    AllowIsServed
    RedirectIsServed
CHECK_DEADLOCK FALSE
