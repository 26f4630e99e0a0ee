SPECIFICATION FairSpec
CONSTANTS
    MaxAge = 1
    Admitted = {"ok", "bad"}
    SpecOf <- MCSpecOf
    MaxReasons = 8
    MaxResponses = 8
    MaxActions = 1
    MaxHistory = 2
    NameOrder <- MCNameOrder
    Starts <- MCStarts
    Alternatives <- MCAlternatives
    Values = {"ok", "bad"}
    Records <- MCRecords
    Views <- MCViews
    MaxChanges = 2
    MaxFaults = 0
PROPERTY PassPublishes
CHECK_DEADLOCK FALSE
