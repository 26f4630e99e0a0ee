SPECIFICATION FairSpec
CONSTANTS
    MaxAge = 1
    Admitted = {"ok", "bad"}
    SpecOf <- MCSpecOf
    MaxReasons = 8
    MaxResponses = 8
    MaxActions = 1
    MaxHistory = 2
    NameOrder <- MCNameOrder
    Starts <- MCStarts
    Alternatives <- MCAlternatives
    Values = {"ok", "bad"}
    Records <- MCRecords
    Views <- MCViews
    MaxChanges = 2
    MaxFaults = 1
INVARIANT OwnAssessment
INVARIANT RecurrencesExact
INVARIANT NamespacesIsolated
INVARIANT LevelJustified
PROPERTY Settles
