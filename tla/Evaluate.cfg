SPECIFICATION Spec
CONSTANTS
    MaxAge = 1
    Admitted = {"ok", "bad"}
    MaxReasons = 8
    MaxResponses = 8
    MaxActions = 1
    MaxHistory = 2
    NameOrder <- MCNameOrder
    Registrations <- MCRegistrations
    Durable = TRUE
    Snapshots <- MCSnapshots
    Statements <- MCStatements
    MaxObs = 3
    Horizon = 2
    Profiles <- MCProfiles
    RecoveryWindow = 2
INVARIANT CyclesExact
INVARIANT StatesExact
INVARIANT OpenExact
INVARIANT PolicyAsShown
INVARIANT RecoveryEarned
PROPERTY OnlyNewsMoves
CHECK_DEADLOCK FALSE
