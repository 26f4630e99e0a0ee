SPECIFICATION Spec
CONSTANTS
    NTargets = 2
    Slots = {1, 2}
    Weight <- EqualWeight
    Bindings <- FaultBindings
    FirstBinding <- FaultFirst
    Values = {1, 2}
    Answers = {"value", "unavailable"}
    MaxCalls = 2
    MaxSteps = 3
    Deadline = 2
    CallTimeout = 1
    Cooldown = 2
    Slice = 3
    MaxEpisodes = 1
    MaxHeld = 2
    MaxAge = 3
    Margin = 1
    Poll = 3
    MinRequeue = 1
    Backoff = 0
    Slowest = 2
    Overrun = 1
    Stamps = {0, 4}
    Lives <- SecondExpires
    MaxChanges = 1
    MaxStops = 0
INVARIANT InvestigatorInv
INVARIANT CallBudget
INVARIANT NoFallback
INVARIANT HeldAuthorized
PROPERTY OutageClearedByNews
