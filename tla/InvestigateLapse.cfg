SPECIFICATION Spec
CONSTANTS
    NTargets = 2
    Slots = {1, 2}
    Weight <- EqualWeight
    Bindings <- SteadyBindings
    FirstBinding <- SteadyFirst
    Values = {1}
    Answers = {"value"}
    MaxCalls = 2
    MaxSteps = 3
    Deadline = 4
    CallTimeout = 2
    Cooldown = 4
    Slice = 8
    MaxEpisodes = 2
    MaxHeld = 3
    MaxAge = 12
    Margin = 6
    Poll = 12
    MinRequeue = 1
    Backoff = 0
    Slowest = 1
    Overrun = 0
    Stamps = {0}
    Lives <- NoValidUntil
    MaxChanges = 0
    MaxStops = 0
PROPERTY RefreshedBeforeExpiry
