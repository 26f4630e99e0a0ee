SPECIFICATION FairSpec
CONSTANTS
    NTargets = 2
    Slots = {1, 2, 3}
    Weight <- FirstHeavier
    Bindings <- ScoredBindings
    FirstBinding <- ScoredFirst
    Values = {1}
    Answers = {"value", "unavailable"}
    MaxCalls = 1
    MaxSteps = 3
    Deadline = 3
    CallTimeout = 1
    Cooldown = 3
    Slice = 2
    MaxEpisodes = 2
    MaxHeld = 4
    MaxAge = 4
    Margin = 1
    Poll = 3
    MinRequeue = 1
    Backoff = 0
    Slowest = 1
    Overrun = 0
    Stamps = {0}
    Lives <- SecondExpires
    MaxChanges = 0
    MaxStops = 0
PROPERTY NoSlotStarved
