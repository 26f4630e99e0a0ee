SPECIFICATION FairSpec
CONSTANTS
    s1 = s1
    s2 = s2
    t1 = t1
    d1 = d1
    e1 = e1
    e2 = e2
    Subjects = {s1}
    Targets = {t1}
    TargetOf <- OneTarget
    Digests = {d1}
    Engines = {e1}
    Retryable = {s1}
    Inputs <- GoOnly
    Assessments = {"Recovered"}
    MaxEpisodes = 2
    MaxAttempts = 2
    MaxSends = 1
    MaxEpoch = 1
INVARIANTS
    RetryAfterFailure
    EpisodesEarned
PROPERTIES
    LateResultReleases
CHECK_DEADLOCK FALSE
