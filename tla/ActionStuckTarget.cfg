SPECIFICATION FairSpec
CONSTANTS
    s1 = s1
    s2 = s2
    t1 = t1
    d1 = d1
    e1 = e1
    e2 = e2
    Subjects = {s1}
    Targets = {t1}
    TargetOf <- OneTarget
    Digests = {d1}
    Engines = {e1}
    Retryable = {}
    Inputs <- GoOnly
    Assessments = {"Recovered"}
    MaxEpisodes = 1
    MaxAttempts = 1
    MaxSends = 2
    MaxEpoch = 2
PROPERTIES
    LateResultReleases
CHECK_DEADLOCK FALSE
