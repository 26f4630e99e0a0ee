SPECIFICATION Spec
CONSTANTS
    s1 = s1
    s2 = s2
    t1 = t1
    d1 = d1
    e1 = e1
    e2 = e2
    Subjects = {s1, s2}
    Targets = {t1}
    TargetOf <- OneTarget
    Digests = {d1}
    Engines = {e1, e2}
    Retryable = {}
    Inputs <- GoOnly
    Assessments = {"Recovered"}
    MaxEpisodes = 1
    MaxAttempts = 1
    MaxSends = 1
    MaxEpoch = 2
SYMMETRY Symmetry
INVARIANTS
    LiveExclusive
    OwnerViewCurrent
PROPERTIES
    ImplementsLease
CHECK_DEADLOCK FALSE
