SPECIFICATION FairSpec
CONSTANTS
    Runs = {b1, b2}
    Revs = {r1, r2}
    MaxFaults = 2
INVARIANT LinkResolves
PROPERTY LinkedInTheEnd
CHECK_DEADLOCK FALSE
