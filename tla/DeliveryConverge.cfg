SPECIFICATION FairSpec
CONSTANTS
    Planes = {p1, p2}
    Releases = {r1}
    Envs = {e1}
    Comps = {"gpu", "handoff", "jumi", "loop"}
    Refs <- MCRefs
    Listed <- MCListed
    Requires <- MCRequires
    Matrix <- MCMatrix
    Declared <- MCPolicy
    Forbidden <- MCForbidden
    SameSecond = TRUE
    EmptyDir = TRUE
    MaxEdits = 2
    MaxFaults = 1
    MaxUnlisted = 2
INVARIANT HealthyRuns
INVARIANT PolicyKept
PROPERTY Converges
CHECK_DEADLOCK FALSE
