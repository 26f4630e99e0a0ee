SPECIFICATION Spec
CONSTANTS
    Planes = {p1, p2}
    Releases = {r1}
    Envs = {e1, e2}
    Comps = {"gpu", "handoff", "jumi", "loop"}
    Refs <- MCRefs
    Listed <- MCListed
    Requires <- MCRequires
    Matrix <- MCMatrix
    Declared <- MCForward
    Forbidden = {}
    SameSecond = FALSE
    EmptyDir = FALSE
    MaxEdits = 2
    MaxFaults = 0
    MaxUnlisted = 0
INVARIANT HealthyRuns
CHECK_DEADLOCK FALSE
