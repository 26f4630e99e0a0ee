SPECIFICATION FairSpec
CONSTANTS
    Planes = {p1}
    Releases = {r1}
    Envs = {e1}
    Comps = {"gpu", "handoff", "jumi", "loop"}
    Refs <- MCRefs
    Listed <- MCListed
    Requires <- MCRequires
    Matrix <- MCMatrix
    Declared <- MCForward
    Forbidden = {}
    SameSecond = FALSE
    EmptyDir = FALSE
    MaxEdits = 1
    MaxFaults = 1
    MaxUnlisted = 0
PROPERTY PromotedHasCR
CHECK_DEADLOCK FALSE
