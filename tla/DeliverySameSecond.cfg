SPECIFICATION Spec
CONSTANTS
    Planes = {p1}
    Releases = {r1}
    Envs = {e1}
    Comps = {"gpu", "handoff", "jumi", "loop"}
    Refs <- MCRefs
    Listed <- MCListed
    Requires <- MCRequires
    Matrix <- MCMatrix
    Declared <- MCForward
    Forbidden = {}
    SameSecond = TRUE
    EmptyDir = FALSE
    MaxEdits = 1
    MaxFaults = 2
    MaxUnlisted = 0
PROPERTY RevisionsImmutable
CHECK_DEADLOCK FALSE
