SPECIFICATION Spec
CONSTANTS
    Planes = {p1}
    Releases = {r1}
    Envs = {e1, e2}
    Comps = {"gpu", "handoff", "jumi", "loop"}
    Refs <- MCRefs
    Listed <- MCListed
    Requires <- MCRequires
    Matrix <- MCMatrix
    Declared <- MCRevert
    Forbidden = {}
    SameSecond = TRUE
    EmptyDir = TRUE
    MaxEdits = 3
    MaxFaults = 1
    MaxUnlisted = 2
INVARIANT DataPlaneInv
INVARIANT SkipSound
INVARIANT HeldWhileReconciled
PROPERTY HistoryKept
PROPERTY CRsDeployed
SYMMETRY MCSymmetry
CHECK_DEADLOCK FALSE
