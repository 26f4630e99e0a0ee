SPECIFICATION Spec
CONSTANTS
    Runs = {b1, b2}
    Revs = {r1, r2}
    MaxFaults = 0
PROPERTY FirstWriteWins
CHECK_DEADLOCK FALSE
