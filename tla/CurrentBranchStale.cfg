CONSTANTS
    Branches = {b1, b2}
    Tasks = {t1, t2}
    MaxSwitches = 1
    NoBranch = NoBranch
SPECIFICATION Spec
PROPERTY NoStaleOverwrite
SYMMETRY TaskSymmetry
