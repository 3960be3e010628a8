\* Two calls of this window in flight at once, no other instance.
CONSTANTS
    Accounts = {a1, a2}
    Secrets = {s1, s2}
    Tasks = {t1, t2}
    None = None
    NoValue = NoValue
    OtherWindow = FALSE
SPECIFICATION Spec
SYMMETRY TaskSymmetry
INVARIANT NoLostUpdate
