CONSTANTS
    r1 = r1
    r2 = r2
    r3 = r3
    Forged = Forged
    None = None
    Request <- MCRequest
    MaxGen = 1
    MaxTime = 2


SPECIFICATION Spec

INVARIANT
    VerifiedMeansCurrentSecret
