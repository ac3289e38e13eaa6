SPECIFICATION Spec
CONSTANTS
    Client = {c1, c2}
    Limit = 2
    Window = 3
    Second = 2
    MaxTime = 7
    Nil = Nil
SYMMETRY Pools
INVARIANTS
    TypeOK
    BurstBound
    RefusalJustified
    RetryAfterKept
