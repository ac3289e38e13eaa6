SPECIFICATION Spec
CONSTANTS
    MaxSize = 4
    MaxInt = 6
    Empty = Empty
    Junk = Junk
INVARIANTS
    TypeOK
    RangeExact
