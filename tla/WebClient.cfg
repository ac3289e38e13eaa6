SPECIFICATION FairClientSpec
CONSTANTS
    Request = {r1, r2}
    SessionId = {s1, s2}
    AccessTTL = 1
    RefreshTTL = 2
    Retention = 1
    MaxTime = 1
    Nil = Nil
    Tab = {t1}
    CsrfTTL = 1
    Faults = TRUE
INVARIANT RanOnce
PROPERTY Settles
