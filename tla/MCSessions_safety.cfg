SPECIFICATION Spec
CONSTANTS
    Request = {r1, r2}
    SessionId = {s1, s2, s3}
    AccessTTL = 2
    RefreshTTL = 3
    Retention = 1
    MaxTime = 3
    Nil = Nil
SYMMETRY Pools
INVARIANTS TypeOK OneTimeRefresh LogoutIsFinal ReplacedIsDead RotationKeepsLogin LiveTokensKept
PROPERTIES RevokedForGood
