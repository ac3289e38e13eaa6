SPECIFICATION FairSpec
CONSTANTS
    Updater = {u1}
    Pid = {p1, p2, p3, p4}
    MaxBuilds = 3
    MaxKills = 2
    Nil = Nil
CHECK_DEADLOCK FALSE
INVARIANT GoodBinaryKept
PROPERTIES CompleteMeansServed UpdateEnds
