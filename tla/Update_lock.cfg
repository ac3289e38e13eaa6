SPECIFICATION Spec
CONSTANTS
    Updater = {u1, u2}
    Pid = {p1, p2, p3, p4}
    MaxBuilds = 3
    MaxKills = 2
    Nil = Nil
INVARIANT OneUpdate
