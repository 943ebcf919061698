SPECIFICATION DetailFairSpec
CONSTANTS
    Servers = {s1, s2}
    Ranges = {d1, d7}
    Requests = {q1, q2, q3}
    TTL = 2
    MaxClock = 2
    MaxClicks = 5
    Nil = Nil
INVARIANTS ShownBelongs SpinnerHonest
PROPERTIES ShownFresh WaitingEnds
