SPECIFICATION Spec
CONSTANTS
    Servers = {s1, s2}
    Tokens = {t1, t2}
    Names = {n1}
    Requests = {r1, r2}
    Clients = {}
    MaxServers = 2
    SubscriberCapacity = 1
    OfflineAfter = 1
    MaxTime = 2
    Nil = Nil
SYMMETRY Symmetry
INVARIANTS NoGhost PublishedMatchesStore OfflineIsTransition
PROPERTIES SilentWhileDisabled ImplementsStatus
