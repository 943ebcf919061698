SPECIFICATION FairSpec
CONSTANTS
    Servers = {s1}
    Tokens = {t1}
    Names = {n1, n2}
    Requests = {r1}
    Clients = {c1}
    MaxServers = 1
    SubscriberCapacity = 2
    OfflineAfter = 1
    MaxTime = 2
    Nil = Nil
INVARIANTS NewestKept
PROPERTIES SilentGoesOffline
