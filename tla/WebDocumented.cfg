SPECIFICATION Spec

CONSTANTS
    Clients = {"a", "b"}
    Shared <- MCShared
    Unit = 30
    PriceTtl = 60
    MaxRetries = 1
    MaxOpen = 1
    MaxAge = 12
    MaxTroubles = 2
    Sockets = {"a"}
    Channels = {"prices", "markets"}
    MaxQueue = 2
    Whos = {"x", "y"}
    Spans = {"w", "m"}
    MaxFetches = 3
    MaxNewer = 4
    MaxLost = 2
    Limits = {1, 2, 4}
    Followers = {0, 200}

INVARIANTS
    FreshAsDocumented
