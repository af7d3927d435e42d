SPECIFICATION WsFairSpec
CONSTANTS
    b1 = b1
    s1 = s1
    c1 = c1
    k1 = k1
    k2 = k2
    Senders = {b1}
    Streams = {s1}
    Closers = {c1}
    Count = 2
    Connections <- MCConnections
    Conns = {k1, k2}
    MaxFrames = 2
    Gateways <- MCGateways
    Parts = {"outbound", "places"}
INVARIANTS Accounted CloseFollows PlacesExact
PROPERTIES WsWaitsEnd
CHECK_DEADLOCK FALSE
