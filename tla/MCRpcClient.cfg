SPECIFICATION ClientFairSpec
CONSTANTS
    request = request
    stream = stream
    duplex = duplex
    event = event
    Calls <- MCCalls
    Events = {event}
    Uploads = {duplex}
    Streamed <- MCStreamed
    MaxConns = 3
    MaxItems = 2
    Limit = 1
    Clients <- MCClients
INVARIANTS
    OneOpenConnection CancelledExactlyOnce NothingSkipped
PROPERTY LostLaneFailsUnary
CHECK_DEADLOCK FALSE
