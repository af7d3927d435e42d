SPECIFICATION RefusingFairSpec
CONSTANTS
    request = request
    stream = stream
    duplex = duplex
    event = event
    Calls <- MCCalls
    Events = {event}
    Uploads = {duplex}
    Streamed <- MCStreamed
    MaxConns = 3
    MaxItems = 3
    Limit = 1
    Clients <- MCUploading
PROPERTY LostLaneFailsAll
CHECK_DEADLOCK FALSE
