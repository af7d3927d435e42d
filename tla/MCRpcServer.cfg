CONSTANTS
    o1 = o1
    o2 = o2
    r1 = r1
    r2 = r2
    e1 = e1
    bad = bad
    misfit = misfit
    unrouted = unrouted
    NoCall = NoCall
    Calls <- MCCalls
    Arrived <- MCArrived
    Id <- MCId
    Unrouted = {unrouted}
    BadDeadline = {bad}
    Deadlined = {o1, e1}
    Misfits = {misfit}
    Streaming = {o1}
    MaxQueued = 1
    Servers <- MCServers
SPECIFICATION ServerSpec
INVARIANTS AnsweredExactly 
PROPERTIES FailedReadNotAnswered
CHECK_DEADLOCK FALSE
