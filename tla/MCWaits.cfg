SPECIFICATION FairSpec
CONSTANTS
    k = k
    a = a
    r1 = r1
    r2 = r2
    k1 = k1
    k2 = k2
    k3 = k3
    c1 = c1
    c2 = c2
    c3 = c3
    c4 = c4
    t1 = t1
    l1 = l1
    l2 = l2
    p1 = p1
    br = br
    owner = owner
    none = none
PROPERTIES
    WaitsEnd
CHECK_DEADLOCK FALSE
