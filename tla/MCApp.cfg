SPECIFICATION Spec
CONSTANTS
    k1 = k1
    k2 = k2
    k3 = k3
    p1 = p1
    p2 = p2
    c1 = c1
    c2 = c2
    c3 = c3
    c4 = c4
    d = d
    r1 = r1
    r2 = r2
    r3 = r3
    m1 = m1
    m2 = m2
    br = br
    l1 = l1
    l2 = l2
    t1 = t1
INVARIANTS
    GraphWired
    StartupTold
    
    
    

    
CHECK_DEADLOCK FALSE
