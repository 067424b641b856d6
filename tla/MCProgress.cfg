\* Fair: one frame, one turn, one call, one effect; one execution of a task
\* with an effect, two commands and a restart.
SPECIFICATION FairSpec
CONSTANTS
    None = None
    i1 = i1
    d1 = d1
    m1 = m1
    c1 = c1
    e1 = e1
    t1 = t1
    x1 = x1
    a1 = a1
    k1 = k1
    k2 = k2
    Host = Host
PROPERTIES EndsCome WorkEnds
CHECK_DEADLOCK FALSE
