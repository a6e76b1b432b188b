SPECIFICATION FairSpec
CONSTANTS
    None = None
    q1 = q1
    q2 = q2
    q3 = q3
    q4 = q4
    k1 = k1
    k2 = k2
    s1 = s1
    Queries = {q1, q2, q3, q4}
    Keys = {k1, k2}
    Servers = {s1}
    KeyOf <- MCKeyOf4
    ServerOf <- MCServerOf
    Unparseable = {q4}
    Blocked = {k2}
    Known = {}
    MaxReloads = 0
    MaxExpiries = 1
PROPERTIES
    EveryQueryEnds
CHECK_DEADLOCK FALSE
