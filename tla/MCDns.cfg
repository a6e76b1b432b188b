SPECIFICATION Spec
CONSTANTS
    None = None
    q1 = q1
    q2 = q2
    q3 = q3
    q4 = q4
    k1 = k1
    k2 = k2
    s1 = s1
    Queries = {q1, q2, q3}
    Keys = {k1, k2}
    Servers = {s1}
    KeyOf <- MCKeyOf
    ServerOf <- MCServerOf
    Unparseable = {}
    Blocked = {}
    Known = {}
    MaxReloads = 1
    MaxExpiries = 1
SYMMETRY Symmetric
INVARIANTS
    OneRequestPerKey
    AnswerFits
    ProbesAreCoalesced
    FallbackIsHeeded
CHECK_DEADLOCK FALSE
