SPECIFICATION Spec
CONSTANTS
    None = None
    c1 = c1
    c2 = c2
    k1 = k1
    a = a
    b = b
    Conns = {c1, c2}
    Keys = {k1}
    Dsts = {a, b}
    KeyOf <- MCKeyOf
    DstOf <- MCDstOf
    MaxPackets = 2
    MaxRare = 1
INVARIANTS
    MisrouteNeedsStraggler
    MissNeedsDeletion
CHECK_DEADLOCK FALSE
