SPECIFICATION FairSpec
CONSTANTS
    Msgs = {m1, m2, m3}
    Paths = {"", "a"}
    NoFile = ""
    Capacity = 1
    MaxSetups = 2
    MaxFlushes = 1
    None = None
INVARIANTS
    AcceptedIsWrittenOnce
    LossNeedsCause
PROPERTIES
    CallersReturn
CHECK_DEADLOCK FALSE
