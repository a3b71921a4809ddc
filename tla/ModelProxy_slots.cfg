SPECIFICATION Spec
CONSTANTS
    r1 = r1
    r2 = r2
    c1 = c1
    c2 = c2
    Request = {r1, r2}
    Cap = {c1, c2}
    CapOf <- TwoGrants
    Leased = {c1}
    Gated = {c2}
    MaxSlots = 1
CHECK_DEADLOCK FALSE
INVARIANTS
    LittleAfterTheEnd
PROPERTIES
    SlotComesBack
