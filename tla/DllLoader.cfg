SPECIFICATION Spec
CHECK_DEADLOCK FALSE
CONSTANTS
    Loads = {l1, l2}
    Slots = {a, b, c}
    Crossing = {b}
    Preferred = a
    Libs = {k1, k2}
    Readers = {r}
    None = None
INVARIANTS
    TypeOK
    CodeRunsHooked
PROPERTIES
    ImplementsStore
    LoadReturns
