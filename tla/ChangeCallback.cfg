SPECIFICATION Spec
CONSTANTS
    Callbacks = {c1, c2, c3}
    Notifiers = {n1, n2}
    MaxCalls = 3
    None = None
INVARIANTS
    TypeOK
    HandleMatches
PROPERTIES
    ImplementsBarrier
    UnregisterReturns
