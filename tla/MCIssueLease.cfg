SPECIFICATION Spec
CONSTANTS
    s1 = s1
    s2 = s2
    Session = {s1, s2}
    MaxTTL = 2
    MaxLag = 1
    TTL = {1, 2}
    AllowForce = TRUE
    Faults = TRUE
    Churn = TRUE
SYMMETRY Symmetry
INVARIANTS
    MutualExclusion
    NoDuplicateWork
    LabelShown
PROPERTIES
    TicketSpec
