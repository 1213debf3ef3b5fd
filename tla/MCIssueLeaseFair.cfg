SPECIFICATION FairSpec
CONSTANTS
    s1 = s1
    s2 = s2
    Session = {s1, s2}
    MaxTTL = 2
    MaxLag = 1
    TTL = {2}
    AllowForce = FALSE
    Faults = TRUE
    Churn = FALSE
PROPERTIES
    NeverBlocked
