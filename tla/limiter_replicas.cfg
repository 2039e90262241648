CONSTANTS
    Gateways = {g1, g2}
    Keys = {k1}
    Calls = {c1, c2}
    Redis = Redis
    Limit = 1
    Window = 1
    MaxRetries = 0
    MaxTime = 3
    MaxFaults = 1
SPECIFICATION FairSpec
INVARIANTS WindowQuota WindowsDisjoint
PROPERTY Reclaimed
\* A behaviour ends when every call was made and the clock has reached its bound.
CHECK_DEADLOCK FALSE
