CONSTANTS
    Gateways = {g1}
    Keys = {k1}
    Calls = {c1, c2}
    Redis = Redis
    Limit = 1
    Window = 1
    MaxRetries = 1
    MaxTime = 1
    MaxFaults = 2
SPECIFICATION FairSpec
INVARIANTS TypeOK WindowQuota DenialJustified
PROPERTY Decided
\* A behaviour ends when every call was made.
CHECK_DEADLOCK FALSE
