CONSTANTS
    Requests = {r1, r2}
    Routes = {"api", "public", "single"}
    NoRoute = NoRoute
    Config <- MCConfig
    Inputs <- AllInputs
    NoID = NoID
    Codes = {200, 500}
    Limit = 1
    Window = 1
    Threshold = 1
    Timeout = 1
    MaxTime = 2
SPECIFICATION AnsweringSpec
PROPERTY EveryRequestEnds
\* A behaviour ends when every request is done and the clock has reached its bound.
CHECK_DEADLOCK FALSE
