CONSTANTS
    Requests = {r1, r2, r3}
    Routes = {"api"}
    NoRoute = NoRoute
    Config <- MCConfig
    Inputs <- MixedInputs
    NoID = NoID
    Codes = {429, 500}
    Limit = 1
    Window = 1
    Threshold = 1
    Timeout = 1
    MaxTime = 3
SPECIFICATION Spec
SYMMETRY RequestSymmetry
INVARIANTS TypeOK Accounted ForwardQuota BalancedTurns
PROPERTY BreakersKeepContract
\* A behaviour ends when every request is done and the clock has reached its bound.
CHECK_DEADLOCK FALSE
