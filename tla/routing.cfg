\* A counter of two bits (modulo four) wraps twice in nine requests, and three does not divide four.
CONSTANTS
    Configs <- MCConfigs
    Requests <- MCRequests
    Modulus = 4
    MaxRequests = 9
    HealthPath <- MCHealthPath
    NoRoute = NoRoute
SPECIFICATION Spec
INVARIANTS AssumptionsHold RoutesTakeTheirRequests TurnsBalanced JoinsLikeHttputil
\* A configuration may be refused, and the requests are bounded.
CHECK_DEADLOCK FALSE
