CONSTANTS
    Configs <- MCConfigs
    Requests <- MCRequests
    Modulus = 4
    MaxRequests = 9
    HealthPath <- MCHealthPath
    NoRoute = NoRoute
SPECIFICATION Spec
INVARIANT RoutesTakeOnlyTheirs
\* A configuration may be refused, and the requests are bounded.
CHECK_DEADLOCK FALSE
