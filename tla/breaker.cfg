\* Threshold and timeout above one, more handlers than the threshold.
CONSTANTS
    Threshold = 2
    Timeout = 2
    Requests = {r1, r2, r3, r4}
SPECIFICATION FairSpec
INVARIANTS TypeOK CooldownMeansOpen CountFitsState LateFailuresBounded
PROPERTIES ImplementsContract Recovery
