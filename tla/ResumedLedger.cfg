SPECIFICATION Spec
CONSTANTS
    c1 = c1
    c2 = c2
    c3 = c3
    Calls = {c1, c2, c3}
    MaxRequests = 3
    MaxRetries = 1
    MaxInput = 2
    MaxTokens = 2
    MaxBrokers = 2
    MaxFaults = 0
SYMMETRY CallSymmetry
INVARIANT LaneUsageIsWhole
\* The run ends: nothing is left to do once the broker is down for good.
CHECK_DEADLOCK FALSE
