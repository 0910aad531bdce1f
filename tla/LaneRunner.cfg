SPECIFICATION Spec
CONSTANTS
    MaxAttempts = 2
    Candidates = {"text"}
INVARIANT CompleteIsEarned
PROPERTY KeepsPromise
PROPERTY AcceptedEnds
\* The runner ends.
CHECK_DEADLOCK FALSE
