SPECIFICATION LocalSpec
CONSTANTS
    lane = lane
    ctl = ctl
    Candidates = {"good", "bad"}
    MaxCorrections = 1
INVARIANT CompletedMeansAccepted
INVARIANT NoBearerLeftBehind
PROPERTY DriverEnds
\* The lane ends when nobody resumes it.
CHECK_DEADLOCK FALSE
