SPECIFICATION Spec
CONSTANTS
    Candidates = {"good", "bad"}
    MaxCorrections = 2
INVARIANT CleanExitIsWhole
INVARIANT HealthyLaneIsKept
PROPERTY DriverEnds
\* The lane ends with its driver.
CHECK_DEADLOCK FALSE
