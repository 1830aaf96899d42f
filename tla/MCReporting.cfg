CONSTANTS
    Task = {t1}
    Ref = {r1}
    BatchSize = 2
    Legacy = 1
    MaxFindings = 1
    MaxRuns = 2
    MaxScans = 1
    MaxFuzz = 1
    MaxFailures = 3
SPECIFICATION ReportSpec
INVARIANTS
    ReportTellsOneRun
    PolishKeepsEveryFinding
