CONSTANTS
    a = a
    b = b
    c = c
    Attributes = {a, b, c}
    AvgSize <- MCAvgSize
    Queries <- MCQueries
    Thresholds = {0, 60}
    MaxQueries = 3
    None = None
SPECIFICATION FairSpec
INVARIANTS SolutionCovers WithinThreshold SplitUndoesMerge
PROPERTIES SolverReturns
