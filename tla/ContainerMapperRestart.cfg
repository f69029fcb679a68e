CONSTANTS
    Containers = {1, 2}
    Pids = {1, 2}
    Windows <- MCWindows
    MaxCandidates = 1
    Undated = {2}
    Names <- MCNames
    MountsOf <- MCMountsOf
    Paths <- MCPaths
    HostPaths <- MCHostPaths
    MaxRuns = 2
    MaxTime = 2
SPECIFICATION Spec
CHECK_DEADLOCK FALSE
INVARIANTS
    RunningNeverExcluded
