CONSTANTS
    Kernels = {k1, k2}
    Cores = {0, 1, 2, 3}
    NodeOf <- MCNodeOf
    ReqCores = 2
    MaxRestarts = 1
    MaxDestroys = 2
    MaxCrashes = 0
    MaxFailures = 0
    MaxExecs = 0
    MaxShutdowns = 0
    MaxReconnects = 0
    MaxStats = 0
SPECIFICATION Spec
INVARIANT CoresDisjoint
CHECK_DEADLOCK FALSE
