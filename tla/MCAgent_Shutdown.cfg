CONSTANTS
    Kernels = {k1, k2}
    Cores = {0, 1, 2, 3}
    NodeOf <- MCNodeOf
    ReqCores = 2
    MaxRestarts = 0
    MaxDestroys = 1
    MaxCrashes = 0
    MaxFailures = 1
    MaxExecs = 1
    MaxShutdowns = 2
    MaxReconnects = 0
    MaxStats = 0
SPECIFICATION Spec
PROPERTY ShutdownCompletes
INVARIANT ShutdownCleansSnapshot
CHECK_DEADLOCK FALSE
