CONSTANTS
    Kernels = {k1}
    Cores = {0, 1, 2, 3}
    NodeOf <- MCNodeOf
    ReqCores = 2
    MaxRestarts = 0
    MaxDestroys = 0
    MaxCrashes = 1
    MaxFailures = 0
    MaxExecs = 0
    MaxShutdowns = 1
    MaxReconnects = 0
    MaxStats = 0
SPECIFICATION Spec
PROPERTY ShutdownCompletes
CHECK_DEADLOCK FALSE
