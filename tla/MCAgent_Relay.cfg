CONSTANTS
    Kernels = {k1}
    Cores = {0, 1, 2, 3}
    NodeOf <- MCNodeOf
    ReqCores = 2
    MaxRestarts = 1
    MaxDestroys = 2
    MaxCrashes = 1
    MaxFailures = 0
    MaxExecs = 2
    MaxShutdowns = 0
    MaxReconnects = 0
    MaxStats = 0
SPECIFICATION Spec
INVARIANT RunnerTaskLive
CHECK_DEADLOCK FALSE
