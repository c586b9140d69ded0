CONSTANTS
    Kernels = {k1}
    Cores = {0, 1, 2, 3}
    NodeOf <- MCNodeOf
    ReqCores = 2
    MaxRestarts = 0
    MaxDestroys = 0
    MaxCrashes = 0
    MaxFailures = 0
    MaxExecs = 1
    MaxShutdowns = 0
    MaxReconnects = 0
    MaxStats = 0
SPECIFICATION Spec
PROPERTY ExecTimeoutDestroys
CHECK_DEADLOCK FALSE
