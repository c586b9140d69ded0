CONSTANTS
    Kernels = {k1}
    Cores = {0, 1, 2, 3}
    NodeOf <- MCNodeOf
    ReqCores = 2
    MaxRestarts = 0
    MaxDestroys = 1
    MaxCrashes = 0
    MaxFailures = 0
    MaxExecs = 0
    MaxShutdowns = 0
    MaxReconnects = 1
    MaxStats = 0
SPECIFICATION Spec
PROPERTY DeadKernelCleaned
CHECK_DEADLOCK FALSE
