CONSTANTS
    Kernels = {k1, k2}
    Cores = {0, 1, 2, 3}
    NodeOf <- MCNodeOf
    ReqCores = 2
    MaxRestarts = 2
    MaxDestroys = 0
    MaxCrashes = 0
    MaxFailures = 0
    MaxExecs = 0
    MaxShutdowns = 0
    MaxReconnects = 0
    MaxStats = 0
SPECIFICATION Spec
INVARIANT TerminatedIsFinal
CHECK_DEADLOCK FALSE
