SPECIFICATION CommandsFairSpec
CONSTANTS
    Cpus = {0, 1}
    Ops = {"heap", "uninstall"}
    NoCpu = NoCpu
CHECK_DEADLOCK FALSE
PROPERTY LockReturns
