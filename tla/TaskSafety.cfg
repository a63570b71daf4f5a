SPECIFICATION Spec
CONSTANTS
    c1 = c1
    c2 = c2
    t1 = t1
    t2 = t2
    t3 = t3
    t4 = t4
    None = None
    no_wchan = no_wchan
    Wchans = {w1}
    Cpus = {c1, c2}
    Threads = {t1, t2, t3}
    BootQueue <- Boot2
    Calls = {"yield", "wait", "new"}
CHECK_DEADLOCK FALSE
INVARIANT OnePlace
INVARIANT NotLost
INVARIANT NeverPanics
INVARIANT DirectoryExclusive
PROPERTY ImplementsScheduler
