SPECIFICATION Spec
CONSTANTS
    c1 = c1
    c2 = c2
    t1 = t1
    t2 = t2
    t3 = t3
    t4 = t4
    None = None
    no_wchan = no_wchan
    Wchans = {w1}
    Cpus = {c1, c2}
    Threads = {t1, t2}
    BootQueue <- Boot2
    Calls = {"wait", "resume"}
SYMMETRY CpuSymmetry
CONSTRAINT QueueBound
CHECK_DEADLOCK FALSE
INVARIANT NotLost
