SPECIFICATION VmSpec
CONSTANTS
    m1 = m1
    m2 = m2
    o1 = o1
    o2 = o2
    None = None
    NoSlot = NoSlot
    NoCpu = NoCpu
    Maps = {m1}
    Objects = {o1, o2}
    Frames = {1, 2, 3, 4}
    MaxPages = 2
    AddrPages = 6
    TablePages = 6
    Mappings <- Alone
    Callers = {t1}
    Nodes = {n1, n2, n3}
    Counts = {1, 2}
    VmPages = 5
    Cpus = {0, 1, 2}
    Ops = {"heap", "uninstall", "insert", "switch", "create"}
CHECK_DEADLOCK FALSE
INVARIANT MappedRight
INVARIANT ListSorted
INVARIANT SharedSame
INVARIANT SpaceAccounted
INVARIANT Flushed
INVARIANT CommandAwaited
