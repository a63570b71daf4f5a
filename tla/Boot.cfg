SPECIFICATION Spec
CONSTANTS
    MADT_COPY = 3
    PAGE_SIZE = 4
    VM_TABLES = 2
    PER_SECOND = 2
    Rate = 2
    Faults = {"thread"}
    Machines <- All
CHECK_DEADLOCK FALSE
INVARIANT HandlersReady
INVARIANT KernelDirectory
INVARIANT TimersSet
INVARIANT KernelMapped
PROPERTY BootCompletes
PROPERTY PanicStops
