SPECIFICATION StructuresSpec
CONSTANTS
    C = 4
    Limit = 3
    Values = {x, y}
    Cpus = {c1}
    Entries = {e1, e2, e3, e4}
    Alias = FALSE
    Vectors = {v1, v2}
    Buffers = {b1, b2, b3}
    Counts = {1, 2}
    MaxItems = 4
    Shared = {p1, p2, p3}
    Unique = {u1, u2}
    Objects = {o1, o2}
    Null = Null
    Strings = {a, b}
    Literals <- SlashAndLead
    MaxBytes = 3
    Formats <- SomeFormats
    Numbers <- Edges
    IntBits = 8
    WideBits = 16
    NUM_BUFFER_SIZE = 5
    Volumes <- SomeVolumes
    Unreadable = {}
    Paths <- SomePaths
    MaxParsed = 2
    Again = FALSE
CHECK_DEADLOCK FALSE
INVARIANT ListLinked
INVARIANT VectorSound
INVARIANT PointersAlive
INVARIANT TextKept
INVARIANT AnswersRight
INVARIANT Converted
INVARIANT Resolved
INVARIANT ScopeSafe
PROPERTY ListImplemented
PROPERTY LinkedListImplemented
