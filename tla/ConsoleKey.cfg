SPECIFICATION Spec
CONSTANTS
    Cpus = {0, 1}
    WIDTH = 2
    HEIGHT = 2
    Ports <- TwoPorts
    Present = {"COM2"}
    Messages <- OneLine
    KeyMessage <- OneKey
    PanicMessage <- Stopped
    MaxPrinted = 2
    MaxKeys = 1
    MaxPanics = 0
CHECK_DEADLOCK FALSE
PROPERTY PrintkReturns
