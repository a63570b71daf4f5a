SPECIFICATION Spec
CONSTANTS
    Attached <- Common
    Prompt = TRUE
    Early = FALSE
    MaxKeys = 3
    MaxResend = 1
CHECK_DEADLOCK FALSE
INVARIANT DriverFits
INVARIANT RepliesMatch
INVARIANT KeysDecoded
PROPERTY InitEnds
