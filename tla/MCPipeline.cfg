CONSTANTS
    Stages <- PoolThenBroadcast
    MaxPayloads = 2
SPECIFICATION FairSpec
INVARIANTS
    OneHolder
    NoSendOnClosed
    NilIsComplete
    ErrorIffReported
PROPERTIES
    Returns
