CONSTANTS
    MaxCalls = 2
    MaxAsks = 2
    Capacity = 3
    None = None
SPECIFICATION FairSpec
INVARIANTS OwnAnswer AcknowledgedBeforeReturn NeverDetached
PROPERTIES ShutdownReturns CallsReturn
CHECK_DEADLOCK FALSE
