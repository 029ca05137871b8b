SPECIFICATION Spec
CONSTANTS
    Thresholds <- TwoThresholds
    MaxWindow = 3
    MaxBytes = 2
INVARIANT KeepAliveTypeOK
PROPERTIES BusyRecentlyKept FailsOpen IdleStopped
CHECK_DEADLOCK FALSE
