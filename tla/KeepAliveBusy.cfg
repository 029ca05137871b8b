SPECIFICATION Spec
CONSTANTS
    Thresholds <- OneThreshold
    MaxWindow = 2
    MaxBytes = 1
PROPERTY BusyKept
CHECK_DEADLOCK FALSE
