\* One mouse, no disturbance: an adjustment is aborted.
CONSTANTS
    Converter = {m1}
    Buttons <- SingleClicks
    Wheel = {0, 1}
    kTimeout = 5
    Combination <- LLRRRM
    MaxAdjustment = 1
    MaxDisturbances = 0
SPECIFICATION CalibrationSpec
INVARIANTS AbortDiscards
