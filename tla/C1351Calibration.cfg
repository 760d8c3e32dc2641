\* Two mice; a press and its release fit into the shortened timeout.
CONSTANTS
    Converter = {m1, m2}
    Buttons <- SingleClicks
    Wheel = {0, 1}
    kTimeout = 3
    Combination <- LLRRRM
    MaxAdjustment = 1
    MaxDisturbances = 1
SPECIFICATION CalibrationSpec
INVARIANTS Agreement
PROPERTIES CombinationEnters
SYMMETRY Symmetry
