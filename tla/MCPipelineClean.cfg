\* A C1351 mouse inherits what its port showed before.
CONSTANTS
    PadReport <- TwoPads
    MouseReport <- OneMouse
    Motion = {"right"}
    WheelBusMouse = FALSE
    Swap2Button = FALSE
    kJoystickSwapThreshold = 2
SPECIFICATION FairSpec
INVARIANTS MousePortClean
