\* A mouse and two game pads, without the wheel bus mouse.
CONSTANTS
    PadReport <- TwoPads
    MouseReport <- OneMouse
    Motion = {"right"}
    WheelBusMouse = FALSE
    Swap2Button = FALSE
    kJoystickSwapThreshold = 2
SPECIFICATION FairSpec
INVARIANTS PotOwner SmAssigned PadCoherent QuadratureClean
PROPERTIES InputShown
