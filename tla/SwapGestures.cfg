\* Periods of 3 ticks on a clock that wraps around in every hold; a button of the
\* pad keeps its state for more than a period, as a release within one is not seen.
CONSTANTS
    auto_fire_period = 2
    kJoystickSwapThreshold = 3
    MinChange = 4
    MouseButtons = {{"left"}, {"left", "right"}, {"left", "middle", "right"}}
    Combination = {"left", "right"}
    kSwapHoldDuration = 3
    ClockMod = 7
SPECIFICATION FairSpec
INVARIANTS OneSwap
PROPERTIES ToggledEvenly HeldLong SwapComes
