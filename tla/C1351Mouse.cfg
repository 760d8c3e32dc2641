\* Fast movement.  In 5 cycles at most 9 steps are made, half of the range is
\* 10; two steps per cycle would be 10, and a difference would change its sign.
\* The clock wraps around within a pulse and its pause.
CONSTANTS
    Movement <- Jolts
    PotRange = 20
    ValueMod = 40
    kWheelPulseLength = 1
    ClockMod = 4
    MaxCycles = 5
    MaxReports = 2
SPECIFICATION FairSpec
INVARIANTS PositionKept NoLatency
PROPERTIES EventuallySeen PulseLength
