\* An Amiga mouse: its wheel's signals are on the other port.
CONSTANTS
    Axis <- AmigaAxis
    Target <- AmigaTarget
    A <- AmigaA
    B <- AmigaB
    Movement <- Jolts
    kUpdatePeriod = 2
    Strict = FALSE
    ClockMod = 5
    Others <- PadLines
    MaxReports = 2
    MaxDisturbances = 2
SPECIFICATION FairSpec
INVARIANTS MovementKept
PROPERTIES Spaced Drained ImplementsTravel
