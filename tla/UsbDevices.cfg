\* Every device, mice with short bytes, commands of the Switch Pro that collide.
CONSTANTS
    ByteBits = 4
    Descriptors <- MouseDescriptors
    Reports <- MouseReports
    kPauseBetweenCommands = 3
    LedReports = 2
    ClockMod = 7
    Devices <- AllDevices
    Presses <- FewPresses
    NoDevice = NoDevice
    NoDriver = NoDriver
    NoPress = NoPress
SPECIFICATION Spec
INVARIANTS MadeFor Heard MouseReportRead FallbackJustified ButtonLayout
PROPERTIES HandshakeSpaced Ready
