\* A mouse whose wheel tilts.
CONSTANTS
    ByteBits = 4
    Descriptors <- TiltDescriptors
    Reports <- MouseReports
SPECIFICATION MouseSpec
INVARIANTS WheelExtracted
