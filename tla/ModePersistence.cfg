\* Three bytes of three bits; power may fail anywhere but in an erase.  The clock
\* overflows within three delays.
CONSTANTS
    Bit = {"b0", "b1", "b7"}
    TopBit = "b7"
    FLASH_SECTOR_SIZE = 3
    PowerFailure = {"idle", "program"}
    WriteBackDelay = 2
    ClockMod = 6
SPECIFICATION FairSpec
INVARIANTS LogShape Recoverable
PROPERTIES WearLevelled ModeSurvives WrittenBack
