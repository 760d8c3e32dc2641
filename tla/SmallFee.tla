------------------------------ MODULE SmallFee ------------------------------
(***************************************************************************)
(* SingleByteFlashEepromEmulation: one byte of configuration kept in a     *)
(* sector of NOR flash.  Every change is appended behind the previous one; *)
(* the sector is erased when it is full and, at power-on, the last byte    *)
(* before the first clean one is the configuration.                        *)
(*                                                                         *)
(* A byte is the set of its bits that are 1.  Programming can only clear   *)
(* bits and erasing sets them all, so a program is an intersection with    *)
(* the old content.  write_config is split where it calls the flash driver *)
(* (the board may lose its supply there or anywhere else): an interrupted  *)
(* program has cleared some of the bits, an interrupted erase has set some.*)
(* The other bytes of the page are programmed with what they hold.         *)
(***************************************************************************)
EXTENDS Naturals

CONSTANTS Bit,                \* the bits of a byte
          TopBit,             \* its most significant one
          FLASH_SECTOR_SIZE,  \* bytes in a sector (4096)
          PowerFailure        \* where the supply may fail: at "idle", "program", "erase"

Byte == SUBSET Bit
Clean == Bit                  \* 0xff
Offset == 0 .. FLASH_SECTOR_SIZE - 1

ASSUME SmallFeeAssumption ==
    /\ TopBit \in Bit
    /\ FLASH_SECTOR_SIZE \in Nat \ {0}
    /\ PowerFailure \subseteq {"idle", "program", "erase"}

VARIABLES flash,              \* flash_target_contents
          next_write_offset,
          config_byte_cache,
          step,               \* where write_config is; "idle": not running
          config              \* its argument, masked

fee == <<flash, next_write_offset, config_byte_cache, step, config>>

FeeTypeOK == /\ flash \in [Offset -> Byte]
             /\ next_write_offset \in 0 .. FLASH_SECTOR_SIZE
             /\ config_byte_cache \in Byte
             /\ step \in {"idle", "program", "erase"}
             /\ config \in Byte

\* Mutant of FirstClean: the scan stops one byte early.
FirstCleanShort(f) ==
    CHOOSE n \in 0 .. FLASH_SECTOR_SIZE :
        /\ \A i \in Offset : i < n => f[i] # Clean
        /\ n >= FLASH_SECTOR_SIZE - 1 \/ f[n] = Clean

\* The offset where the constructor's scan of f ends.
FirstClean(f) ==
    CHOOSE n \in 0 .. FLASH_SECTOR_SIZE :
        /\ \A i \in Offset : i < n => f[i] # Clean
        /\ n = FLASH_SECTOR_SIZE \/ f[n] = Clean

\* The configuration it finds; a scan that meets no clean byte leaves the cache
\* at its initial value.
Recovered(f) ==
    LET n == FirstClean(f)
    IN  IF n = 0 \/ n = FLASH_SECTOR_SIZE THEN {} ELSE f[n - 1]

FeeInit == /\ flash = [i \in Offset |-> Clean]
           /\ next_write_offset = 0
           /\ config_byte_cache = {}
           /\ step = "idle"
           /\ config = {}

\* Mutant of WriteConfig: every write starts with an erase.
WriteConfigErasing(value) ==
    LET masked == value \ {TopBit}
    IN  /\ step = "idle"
        /\ IF masked = config_byte_cache THEN UNCHANGED <<step, config>>
           ELSE config' = masked /\ step' = "erase"
        /\ UNCHANGED <<flash, next_write_offset, config_byte_cache>>

\* write_config up to its first call of the flash driver
WriteConfig(value) ==
    LET masked == value \ {TopBit}
    IN  /\ step = "idle"
        /\ IF masked = config_byte_cache THEN UNCHANGED <<step, config>>
           ELSE /\ config' = masked
                /\ step' = IF next_write_offset >= FLASH_SECTOR_SIZE THEN "erase" ELSE "program"
        /\ UNCHANGED <<flash, next_write_offset, config_byte_cache>>

\* flash_range_erase completes
Erase == /\ step = "erase"
         /\ flash' = [i \in Offset |-> Clean]
         /\ next_write_offset' = 0
         /\ step' = "program"
         /\ UNCHANGED <<config_byte_cache, config>>

\* Mutant of Program: the offset is not advanced.
ProgramInPlace ==
    /\ step = "program"
    /\ flash' = [flash EXCEPT ![next_write_offset] = @ \cap config]
    /\ config_byte_cache' = config
    /\ step' = "idle"
    /\ UNCHANGED <<next_write_offset, config>>

\* flash_range_program completes, and write_config returns
Program == /\ step = "program"
           /\ flash' = [flash EXCEPT ![next_write_offset] = @ \cap config]
           /\ config_byte_cache' = config
           /\ next_write_offset' = next_write_offset + 1
           /\ step' = "idle"
           /\ UNCHANGED config

\* What a byte may hold while it is being programmed.
HalfProgrammed(byte) == {b \in Byte : byte \cap config \subseteq b /\ b \subseteq byte}

\* What the flash may hold when the supply fails at this moment.
Torn ==
    CASE step = "idle" -> {flash}
      [] step = "program" -> {[flash EXCEPT ![next_write_offset] = b] :
                                 b \in HalfProgrammed(flash[next_write_offset])}
      [] step = "erase" -> {f \in [Offset -> Byte] : \A i \in Offset : flash[i] \subseteq f[i]}

\* The supply fails and comes back; the constructor scans the sector.
PowerCycle == /\ step \in PowerFailure
              /\ flash' \in Torn
              /\ next_write_offset' = FirstClean(flash')
              /\ config_byte_cache' = Recovered(flash')
              /\ step' = "idle"
              /\ config' = {}

FeeNext == \/ \E value \in Byte : WriteConfig(value)
           \/ Erase
           \/ Program
           \/ PowerCycle

Spec == FeeInit /\ [][FeeNext]_fee
-----------------------------------------------------------------------------
\* LogShape: the bytes before next_write_offset are used and those from it on
\* are clean, so the next program finds a clean byte and the scan of the next
\* power-on stops exactly there (constructor and write_config), also after an
\* interrupted program.
LogShape == \A i \in Offset : flash[i] = Clean <=> i >= next_write_offset

\* Recoverable: when write_config is not running and the sector is not full, the
\* next power-on finds what get_config_byte returns now, whatever was written,
\* erased and interrupted before.
Recoverable ==
    (step = "idle" /\ next_write_offset < FLASH_SECTOR_SIZE)
        => Recovered(flash) = config_byte_cache

\* WearLevelled: a used byte changes only when the sector is erased, and it is
\* erased only when no clean byte is left, so an erase is paid for by as many
\* changes of the configuration as the sector has bytes (write_config).
WearLevelled ==
    [][/\ \A i \in Offset : flash[i] # Clean /\ flash'[i] # flash[i] => step = "erase"
       /\ step' = "erase" /\ step # "erase" => \A i \in Offset : flash[i] # Clean]_fee
=============================================================================
