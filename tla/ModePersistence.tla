-------------------------- MODULE ModePersistence --------------------------
(***************************************************************************)
(* The mouse mode and its delayed write to flash: cycle_mouse_mode starts  *)
(* a timer, Pipeline::run writes the mode once the timer has expired, and  *)
(* the constructor takes the mode from the flash emulation.  The main loop *)
(* runs at least once per millisecond unless the flash driver holds it.    *)
(***************************************************************************)
EXTENDS SmallFee

CONSTANTS WriteBackDelay,  \* 10 s, in ticks of board_millis
          ClockMod         \* board_millis counts modulo this (2^32)

VARIABLES mouse_mode,                \* mouse_mode_
          mouse_mode_dirty,
          mouse_mode_write_back_at,
          now,                       \* board_millis
          due                        \* run has not been called since the last tick

vars == <<fee, mouse_mode, mouse_mode_dirty, mouse_mode_write_back_at, now, due>>

ASSUME ModePersistenceAssumption ==
    /\ Bit \subseteq {"b0", "b1", "b2", "b3", "b4", "b5", "b6", "b7"}
    /\ {"b0", "b1"} \subseteq Bit /\ TopBit = "b7"
    /\ WriteBackDelay \in Nat /\ ClockMod \in Nat \ {0} /\ WriteBackDelay < ClockMod

\* The number a byte stands for.
Value(byte) ==
    LET Worth(bit, n) == IF bit \in byte THEN n ELSE 0
    IN  Worth("b0", 1) + Worth("b1", 2) + Worth("b2", 4) + Worth("b3", 8) + Worth("b4", 16)
            + Worth("b5", 32) + Worth("b6", 64) + Worth("b7", 128)

\* static_cast<uint8_t>
ByteOf(n) == CHOOSE byte \in Byte : Value(byte) = n

TypeOK == /\ FeeTypeOK
          /\ mouse_mode \in {Value(byte) : byte \in Byte}
          /\ mouse_mode_dirty \in BOOLEAN
          /\ mouse_mode_write_back_at \in 0 .. ClockMod - 1
          /\ now \in 0 .. ClockMod - 1
          /\ due \in BOOLEAN

Init == /\ FeeInit
        /\ mouse_mode = 0
        /\ mouse_mode_dirty = FALSE
        /\ mouse_mode_write_back_at = 0
        /\ now = 0
        /\ due = FALSE

Tick == /\ step # "idle" \/ ~due
        /\ now' = (now + 1) % ClockMod
        /\ due' = TRUE
        /\ UNCHANGED <<fee, mouse_mode, mouse_mode_dirty, mouse_mode_write_back_at>>

\* Mutant of CycleMouseMode: the new mode is not marked for writing.
CycleMouseModeClean ==
    /\ step = "idle"
    /\ mouse_mode' = (mouse_mode + 1) % 3
    /\ mouse_mode_write_back_at' = (now + WriteBackDelay) % ClockMod
    /\ UNCHANGED <<fee, mouse_mode_dirty, now, due>>

\* cycle_mouse_mode, as far as the mode and its timer go
CycleMouseMode ==
    /\ step = "idle"
    /\ mouse_mode' = (mouse_mode + 1) % 3
    /\ mouse_mode_write_back_at' = (now + WriteBackDelay) % ClockMod
    /\ mouse_mode_dirty' = TRUE
    /\ UNCHANGED <<fee, now, due>>

\* Mutant of Expired: the delay is counted twice.
ExpiredLate == mouse_mode_dirty /\ now > mouse_mode_write_back_at + WriteBackDelay

Expired == mouse_mode_dirty /\ now > mouse_mode_write_back_at

\* Pipeline::run, as far as the flash goes.  While write_config is in the flash
\* driver nothing but a power failure can observe mouse_mode_dirty_.
Run == /\ step = "idle"
       /\ due' = FALSE
       /\ IF Expired
          THEN WriteConfig(ByteOf(mouse_mode)) /\ mouse_mode_dirty' = FALSE
          ELSE UNCHANGED <<fee, mouse_mode_dirty>>
       /\ UNCHANGED <<mouse_mode, mouse_mode_write_back_at, now>>

\* The steps write_config blocks the main loop in.
FlashDriver == /\ Erase \/ Program
               /\ UNCHANGED <<mouse_mode, mouse_mode_dirty, mouse_mode_write_back_at, now, due>>

\* Power fails and returns: the Pipeline is constructed anew.
Restart == /\ PowerCycle
           /\ mouse_mode' = Value(config_byte_cache')
           /\ mouse_mode_dirty' = FALSE
           /\ mouse_mode_write_back_at' = 0
           /\ now' = 0
           /\ due' = FALSE

Next == Tick \/ CycleMouseMode \/ Run \/ FlashDriver \/ Restart

ModeSpec == Init /\ [][Next]_vars

\* Time passes, the main loop runs and the flash driver returns.
FairSpec == /\ ModeSpec
            /\ WF_vars(Tick)
            /\ WF_vars(Run)
            /\ WF_vars(FlashDriver)
-----------------------------------------------------------------------------
\* ModeSurvives: unless a change is still waiting to be written or the sector is
\* full, the adapter comes back from a power failure in the mode it was in.
ModeSurvives ==
    [][(/\ ~mouse_mode_dirty /\ ~mouse_mode_dirty'
        /\ step = "idle" /\ next_write_offset < FLASH_SECTOR_SIZE)
          => mouse_mode' = mouse_mode]_vars

\* WrittenBack: a change of the mode is written unless the mode is changed again
\* or the power fails first ("Starts a 10 second timer upon expiration the config
\* is stored in flash", cycle_mouse_mode), also where the clock overflows before the
\* timer expires.  A timer that is to expire in the last tick before an overflow is
\* left out: no time is later than that, and the change is never written.
WrittenBack ==
    \A m \in 0 .. 2 :
        (mouse_mode_dirty /\ mouse_mode = m /\ mouse_mode_write_back_at # ClockMod - 1)
            ~> (~mouse_mode_dirty \/ mouse_mode # m \/ mouse_mode_write_back_at = ClockMod - 1)
=============================================================================
