-------------------------- MODULE C1351Calibration --------------------------
(***************************************************************************)
(* The calibration of the Commodore 1351 emulation: a combination of       *)
(* presses that starts it, four steps in which the wheel adjusts a value   *)
(* each, the table that the converters of both ports share, and the sector *)
(* of flash that keeps it.                                                 *)
(*                                                                         *)
(* The mouse modes are cycled and the ports swapped at any time, and the   *)
(* power may fail, also while the table is saved, which is split at its    *)
(* two calls of the flash driver.  The marker lies behind the table; a     *)
(* program that power interrupts is taken to leave it incomplete.          *)
(***************************************************************************)
EXTENDS Integers, Sequences

CONSTANTS Converter,       \* at most one per port
          Buttons,         \* which sets of buttons a report may hold
          Wheel,           \* how far it may turn the wheel
          kTimeout,        \* reports after which a combination is given up (5)
          Combination,     \* the presses that are to start the calibration
          MaxAdjustment,   \* bound: adjusted values, over all steps and ports
          MaxDisturbances  \* bound: swaps, mode changes and power failures

Port == {0, 1}             \* target_->get_index()
Step == 1 .. 4             \* kCalibratePotX64, PotX191, PotY64, PotY191
kEffective == 0

ASSUME CalibrationAssumption ==
    /\ Buttons \subseteq SUBSET {"left", "right", "middle"}
    /\ Wheel \subseteq Int
    /\ Combination \in Seq({"left", "right", "middle"})
    /\ kTimeout \in Nat \ {0}
    /\ MaxAdjustment \in Nat /\ MaxDisturbances \in Nat

VARIABLES
    calibration,      \* calibration_
    valid, stored,    \* the sector: is the marker there, and the table
    operating_state,  \* per converter, kEffective or a step
    counter,          \* calibration_mode_enter_counter_
    timeout,          \* calibration_mode_enter_timeout_
    last,             \* buttons of last_state_
    port,             \* the port of each converter
    saving,           \* where save_calibration_data is; "no": not running
    adjustments, disturbances,
    abandoned,        \* a calibration was left by other means than its own
    matched, pause    \* per converter: how much of Combination was pressed, and the
                      \* reports since the last press

calibrationVars == <<calibration, valid, stored, operating_state, counter, timeout, last, port,
                     saving, adjustments, disturbances, abandoned, matched, pause>>

flash == <<valid, stored>>
detection == <<counter, timeout, last, matched, pause>>

Table == [Port -> [Step -> Int]]
Default == [p \in Port |-> [s \in Step |-> 0]]   \* as a difference from it
Spoilt == Len(Combination) + 1                   \* by a press that does not belong to it

CalibrationTypeOK ==
    /\ calibration \in Table /\ stored \in Table
    /\ valid \in BOOLEAN
    /\ operating_state \in [Converter -> Step \cup {kEffective}]
    /\ counter \in [Converter -> 0 .. 5]
    /\ timeout \in [Converter -> 0 .. kTimeout]
    /\ last \in [Converter -> Buttons \cup {{}}]
    /\ port \in [Converter -> Port]
    /\ \A c, d \in Converter : c # d => port[c] # port[d]
    /\ saving \in {"no", "erase", "program"}
    /\ adjustments \in 0 .. MaxAdjustment /\ disturbances \in 0 .. MaxDisturbances
    /\ abandoned \in BOOLEAN
    /\ matched \in [Converter -> 0 .. Spoilt]
    /\ pause \in [Converter -> 0 .. kTimeout]

Fresh == /\ operating_state' = [c \in Converter |-> kEffective]
         /\ counter' = [c \in Converter |-> 0]
         /\ timeout' = [c \in Converter |-> 0]
         /\ last' = [c \in Converter |-> {}]
         /\ matched' = [c \in Converter |-> 0]
         /\ pause' = [c \in Converter |-> kTimeout]

CalibrationInit ==
    /\ calibration = Default /\ stored = Default /\ valid = FALSE
    /\ operating_state = [c \in Converter |-> kEffective]
    /\ counter = [c \in Converter |-> 0]
    /\ timeout = [c \in Converter |-> 0]
    /\ last = [c \in Converter |-> {}]
    /\ port \in {f \in [Converter -> Port] : \A c, d \in Converter : c # d => f[c] # f[d]}
    /\ saving = "no"
    /\ adjustments = 0 /\ disturbances = 0
    /\ abandoned = FALSE
    /\ matched = [c \in Converter |-> 0]
    /\ pause = [c \in Converter |-> kTimeout]
-----------------------------------------------------------------------------
\* Mutant of Wanted: three lefts and two rights.
WantedLate(n) == IF n < 3 THEN "left" ELSE IF n < 5 THEN "right" ELSE "middle"

\* The button that takes the combination on from counter n.
Wanted(n) == IF n < 2 THEN "left" ELSE IF n < 5 THEN "right" ELSE "middle"

\* The button that makes the detection start over.
Unwanted(n) == IF n \in 2 .. 4 THEN "left" ELSE "right"

\* calibration_mode_enter_counter_ after a report in which pressed went down
Counted(n, pressed) ==
    IF Unwanted(n) \in pressed THEN 0
    ELSE IF Wanted(n) \in pressed THEN (n + 1) % 6 ELSE n

\* load_calibration_data
LoadedTable(ram) == IF valid THEN stored ELSE ram

NextStep(step) == IF step = 4 THEN kEffective ELSE step + 1

\* How far the combination is after the presses of a report; it starts when there
\* was no press for a while.
Matched(c, pressed) ==
    LET n == IF pause[c] >= kTimeout - 1 THEN 0 ELSE matched[c]
    IN  IF pressed = {} THEN n
        ELSE IF n < Len(Combination) /\ pressed = {Combination[n + 1]} THEN n + 1 ELSE Spoilt

\* The history variables, if there is a combination to follow.
Follow(c, pressed, state) ==
    IF Combination = <<>> THEN UNCHANGED <<matched, pause>>
    ELSE /\ matched' = [matched EXCEPT ![c] = IF state = kEffective THEN Matched(c, pressed) ELSE 0]
         /\ pause' = [pause EXCEPT ![c] = IF pressed # {} \/ state # kEffective THEN 0
                                          ELSE IF @ = kTimeout THEN @ ELSE @ + 1]

\* C1351Converter::process_mouse_report with check_calibration_mode_enter_criteria
CalibrationReport(c, buttons, wheel) ==
    LET pressed == buttons \ last[c]
        state == operating_state[c]
        expired == state = kEffective /\ timeout[c] = 1
        n == IF expired THEN 0 ELSE counter[c]
        entered == state = kEffective /\ n = 5 /\ "middle" \in pressed
        finished == state = 4 /\ "left" \in pressed
        next == IF entered THEN 1
                ELSE IF state # kEffective /\ "left" \in pressed THEN NextStep(state) ELSE state
        aborted == next # kEffective /\ "right" \in pressed
        amount == IF state = kEffective THEN 0 ELSE wheel
        adjusted == IF amount = 0 THEN calibration
                    ELSE [calibration EXCEPT ![port[c]][state] = @ + amount]
    IN  /\ saving = "no"
        /\ amount # 0 => adjustments < MaxAdjustment
        /\ adjustments' = IF amount # 0 THEN adjustments + 1 ELSE adjustments
        /\ operating_state' = [operating_state EXCEPT ![c] = IF aborted THEN kEffective ELSE next]
        /\ calibration' = IF aborted THEN LoadedTable(adjusted) ELSE adjusted
        /\ saving' = IF finished THEN "erase" ELSE "no"
        /\ last' = [last EXCEPT ![c] = buttons]
        /\ Follow(c, pressed, state)
        /\ IF state = kEffective
           THEN /\ counter' = [counter EXCEPT ![c] = IF entered THEN 0 ELSE Counted(n, pressed)]
                /\ timeout' = [timeout EXCEPT ![c] =
                                  IF n < 5 /\ Wanted(n) \in pressed THEN kTimeout
                                  ELSE IF @ > 0 THEN @ - 1 ELSE 0]
           ELSE UNCHANGED <<counter, timeout>>
        /\ abandoned' = (abandoned /\ ~(aborted /\ valid))
        /\ UNCHANGED <<flash, port, disturbances>>

\* save_calibration_data: flash_range_erase ...
Erase == /\ saving = "erase"
         /\ saving' = "program"
         /\ valid' = FALSE
         /\ UNCHANGED <<calibration, stored, operating_state, detection, port, adjustments,
                        disturbances, abandoned>>

\* Mutant of Program: only the table of the first port is copied.
ProgramFirst ==
    /\ saving = "program"
    /\ saving' = "no"
    /\ valid' = TRUE
    /\ stored' = [stored EXCEPT ![0] = calibration[0]]
    /\ abandoned' = FALSE
    /\ UNCHANGED <<calibration, operating_state, detection, port, adjustments, disturbances>>

\* ... and flash_range_program.
Program == /\ saving = "program"
           /\ saving' = "no"
           /\ valid' = TRUE
           /\ stored' = calibration
           /\ abandoned' = FALSE
           /\ UNCHANGED <<calibration, operating_state, detection, port, adjustments,
                          disturbances>>

Disturbance == disturbances < MaxDisturbances /\ disturbances' = disturbances + 1

\* The ports are swapped under the converters (PortSwitcher::swap, get_index).
Swap == /\ saving = "no"
        /\ Disturbance
        /\ port' = [c \in Converter |-> 1 - port[c]]
        /\ UNCHANGED <<calibration, flash, operating_state, detection, saving, adjustments, abandoned>>

\* cycle_mouse_mode, three times: the converters are new ones.
CycleMouseMode ==
    /\ saving = "no"
    /\ Disturbance
    /\ Fresh
    /\ abandoned' = (abandoned \/ \E c \in Converter : operating_state[c] # kEffective)
    /\ UNCHANGED <<calibration, flash, port, saving, adjustments>>

\* A power failure, and main loads the calibration after it.
PowerCycle == /\ Disturbance
              /\ Fresh
              /\ calibration' = LoadedTable(Default)
              /\ saving' = "no"
              /\ abandoned' = FALSE
              /\ UNCHANGED <<flash, port, adjustments>>

\* While c is not calibrated the wheel does not touch the table.
Turns(c) == IF operating_state[c] = kEffective THEN {0} ELSE Wheel

CalibrationNext ==
    \/ \E c \in Converter, buttons \in Buttons :
            \E wheel \in Turns(c) : CalibrationReport(c, buttons, wheel)
    \/ Erase \/ Program
    \/ Swap \/ CycleMouseMode \/ PowerCycle

CalibrationSpec == CalibrationInit /\ [][CalibrationNext]_calibrationVars
-----------------------------------------------------------------------------
Settled == saving = "no" /\ ~abandoned /\ \A c \in Converter : operating_state[c] = kEffective

\* Agreement: once a calibration was saved, and while nobody calibrates or left a
\* calibration half way, the table in use is the one that the next power-on finds,
\* whoever of the two mice changed, saved or aborted what (save_calibration_data,
\* load_calibration_data).
Agreement == Settled /\ valid => calibration = stored

\* CombinationEnters: the presses of Combination, begun when the mouse was quiet
\* and without a pause, start the calibration whatever was pressed before.  The
\* code expects two left, three right and the middle one; "Detects the button
\* combination of mouse buttons LLRRRL" (check_calibration_mode_enter_criteria).
CombinationEnters ==
    [][\A c \in Converter : matched'[c] = Len(Combination) /\ matched[c] # Len(Combination)
            => operating_state'[c] # kEffective]_calibrationVars

\* AbortDiscards: "Right mouse button to abort" (process_mouse_report) and there is
\* nothing left of a calibration that was not saved.
AbortDiscards == Settled => calibration = LoadedTable(Default)
=============================================================================
