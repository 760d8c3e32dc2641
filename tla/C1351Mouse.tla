----------------------------- MODULE C1351Mouse -----------------------------
(***************************************************************************)
(* The Commodore 1351 in proportional mode, in its effective operating     *)
(* state: movement becomes a position that wraps around, which two state   *)
(* machines of the PIO turn into values of POTX and POTY, one per          *)
(* measuring cycle of the SID; the wheel becomes pulses of the left and    *)
(* right lines (Micromys protocol).                                        *)
(*                                                                         *)
(* Both state machines wait for the same edge and then pull a value each,  *)
(* or repeat the last one.  An edge can fall between the two values that   *)
(* run puts into their FIFOs, so run is split there.  A program on the     *)
(* home computer reads the values now and then, at least once in MaxCycles *)
(* cycles, and takes their difference for the movement.  The model covers  *)
(* a time in which the mouse keeps its port and its buttons do not enter   *)
(* the calibration; that a calibrated duration is measured as the value it *)
(* stands for is taken for granted.                                        *)
(***************************************************************************)
EXTENDS Integers, Sequences

CONSTANTS Movement,           \* what reports add, a set of [x, y, wheel]
          PotRange,           \* values of a pot line (128)
          ValueMod,           \* value_pot_x_ counts modulo this (2^32)
          kWheelPulseLength,  \* ticks a pulse and the pause after it last (50)
          ClockMod,           \* board_millis counts modulo this (2^32)
          MaxCycles,          \* cycles between two readings of the computer
          MaxReports          \* bound: reports the mouse sends before it rests

Axis == {"x", "y"}

ASSUME C1351Assumption ==
    /\ \A m \in Movement : m.x \in Int /\ m.y \in Int /\ m.wheel \in Int
    /\ PotRange \in Nat \ {0} /\ PotRange % 2 = 0
    /\ ValueMod \in Nat \ {0} /\ ValueMod % PotRange = 0
    /\ kWheelPulseLength \in Nat /\ ClockMod \in Nat /\ kWheelPulseLength + 1 < ClockMod
    /\ MaxCycles \in Nat /\ MaxReports \in Nat

VARIABLES
    accumulator,        \* mouse_accumulator_x, _y
    value_pot,          \* value_pot_x_, _y_
    values_pushed_cnt,  \* modulo 8
    fifo,               \* the TX FIFO of each state machine
    pot,                \* the value each state machine repeats
    pushing,            \* run has put a value for x and not yet the one for y
    wheel,              \* mouse_accumulator_wheel
    pulse_state,        \* mouse_wheel_pulse_state
    pulse_update,       \* mouse_wheel_pulse_last_update
    lines,              \* left and right of state_ and of the port
    now,                \* board_millis
    due,                \* run has not been called since now advanced
    reports,
    moved, sampled, seen, cycles,   \* per axis: sum of reports, last value read, movement
                                    \* the computer counted; cycles since it read
    scrolled, pulses, since         \* the same for the wheel; time since lines changed

vars == <<accumulator, value_pot, values_pushed_cnt, fifo, pot, pushing, wheel, pulse_state,
          pulse_update, lines, now, due, reports, moved, sampled, seen, cycles,
          scrolled, pulses, since>>

motion == <<accumulator, value_pot, values_pushed_cnt, fifo, pushing>>
pulse == <<wheel, pulse_state, pulse_update, lines, pulses, since>>
computer == <<sampled, seen, cycles>>

\* A difference of pot values as a signed number.
Signed(n) == LET m == n % PotRange IN IF m < PotRange \div 2 THEN m ELSE m - PotRange

TypeOK == /\ accumulator \in [Axis -> Int]
          /\ value_pot \in [Axis -> 0 .. ValueMod - 1]
          /\ values_pushed_cnt \in 0 .. 7
          /\ fifo \in [Axis -> Seq(0 .. PotRange - 1)]
          /\ pot \in [Axis -> 0 .. PotRange - 1]
          /\ pushing \in BOOLEAN
          /\ wheel \in Int
          /\ pulse_state \in BOOLEAN
          /\ pulse_update \in 0 .. ClockMod - 1
          /\ lines \in SUBSET {"left", "right"}
          /\ now \in 0 .. ClockMod - 1
          /\ due \in BOOLEAN
          /\ reports \in 0 .. MaxReports
          /\ moved \in [Axis -> Int]
          /\ sampled \in [Axis -> 0 .. PotRange - 1]
          /\ seen \in [Axis -> Int]
          /\ cycles \in 0 .. MaxCycles
          /\ scrolled \in Int
          /\ pulses \in Int
          /\ since \in 0 .. kWheelPulseLength + 1

\* The computer starts with the position that it finds.
Init == /\ accumulator = [a \in Axis |-> 0]
        /\ value_pot = [a \in Axis |-> 30 % ValueMod]
        /\ values_pushed_cnt = 0
        /\ fifo = [a \in Axis |-> <<>>]
        /\ pot = [a \in Axis |-> 30 % PotRange]
        /\ pushing = FALSE
        /\ wheel = 0 /\ pulse_state = FALSE /\ pulse_update = 0 /\ lines = {}
        /\ now \in 0 .. ClockMod - 1 /\ due = FALSE /\ reports = 0
        /\ moved = [a \in Axis |-> 0]
        /\ sampled = pot
        /\ seen = [a \in Axis |-> 0]
        /\ cycles = 0
        /\ scrolled = 0 /\ pulses = 0 /\ since = kWheelPulseLength + 1
-----------------------------------------------------------------------------
\* C1351Converter::process_mouse_report.  The y axis of the 1351 points up.
MouseReport(m) ==
    LET d == [a \in Axis |-> IF a = "x" THEN m.x ELSE -m.y]
    IN  /\ ~pushing
        /\ reports < MaxReports
        /\ reports' = reports + 1
        /\ accumulator' = [a \in Axis |-> accumulator[a] + d[a]]
        /\ moved' = [a \in Axis |-> moved[a] + d[a]]
        /\ wheel' = wheel + m.wheel
        /\ scrolled' = scrolled + m.wheel
        /\ UNCHANGED <<value_pot, values_pushed_cnt, fifo, pot, pushing, pulse_state,
                       pulse_update, lines, now, due, computer, pulses, since>>

\* Mutant of MaxChange: as fast as the SID measures.
MaxChangeFast(cnt) == 2

\* kMaxChange: three values in two cycles
MaxChange(cnt) == IF cnt % 8 > 3 THEN 2 ELSE 1

\* Mutant of Clamp: only what lies above the limit is held back for later.
ClampOneWay(n, limit) == IF n > limit THEN limit ELSE IF n < 0 THEN 0 ELSE n

\* max(-limit, min(n, limit))
Clamp(n, limit) == IF n > limit THEN limit ELSE IF n < -limit THEN -limit ELSE n

\* Mutant of FifosCanTakeValues: any of the four places of the FIFOs will do.
FifosNotFull == Len(fifo["x"]) < 4 /\ Len(fifo["y"]) < 4

\* pio_fifos_can_take_values
FifosCanTakeValues == fifo["x"] = <<>> /\ fifo["y"] = <<>>

Put(a) == fifo' = [fifo EXCEPT ![a] = Append(@, value_pot'[a] % PotRange)]

\* value_pot_x_ += inc_x on an unsigned counter
Advance(n, inc) == (n + inc) % ValueMod

\* C1351Converter::run up to the value for x
RunPushX ==
    LET cnt == (values_pushed_cnt + 1) % 8
        inc == [a \in Axis |-> Clamp(accumulator[a], MaxChange(cnt))]
    IN  /\ ~pushing
        /\ FifosCanTakeValues
        /\ values_pushed_cnt' = cnt
        /\ accumulator' = [a \in Axis |-> accumulator[a] - inc[a]]
        /\ value_pot' = [a \in Axis |-> Advance(value_pot[a], inc[a])]
        /\ Put("x")
        /\ pushing' = TRUE
        /\ UNCHANGED <<pot, pulse, now, due, reports, moved, computer, scrolled>>

\* Mutant of PulseOver: the pause between two pulses is forgotten.
PulseOverAtOnce == ~pulse_state \/ (now - pulse_update) % ClockMod > kWheelPulseLength

\* time_diff > kWheelPulseLength
PulseOver == (now - pulse_update) % ClockMod > kWheelPulseLength

\* What run does for the wheel: release the line, or start the next pulse.
RunWheel ==
    IF PulseOver /\ (pulse_state \/ wheel # 0)
    THEN /\ pulse_update' = now
         /\ pulse_state' = ~pulse_state
         /\ since' = 0
         /\ IF pulse_state
            THEN lines' = {} /\ UNCHANGED <<wheel, pulses>>
            ELSE LET step == IF wheel > 0 THEN 1 ELSE -1
                 IN  /\ lines' = {IF wheel > 0 THEN "left" ELSE "right"}
                     /\ wheel' = wheel - step
                     /\ pulses' = pulses + step
    ELSE UNCHANGED pulse

\* The rest of run: the value for y, if there was one for x, and the wheel.
RunRest ==
    /\ IF pushing THEN UNCHANGED value_pot /\ Put("y")
       ELSE ~FifosCanTakeValues /\ UNCHANGED <<fifo, value_pot>>
    /\ pushing' = FALSE
    /\ RunWheel
    /\ due' = FALSE
    /\ UNCHANGED <<accumulator, values_pushed_cnt, pot, now, reports, moved, computer, scrolled>>
-----------------------------------------------------------------------------
\* A measuring cycle begins: the state machines pull a value if there is one.
SidCycle ==
    /\ cycles < MaxCycles
    /\ cycles' = cycles + 1
    /\ pot' = [a \in Axis |-> IF fifo[a] = <<>> THEN pot[a] ELSE Head(fifo[a])]
    /\ fifo' = [a \in Axis |-> IF fifo[a] = <<>> THEN <<>> ELSE Tail(fifo[a])]
    /\ UNCHANGED <<accumulator, value_pot, values_pushed_cnt, pushing, pulse, now, due,
                   reports, moved, sampled, seen, scrolled>>

\* The computer reads both values.
Sample ==
    /\ seen' = [a \in Axis |-> seen[a] + Signed(pot[a] - sampled[a])]
    /\ sampled' = pot
    /\ cycles' = 0
    /\ UNCHANGED <<motion, pot, pulse, now, due, reports, moved, scrolled>>

\* A tick of board_millis; the main loop runs between any two.
Tick == /\ ~due
        /\ due' = TRUE
        /\ now' = (now + 1) % ClockMod
        /\ since' = IF since > kWheelPulseLength THEN since ELSE since + 1
        /\ UNCHANGED <<motion, pot, wheel, pulse_state, pulse_update, lines, pulses,
                       reports, moved, computer, scrolled>>

Run == RunPushX \/ RunRest

Next == (\E m \in Movement : MouseReport(m)) \/ RunPushX \/ RunRest \/ SidCycle \/ Sample \/ Tick

Spec == Init /\ [][Next]_vars

FairSpec == Spec /\ WF_vars(Tick) /\ WF_vars(Run) /\ WF_vars(SidCycle) /\ WF_vars(Sample)
-----------------------------------------------------------------------------
\* PositionKept: what the mouse moved is what the computer counted, what it will
\* see next, and what is still to be put out: no difference of two readings is
\* taken for a movement the other way (run, "1.5 per cycle").
PositionKept ==
    \A a \in Axis : moved[a] = seen[a] + Signed(pot[a] - sampled[a])
                                + Signed(value_pot[a] - pot[a]) + accumulator[a]

\* NoLatency: the position in effect is at most one value behind the one put out
\* last ("we don't really want any latency here", pio_fifos_can_take_values).
NoLatency == \A a \in Axis : Signed(value_pot[a] - pot[a]) \in -2 .. 2

\* EventuallySeen: when the mouse rests the computer's pointer is where the mouse
\* is, and every step of the wheel has become a pulse.
EventuallySeen == <>[](seen = moved /\ pulses = scrolled)

\* PulseLength: a wheel pulse and the pause after it last kWheelPulseLength
\* ("it must be held for 50ms", mouse_wheel_pulse_last_update).
PulseLength == [][lines' # lines => since > kWheelPulseLength]_vars
=============================================================================
