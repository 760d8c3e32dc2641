-------------------------- MODULE QuadratureMouse --------------------------
(***************************************************************************)
(* The Amiga and the Atari ST mouse: reports feed accumulators, and run    *)
(* turns them, at most one phase per update period, into two square waves  *)
(* per axis that are a quarter of a period apart.                          *)
(*                                                                         *)
(* The wheel of an Amiga mouse is on the other port, which it shares with  *)
(* that port's pad or mouse.  A port's lines are modelled by their names.  *)
(* Time counts in steps of the microsecond timer that the main loop can    *)
(* tell apart.  The home computer decodes every change of the lines, as    *)
(* its counters do; a jump by two phases has no direction and counts as    *)
(* nothing.                                                                *)
(***************************************************************************)
EXTENDS Integers

CONSTANTS Axis,          \* the encoders that run updates
          Target,        \* per axis, the port that shows its signals
          A, B,          \* per axis, the lines of its two signals
          Movement,      \* relx, rely, wheel: what a report may add
          kUpdatePeriod,
          Strict,        \* AtariStMouse: time_diff > kUpdatePeriod; AmigaMouse: >=
          ClockMod,      \* board_micros counts modulo this (2^32)
          Others,        \* lines that others may activate on the wheel's port
          MaxReports,    \* bound: reports the mouse sends before it rests
          MaxDisturbances \* bound: times that lines are changed behind the mouse's back

\* mouse_target_ and wheel_target_
Port == {"mouse", "wheel"}

Button == {"fire1", "fire2", "fire3"}
Signal == {A[a] : a \in Axis} \cup {B[a] : a \in Axis}
Line == Button \cup Signal

ASSUME QuadratureAssumption ==
    /\ Target \in [Axis -> Port]
    /\ \A a, b \in Axis : Target[a] = Target[b] =>
          A[a] # B[b] /\ (a # b => A[a] # A[b] /\ B[a] # B[b])
    /\ Button \cap Signal = {}
    /\ Movement \subseteq Int
    /\ kUpdatePeriod \in Nat /\ ClockMod \in Nat /\ kUpdatePeriod + 1 < ClockMod
    /\ Strict \in BOOLEAN
    /\ Others \subseteq SUBSET Line
    /\ MaxReports \in Nat /\ MaxDisturbances \in Nat

VARIABLES
    accumulator,  \* per encoder
    out_state,    \* per encoder, a uint8_t
    state,        \* per port, state_ or wheel_state_: the lines that are active
    last_state,   \* per port, last_state_ or last_wheel_state_
    pins,         \* per port, what it shows
    last_update,
    now,          \* board_micros
    due,          \* run has not been called since now advanced
    reports,
    disturbed,    \* per port, how often its lines were changed behind the mouse's back
    moved, seen,  \* see MouseTravel
    since         \* time since the last update, up to kUpdatePeriod + 1

vars == <<accumulator, out_state, state, last_state, pins, last_update, now, due,
          reports, disturbed, moved, seen, since>>

encoder == <<accumulator, out_state>>
clock == <<last_update, now, due, since>>
-----------------------------------------------------------------------------
\* The look-up tables: phases 0 to 3 are (0,0), (1,0), (1,1), (0,1).
lut_a(phase) == phase \in {1, 2}

lut_b(phase) == phase \in {2, 3}

AxesOf(p) == {a \in Axis : Target[a] = p}

SignalsOf(phases, p) == {A[a] : a \in {b \in AxesOf(p) : lut_a(phases[b] % 4)}}
                            \cup {B[a] : a \in {b \in AxesOf(p) : lut_b(phases[b] % 4)}}

\* The phase of an axis that lines show.
PhaseOf(lines, a) ==
    IF A[a] \in lines THEN IF B[a] \in lines THEN 2 ELSE 1
    ELSE IF B[a] \in lines THEN 3 ELSE 0

\* What the computer counts when phase p turns into q.
Decoded(p, q) ==
    IF (q - p) % 4 = 3 THEN 1 ELSE IF (q - p) % 4 = 1 THEN -1 ELSE 0

\* The phase of an axis in the lines of both ports.
ShownPhase(lines, a) == PhaseOf(lines[Target[a]], a)

\* The lines become new, and the computer takes notice.
Show(new) ==
    /\ pins' = new
    /\ seen' = [a \in Axis |-> seen[a] + Decoded(ShownPhase(pins, a), ShownPhase(new, a))]

\* The ports whose state differs from the last one written.
Differing(ports) == {p \in ports : last_state[p] # state'[p]}

\* set_port_state is called for each of these ports, and for no other.
Write(differing) ==
    /\ last_state' = [p \in Port |-> IF p \in differing THEN state'[p] ELSE last_state[p]]
    /\ Show([p \in Port |-> IF p \in differing THEN state'[p] ELSE pins[p]])

\* Mutant of WriteIfChanged: the wheel's port has to wait while the mouse's is written.
WriteElse(ports) ==
    Write(IF "mouse" \in Differing(ports) THEN {"mouse"} ELSE Differing(ports))

\* Each port's write has a guard and a last state of its own.
WriteIfChanged(ports) == Write(Differing(ports))
-----------------------------------------------------------------------------
TypeOK == /\ accumulator \in [Axis -> Int]
          /\ out_state \in [Axis -> 0 .. 255]
          /\ state \in [Port -> SUBSET Line]
          /\ last_state \in [Port -> SUBSET Line]
          /\ pins \in [Port -> SUBSET Line]
          /\ last_update \in 0 .. ClockMod - 1
          /\ now \in 0 .. ClockMod - 1
          /\ due \in BOOLEAN
          /\ reports \in 0 .. MaxReports
          /\ disturbed \in [Port -> 0 .. MaxDisturbances]
          /\ moved \in [Axis -> Int]
          /\ seen \in [Axis -> Int]
          /\ since \in 0 .. kUpdatePeriod + 1

Init == /\ accumulator = [a \in Axis |-> 0]
        /\ out_state = [a \in Axis |-> 0]
        /\ state = [p \in Port |-> {}] /\ last_state = state /\ pins = state
        /\ last_update = 0
        /\ now \in 0 .. ClockMod - 1
        /\ due = FALSE
        /\ reports = 0
        /\ disturbed = [p \in Port |-> 0]
        /\ moved = [a \in Axis |-> 0]
        /\ seen = [a \in Axis |-> 0]
        /\ since = kUpdatePeriod + 1

\* QuadratureMouse::process_mouse_report
MouseReport(d, buttons) ==
    /\ reports < MaxReports
    /\ reports' = reports + 1
    /\ accumulator' = [a \in Axis |-> accumulator[a] + d[a]]
    /\ moved' = [a \in Axis |-> moved[a] + d[a]]
    /\ state' = [state EXCEPT !["mouse"] = (@ \cap Signal) \cup buttons]
    /\ WriteIfChanged({"mouse"})
    /\ UNCHANGED <<out_state, clock, disturbed>>

\* Lines become new behind the back of last_state_ and last_wheel_state_.
Disturb(ports, new) ==
    /\ \A p \in ports : disturbed[p] < MaxDisturbances
    /\ disturbed' = [p \in Port |-> IF p \in ports THEN disturbed[p] + 1 ELSE disturbed[p]]
    /\ Show([p \in Port |-> IF p \in ports THEN new ELSE pins[p]])
    /\ UNCHANGED <<encoder, state, last_state, clock, reports, moved>>

\* QuadratureMouse::ensure_mouse_muxing, after a takeover or a swap
EnsureMouseMuxing == Disturb(Port, {})

\* The wheel's port is the joystick switcher's: its pad or second mouse writes its own
\* lines (set_port_state), or clears them when it takes over (configure_gpios).
OtherWrites(lines) == Disturb({"wheel"}, lines)

Elapsed == (now - last_update) % ClockMod

\* Mutant of PeriodOver: off by one.
PeriodOverEarly == IF Strict THEN Elapsed >= kUpdatePeriod ELSE Elapsed >= kUpdatePeriod - 1

\* Mutant of PeriodOver: times are compared, not their difference.
PeriodOverAbsolute == now >= last_update + kUpdatePeriod

PeriodOver == IF Strict THEN Elapsed > kUpdatePeriod ELSE Elapsed >= kUpdatePeriod

\* The movement of an axis that one update puts out.
Step(a) == IF accumulator[a] > 0 THEN 1 ELSE IF accumulator[a] < 0 THEN -1 ELSE 0

\* Mutant of Update: both directions turn the phase the same way.
UpdateOneWay ==
    /\ accumulator' = [a \in Axis |-> accumulator[a] - Step(a)]
    /\ out_state' = [a \in Axis |-> (out_state[a] - Step(a) * Step(a)) % 256]

\* QuadratureEncoder::update for every axis
Update ==
    /\ accumulator' = [a \in Axis |-> accumulator[a] - Step(a)]
    /\ out_state' = [a \in Axis |-> (out_state[a] - Step(a)) % 256]

\* AmigaMouse::run and AtariStMouse::run
Run == /\ due' = FALSE
       /\ IF PeriodOver
          THEN /\ Update
               /\ last_update' = now
               /\ since' = 0
               /\ state' = [p \in Port |-> (state[p] \cap Button) \cup SignalsOf(out_state', p)]
               /\ WriteIfChanged(Port)
          ELSE UNCHANGED <<encoder, state, last_state, pins, seen, last_update, since>>
       /\ UNCHANGED <<now, reports, disturbed, moved>>

\* A tick of the timer; the main loop runs between any two.
Tick == /\ ~due
        /\ due' = TRUE
        /\ now' = (now + 1) % ClockMod
        /\ since' = IF since > kUpdatePeriod THEN since ELSE since + 1
        /\ UNCHANGED <<encoder, state, last_state, pins, last_update, reports, disturbed,
                       moved, seen>>

Next == \/ \E d \in [Axis -> Movement], buttons \in SUBSET {"fire1"} : MouseReport(d, buttons)
        \/ EnsureMouseMuxing
        \/ \E lines \in Others : OtherWrites(lines)
        \/ Run
        \/ Tick

Spec == Init /\ [][Next]_vars

FairSpec == Spec /\ WF_vars(Tick) /\ WF_vars(Run)
-----------------------------------------------------------------------------
Distance(a) == moved[a] - accumulator[a] - seen[a]

\* MovementKept: what the mouse moved is what the computer has counted and what
\* the accumulator still holds ("No movement is lost", QuadratureEncoder), but for
\* two counts each time that lines of the axis' own port were changed behind the
\* mouse's back in mid-phase: by a takeover or swap, which clears both ports, or,
\* on the wheel's port, by the device this port belongs to.  The lines then stay
\* as they are until the state of that port changes (AmigaMouse::run).
MovementKept ==
    \A a \in Axis : Distance(a) \in -2 * disturbed[Target[a]] .. 2 * disturbed[Target[a]]

\* Spaced: the signals step at least an update period apart, however reports,
\* ticks and an overflow of the timer fall ("Period of 359 us is too fast.",
\* AmigaMouse::kUpdatePeriod).
Spaced == [][out_state' # out_state => since >= kUpdatePeriod]_vars

\* Drained: after the last report every movement is put out (run).
Drained == <>[](\A a \in Axis : accumulator[a] = 0)

Travel == INSTANCE MouseTravel WITH MaxStep <- 1

\* ImplementsTravel: until lines are changed behind its back for the first time
\* the computer's counters follow the mouse one count at a time
\* (QuadratureEncoder::update).
ImplementsTravel ==
    Travel!Init /\ [][(\A p \in Port : disturbed'[p] = 0)
                        => Travel!Move \/ Travel!Follow]_<<moved, seen>>
=============================================================================
