---------------------------- MODULE SwapGestures ----------------------------
(***************************************************************************)
(* Two consumers of board_millis that one main loop calls: GamePadFeatures *)
(* with its auto fire and the swap of the ports when select is held, and   *)
(* MouseModeSwitcher with the swap when a combination of mouse buttons is  *)
(* held.  The pad counts periods in which it saw the button, the mouse     *)
(* takes the time since the report in which the combination was complete.  *)
(* Pipeline leaves both times open; here they are measured on a clock that *)
(* wraps around, and reports change the buttons in between.                *)
(***************************************************************************)
EXTENDS Integers

CONSTANTS auto_fire_period,       \* in ticks of board_millis (30)
          kJoystickSwapThreshold, \* periods until a swap (7)
          MinChange,              \* ticks that a pad's button keeps its state
          MouseButtons,           \* which sets of mouse buttons a report may hold
          Combination,            \* buttons to hold; CONFIG_SWAP2BUTTON: two of the three
          kSwapHoldDuration,      \* in ticks of board_millis (300)
          ClockMod                \* board_millis counts modulo this (2^32)

Time == 0 .. ClockMod - 1
HeldEnough == (kJoystickSwapThreshold - 1) * auto_fire_period + 1

ASSUME GesturesAssumption ==
    /\ auto_fire_period \in Nat /\ kSwapHoldDuration \in Nat /\ ClockMod \in Nat
    /\ auto_fire_period + 1 < ClockMod /\ kSwapHoldDuration + 1 < ClockMod
    /\ kJoystickSwapThreshold \in Nat \ {0}
    /\ MinChange \in 0 .. HeldEnough
    /\ MouseButtons \subseteq SUBSET {"left", "middle", "right"}
    /\ Combination \in SUBSET {"left", "middle", "right"} \ {{}}

VARIABLES
    now,                       \* board_millis
    due,                       \* run has not been called since now advanced
    joystick_swap,             \* of in_state_
    joystick_swap_cnt,         \* up to one past the threshold
    last_update,
    auto_fire_state,
    since,                     \* ticks since the auto fire toggled, up to the period + 1
    held,                      \* ticks since the pad's button changed, up to HeldEnough
    swaps,                     \* swaps since it was last pressed, up to 2
    swap_combination_pressed, swap_performed, swap_press_start_time,
    mouse_held,                \* ticks the combination is held, up to the duration + 1
    mouse_swaps                \* swaps since it was complete, up to 2

clock == <<now, due>>
pad == <<joystick_swap, joystick_swap_cnt, last_update, auto_fire_state, since, held, swaps>>
mouse == <<swap_combination_pressed, swap_performed, swap_press_start_time, mouse_held, mouse_swaps>>
vars == <<clock, pad, mouse>>

TypeOK == /\ now \in Time /\ last_update \in Time /\ swap_press_start_time \in Time
          /\ due \in BOOLEAN /\ joystick_swap \in BOOLEAN /\ auto_fire_state \in BOOLEAN
          /\ joystick_swap_cnt \in 0 .. kJoystickSwapThreshold + 1
          /\ since \in 0 .. auto_fire_period + 1
          /\ held \in 0 .. HeldEnough
          /\ swap_combination_pressed \in BOOLEAN /\ swap_performed \in BOOLEAN
          /\ mouse_held \in 0 .. kSwapHoldDuration + 1
          /\ swaps \in 0 .. 2 /\ mouse_swaps \in 0 .. 2

Init == /\ now \in Time /\ due = FALSE
        /\ joystick_swap = FALSE /\ joystick_swap_cnt = 0
        /\ last_update = 0 /\ auto_fire_state = FALSE
        /\ since = auto_fire_period + 1 /\ held = HeldEnough /\ swaps = 0
        /\ swap_combination_pressed = FALSE /\ swap_performed = FALSE
        /\ swap_press_start_time = 0
        /\ mouse_held = 0 /\ mouse_swaps = 0

UpTo(n, limit) == IF n < limit THEN n + 1 ELSE limit
-----------------------------------------------------------------------------
\* GamePadFeatures::process_gamepad_report with a change of the select button
GamepadReport ==
    /\ held >= MinChange
    /\ joystick_swap' = ~joystick_swap
    /\ held' = 0
    /\ swaps' = IF joystick_swap THEN swaps ELSE 0
    /\ UNCHANGED <<clock, joystick_swap_cnt, last_update, auto_fire_state, since, mouse>>

\* Mutant of PeriodOver: compares with a deadline, which the clock may never pass.
PeriodOverAbsolute == now > last_update + auto_fire_period

\* Mutant of PeriodOver: off by one.
PeriodOverEarly == (now - last_update) % ClockMod >= auto_fire_period

PeriodOver == (now - last_update) % ClockMod > auto_fire_period

\* Mutant of SwapsAt: every period from the threshold on.
SwapsFrom(cnt) == cnt >= kJoystickSwapThreshold

SwapsAt(cnt) == cnt = kJoystickSwapThreshold

\* joystick_swap_cnt_ after a period, bounded one past the threshold
Counted == IF joystick_swap THEN UpTo(joystick_swap_cnt, kJoystickSwapThreshold + 1) ELSE 0

\* GamePadFeatures::run up to the buttons it puts out
RunPad ==
    /\ IF PeriodOver
       THEN /\ last_update' = now
            /\ auto_fire_state' = ~auto_fire_state
            /\ since' = 0
            /\ joystick_swap_cnt' = Counted
            /\ swaps' = IF joystick_swap /\ Counted # joystick_swap_cnt /\ SwapsAt(Counted)
                        THEN UpTo(swaps, 2) ELSE swaps
       ELSE UNCHANGED <<last_update, auto_fire_state, since, joystick_swap_cnt, swaps>>
    /\ UNCHANGED <<joystick_swap, held>>
-----------------------------------------------------------------------------
\* The report begins the hold.
Begins(combi) == combi /\ ~swap_combination_pressed

\* swap_press_start_time_ of a hold that begins
Stamp == now

\* MouseModeSwitcher::process_mouse_report
MouseReport(buttons) ==
    LET combi == Combination \subseteq buttons
    IN  /\ IF Begins(combi)
           THEN swap_press_start_time' = Stamp /\ swap_performed' = FALSE
           ELSE UNCHANGED <<swap_press_start_time, swap_performed>>
        /\ swap_combination_pressed' = combi
        /\ mouse_held' = IF swap_combination_pressed /\ combi THEN mouse_held ELSE 0
        /\ mouse_swaps' = IF swap_combination_pressed THEN mouse_swaps ELSE 0
        /\ UNCHANGED <<clock, pad>>

\* Mutant of HeldOver: a deadline that overflowed is passed at once.
HeldOverWrapped == now > (swap_press_start_time + kSwapHoldDuration) % ClockMod

HeldOver == (now - swap_press_start_time) % ClockMod > kSwapHoldDuration

\* MouseModeSwitcher::run
RunMouse ==
    /\ IF swap_combination_pressed /\ ~swap_performed /\ HeldOver
       THEN /\ swap_performed' = TRUE
            /\ mouse_swaps' = UpTo(mouse_swaps, 2)
       ELSE UNCHANGED <<swap_performed, mouse_swaps>>
    /\ UNCHANGED <<swap_combination_pressed, swap_press_start_time, mouse_held>>
-----------------------------------------------------------------------------
\* The main loop calls Pipeline::run.
Run == /\ due
       /\ due' = FALSE
       /\ UNCHANGED now
       /\ RunPad
       /\ RunMouse

\* A tick of board_millis; the main loop runs between any two.
Tick == /\ ~due
        /\ due' = TRUE
        /\ now' = (now + 1) % ClockMod
        /\ since' = UpTo(since, auto_fire_period + 1)
        /\ held' = UpTo(held, HeldEnough)
        /\ mouse_held' = IF swap_combination_pressed THEN UpTo(mouse_held, kSwapHoldDuration + 1)
                         ELSE mouse_held
        /\ UNCHANGED <<joystick_swap, joystick_swap_cnt, last_update, auto_fire_state, swaps,
                       swap_combination_pressed, swap_performed, swap_press_start_time,
                       mouse_swaps>>

Next == \/ GamepadReport
        \/ \E buttons \in MouseButtons : MouseReport(buttons)
        \/ Run
        \/ Tick

Spec == Init /\ [][Next]_vars

FairSpec == Spec /\ WF_vars(Tick) /\ WF_vars(Run)
-----------------------------------------------------------------------------
\* OneSwap: however long either gesture is held, and should the clock wrap around in
\* it, it swaps the ports once (GamePadFeatures::run, MouseModeSwitcher::run).
OneSwap == swaps < 2 /\ mouse_swaps < 2

\* ToggledEvenly: auto fire keeps each state for more than its period, also across
\* an overflow of the clock (run, "Half period of auto fire in milliseconds").
ToggledEvenly == [][auto_fire_state' # auto_fire_state => since > auto_fire_period]_vars

\* HeldLong: the pad swaps the ports only when its button was held for all but the
\* first of the periods ("Waiting time until swapping is performed"), the mouse when
\* the combination was held for the whole duration, whatever reports came in between.
HeldLong == [][/\ swaps' > swaps => held >= HeldEnough
               /\ mouse_swaps' > mouse_swaps => mouse_held > kSwapHoldDuration]_vars

\* SwapComes: a gesture that is held swaps the ports, also when reports arrive all
\* the time (GamePadFeatures::run, MouseModeSwitcher::process_mouse_report, run).
SwapComes == /\ joystick_swap ~> (swaps = 1 \/ ~joystick_swap)
             /\ swap_combination_pressed ~> (mouse_swaps = 1 \/ ~swap_combination_pressed)
=============================================================================
