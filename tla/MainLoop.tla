------------------------------ MODULE MainLoop ------------------------------
(***************************************************************************)
(* The main loop: the LED's patterns, run in every turn, and the user      *)
(* button that cycles the mouse mode, with what asks for a pattern: a      *)
(* device is found, the ports are swapped, the mode is changed.            *)
(*                                                                         *)
(* The button bounces: for some turns after it was pressed or released it  *)
(* reads as either.  It is debounced in turns of the loop, not in time.    *)
(***************************************************************************)
EXTENDS LedPattern

CONSTANTS DebounceTurns,   \* button_debounce_cnt after a change of the mode (100)
          BounceTurns      \* the button bounces for so many turns at most

\* The press and the release together bounce for less than the debouncing lasts.
ASSUME MainLoopAssumption ==
    /\ {"k1Short", "k2Long", "k3Short", "kMorseR"} \subseteq DOMAIN Variants
    /\ DebounceTurns \in Nat /\ BounceTurns \in Nat
    /\ 2 * BounceTurns < DebounceTurns

VARIABLES
    mouse_mode,             \* mouse_mode_ of the pipeline
    button_debounce_cnt, last_button_state,
    held,                   \* the user holds the button
    settling,               \* turns until it has been read without bouncing
    taken,                  \* changes of the mode since it was pressed
    released,               \* turns since it was released, up to RestTurns
    early,                  \* it was pressed again before those
    due                     \* no turn has begun since now advanced

\* The debouncing lasts for the turns in which the button reads as released.
RestTurns == DebounceTurns + BounceTurns

button == <<button_debounce_cnt, last_button_state, held, settling, taken, released, early>>
vars == <<led, now, mouse_mode, button, due>>

TypeOK == /\ LedTypeOK
          /\ mouse_mode \in 0 .. 2
          /\ button_debounce_cnt \in 0 .. DebounceTurns
          /\ settling \in 0 .. BounceTurns + 1 /\ released \in 0 .. RestTurns
          /\ taken \in Nat
          /\ {last_button_state, held, early, due} \subseteq BOOLEAN

Init == /\ LedInit
        /\ mouse_mode \in 0 .. 2
        /\ button_debounce_cnt = 0 /\ last_button_state = FALSE
        /\ held = FALSE /\ settling = 0 /\ taken = 0
        /\ released = RestTurns /\ early = FALSE
        /\ due = FALSE
-----------------------------------------------------------------------------
\* tuh_task and hid_app_task: integrate_handler or swap_callback
DeviceFound == SetPattern("k1Short") /\ UNCHANGED <<now, mouse_mode, button, due>>
Swapped == SetPattern("k2Long") /\ UNCHANGED <<now, mouse_mode, button, due>>

\* The pattern of each mouse mode.
ModePattern == [m \in 0 .. 2 |-> CASE m = 0 -> "k3Short" [] m = 1 -> "kMorseR" [] m = 2 -> "k2Long"]

\* Pipeline::run
PipelineRun == /\ due' = FALSE
               /\ RunLed
               /\ UNCHANGED <<now, mouse_mode, button>>

\* Pipeline::cycle_mouse_mode, as far as the LED goes
CycleMouseMode ==
    /\ mouse_mode' = (mouse_mode + 1) % 3
    /\ SetPattern(ModePattern[mouse_mode'])

\* Mutant of Pressed: bouncing is not waited for.
PressedAtOnce(state) == ~last_button_state /\ state

\* Mutant of Pressed: a press is taken where the debouncing still lasts.
PressedSettled(state) == ~last_button_state /\ state /\ button_debounce_cnt > 0

Pressed(state) == ~last_button_state /\ state /\ button_debounce_cnt = 0

\* What follows Pipeline::run in a turn, with the button read as state.
ReadButton ==
    \E state \in IF settling > 1 THEN BOOLEAN ELSE {held} :
        /\ last_button_state' = state
        /\ IF Pressed(state)
           THEN /\ CycleMouseMode
                /\ button_debounce_cnt' = DebounceTurns
                /\ taken' = taken + 1
           ELSE /\ button_debounce_cnt' = IF button_debounce_cnt > 0 /\ ~state
                                          THEN button_debounce_cnt - 1 ELSE button_debounce_cnt
                /\ UNCHANGED <<led, mouse_mode, taken>>
        /\ settling' = IF settling = 0 THEN 0 ELSE settling - 1
        /\ released' = IF held \/ released = RestTurns THEN released ELSE released + 1
        /\ UNCHANGED <<now, held, early, due>>

\* A user holds the button, and lets go of it, longer than it bounces.
PressButton ==
    /\ ~held /\ settling = 0
    /\ held' = TRUE /\ settling' = BounceTurns + 1
    /\ taken' = 0
    /\ early' = (released < RestTurns)
    /\ UNCHANGED <<led, now, mouse_mode, button_debounce_cnt, last_button_state, released, due>>

ReleaseButton ==
    /\ held /\ settling = 0
    /\ held' = FALSE /\ settling' = BounceTurns + 1
    /\ released' = 0
    /\ UNCHANGED <<led, now, mouse_mode, button_debounce_cnt, last_button_state, taken, early, due>>

\* A turn takes less than a tick.
Tick == /\ ~due
        /\ due' = TRUE
        /\ TickLed
        /\ UNCHANGED <<mouse_mode, button>>

Next == \/ DeviceFound \/ Swapped
        \/ PipelineRun \/ ReadButton
        \/ PressButton \/ ReleaseButton
        \/ Tick

\* Time passes and the main loop runs.
Spec == Init /\ [][Next]_vars /\ WF_vars(Tick) /\ WF_vars(PipelineRun)
-----------------------------------------------------------------------------
\* OncePerPress: a press changes the mode once at most, however the button bounces when
\* it is pressed and when it is released (main, button_debounce_cnt).
OncePerPress == taken <= 1

\* PressTaken: a press that does not follow the last too early changes the mode.
PressTaken == held /\ settling = 0 /\ ~early => taken = 1

\* TimesKept: whatever is asked for meanwhile, each time of a pattern is waited for,
\* unless the clock overflows in it (run; wait_until_ms is an absolute time).
TimesKept ==
    [][active /\ ~wrapped /\ <<view, it>>' # <<view, it>> => since >= Variants[view][it]]_vars

\* PatternEnds: every pattern is over some time, also across an overflow (run); one
\* that is not would keep all others from being shown.
PatternEnds == active ~> ~active
=============================================================================
