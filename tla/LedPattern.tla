----------------------------- MODULE LedPattern -----------------------------
(***************************************************************************)
(* LedPatternGenerator: the LED blinks a pattern, a sequence of times that *)
(* it is alternately lit and dark.  What is asked for while a pattern is   *)
(* shown is not shown.                                                     *)
(***************************************************************************)
EXTENDS Naturals, Sequences

CONSTANTS Variants,   \* the patterns, a function from names to sequences of ticks
          ClockMod    \* board_millis counts modulo this (2^32)

ASSUME LedPatternAssumption ==
    /\ ClockMod \in Nat
    /\ \A p \in DOMAIN Variants : /\ Variants[p] \in Seq(1 .. ClockMod - 1)
                                  /\ Variants[p] # <<>> /\ Len(Variants[p]) % 2 = 0

VARIABLES
    view, it,        \* the pattern, and the position in it from 1 on
    wait_until_ms,
    current_state,   \* the LED is lit
    active,
    now,             \* board_millis
    since,           \* ticks since the position changed, up to ClockMod - 1
    wrapped          \* the clock overflows before wait_until_ms

led == <<view, it, wait_until_ms, current_state, active, since, wrapped>>

Time == 0 .. ClockMod - 1

LedTypeOK == /\ view \in DOMAIN Variants
             /\ it \in 1 .. Len(Variants[view]) + 1
             /\ wait_until_ms \in Time /\ now \in Time /\ since \in Time
             /\ current_state \in BOOLEAN /\ active \in BOOLEAN /\ wrapped \in BOOLEAN

\* The adapter is switched on; the counter of the milliseconds starts anywhere, for
\* what it counts before does not matter.
LedInit == /\ view \in DOMAIN Variants /\ it = 1
           /\ wait_until_ms = 0
           /\ current_state = FALSE /\ active = FALSE
           /\ now \in Time /\ since = 0 /\ wrapped = FALSE
-----------------------------------------------------------------------------
\* Mutant of Deadline: the sum is wider than the clock.
DeadlineUnwrapped(d) == now + d

\* board_millis() + *it_
Deadline(d) == (now + d) % ClockMod

\* The position n of the pattern p is shown from now on.
Show(p, n, lit) ==
    /\ view' = p /\ it' = n
    /\ wait_until_ms' = Deadline(Variants[p][n])
    /\ current_state' = lit
    /\ since' = 0 /\ wrapped' = (now + Variants[p][n] >= ClockMod)

\* Mutant of SetPattern: a pattern is begun in the middle of another.
SetPatternAnew(p) == Show(p, 1, TRUE) /\ active' = TRUE

\* LedPatternGenerator::set_pattern
SetPattern(p) ==
    IF active THEN UNCHANGED led
    ELSE Show(p, 1, TRUE) /\ active' = TRUE

\* LedPatternGenerator::run.  At the end of the pattern it reads one time too many;
\* what it would wait for is not used.
RunLed ==
    IF ~(active /\ now >= wait_until_ms) THEN UNCHANGED led
    ELSE IF it < Len(Variants[view])
    THEN Show(view, it + 1, ~current_state) /\ UNCHANGED active
    ELSE /\ it' = it + 1
         /\ wait_until_ms' \in Time
         /\ current_state' = FALSE /\ active' = FALSE
         /\ since' = 0 /\ wrapped' = FALSE
         /\ UNCHANGED view

\* A tick of board_millis.
TickLed == /\ now' = (now + 1) % ClockMod
           /\ since' = IF since = ClockMod - 1 THEN since ELSE since + 1
           /\ UNCHANGED <<view, it, wait_until_ms, current_state, active, wrapped>>
=============================================================================
