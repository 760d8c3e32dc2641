------------------------- MODULE SwapGestures_proofs -------------------------
(***************************************************************************)
(* Either gesture swaps the ports once per hold and not before its time,   *)
(* and auto fire keeps its period, for all periods, thresholds, durations  *)
(* and clocks.                                                             *)
(***************************************************************************)
EXTENDS SwapGestures, TLAPS

(***************************************************************************)
(* Each of the two timers tells how much time has passed until it is over: *)
(* differences of the clock are counts of its ticks.  A pad that counts    *)
(* periods is never late in telling that one is over.                      *)
(***************************************************************************)
TimersOK ==
    /\ since <= auto_fire_period \/ joystick_swap_cnt # 0 =>
          (now - last_update) % ClockMod = since
    /\ since > auto_fire_period /\ joystick_swap_cnt # 0 => due
    /\ swap_combination_pressed /\ mouse_held <= kSwapHoldDuration =>
          (now - swap_press_start_time) % ClockMod = mouse_held

\* Who has swapped in this hold cannot do it again.
SwapsOK ==
    /\ swaps <= 1
    /\ joystick_swap /\ swaps = 1 => joystick_swap_cnt >= kJoystickSwapThreshold
    /\ mouse_swaps <= 1
    /\ swap_combination_pressed /\ ~swap_performed => mouse_swaps = 0

\* The time that n periods last at least.
Lasting(n) == n * (auto_fire_period + 1)

(***************************************************************************)
(* While the button is held, each period after the first that was counted  *)
(* lies in the hold.  While it is not, either a period has seen that, or   *)
(* the button was let go in the current one.                               *)
(***************************************************************************)
CountOK ==
    /\ joystick_swap /\ joystick_swap_cnt # 0 =>
          \/ held = HeldEnough
          \/ /\ joystick_swap_cnt < kJoystickSwapThreshold
             /\ held >= Lasting(joystick_swap_cnt - 1) + since
    /\ ~joystick_swap /\ joystick_swap_cnt # 0 => held <= since

IInv == TypeOK /\ TimersOK /\ SwapsOK

\* A button that is let go stays so for a period that sees it, and a hold has more than two.
ReleasesSeen == MinChange >= auto_fire_period + 2 /\ kJoystickSwapThreshold >= 2
-----------------------------------------------------------------------------
(* Arithmetic                                                              *)

\* The difference of two times.
LEMMA Difference ==
    ASSUME NEW m \in Nat, NEW u \in 0 .. m - 1, NEW t \in 0 .. m - 1
    PROVE  (u - t) % m = IF u >= t THEN u - t ELSE u - t + m
<1>1. CASE u >= t
  <2>1. u - t \in 0 .. m - 1
    BY <1>1
  <2> QED BY <1>1, <2>1
<1>2. CASE u < t
  <2>1. u - t \in -m .. -1
    BY <1>2
  <2> QED BY <1>2, <2>1
<1> QED BY <1>1, <1>2

\* A tick of the clock.
LEMMA NextTime ==
    ASSUME NEW m \in Nat, NEW u \in 0 .. m - 1
    PROVE  (u + 1) % m = IF u + 1 = m THEN 0 ELSE u + 1
<1>1. CASE u + 1 = m
  BY <1>1
<1>2. CASE u + 1 < m
  <2>1. u + 1 \in 0 .. m - 1
    BY <1>2
  <2> QED BY <1>2, <2>1
<1> QED BY <1>1, <1>2

\* A tick adds one to the time since t, until that overflows.
LEMMA TimeSince ==
    ASSUME NEW t \in Time, NEW u \in Time, (u - t) % ClockMod < ClockMod - 1
    PROVE  (((u + 1) % ClockMod) - t) % ClockMod = ((u - t) % ClockMod) + 1
<1>1. ClockMod \in Nat /\ 1 < ClockMod /\ t \in 0 .. ClockMod - 1 /\ u \in 0 .. ClockMod - 1
  BY GesturesAssumption DEF Time
<1>2. (u - t) % ClockMod = IF u >= t THEN u - t ELSE u - t + ClockMod
  BY <1>1, Difference
<1>3. PICK v \in 0 .. ClockMod - 1 :
        v = (u + 1) % ClockMod /\ v = IF u + 1 = ClockMod THEN 0 ELSE u + 1
  BY <1>1, NextTime
<1>4. (v - t) % ClockMod = IF v >= t THEN v - t ELSE v - t + ClockMod
  BY <1>1, Difference
<1>5. (v - t) % ClockMod = ((u - t) % ClockMod) + 1
  BY <1>1, <1>2, <1>3, <1>4
<1> QED BY <1>3, <1>5

\* No time has passed since now, and the clock goes on.
LEMMA ClockFacts ==
    /\ ClockMod \in Nat /\ 0 \in Time
    /\ \A t \in Time : (t - t) % ClockMod = 0 /\ (t + 1) % ClockMod \in Time
  BY GesturesAssumption DEF Time

\* One more period lasts longer, and the swap comes after HeldEnough.
LEMMA LastingFacts ==
    /\ Lasting(0) = 0
    /\ \A n \in Nat : Lasting(n) \in Nat /\ Lasting(n + 1) = Lasting(n) + auto_fire_period + 1
    /\ HeldEnough \in Nat
    /\ kJoystickSwapThreshold >= 2 => Lasting(kJoystickSwapThreshold - 1) >= HeldEnough
<1>1. auto_fire_period \in Nat /\ kJoystickSwapThreshold \in Nat \ {0}
  BY GesturesAssumption
<1>2. \A n \in Nat : Lasting(n) \in Nat /\ Lasting(n + 1) = Lasting(n) + auto_fire_period + 1
  BY <1>1 DEF Lasting
<1>3. (kJoystickSwapThreshold - 1) * auto_fire_period \in Nat
  BY <1>1
<1>4. Lasting(kJoystickSwapThreshold - 1)
        = (kJoystickSwapThreshold - 1) * auto_fire_period + (kJoystickSwapThreshold - 1)
  BY <1>1 DEF Lasting
<1> QED BY <1>1, <1>2, <1>3, <1>4 DEF Lasting, HeldEnough
-----------------------------------------------------------------------------
(* Types                                                                   *)

\* Counting up to a limit does not exceed it.
LEMMA UpToFacts ==
    ASSUME NEW limit \in Nat, NEW n \in 0 .. limit
    PROVE  UpTo(n, limit) \in 0 .. limit /\ (UpTo(n, limit) = n + 1 \/ UpTo(n, limit) = limit)
  BY DEF UpTo

\* The constants as the provers need them.
LEMMA ConstantFacts ==
    /\ auto_fire_period \in Nat /\ kSwapHoldDuration \in Nat /\ ClockMod \in Nat
    /\ auto_fire_period + 1 < ClockMod /\ kSwapHoldDuration + 1 < ClockMod
    /\ kJoystickSwapThreshold \in Nat \ {0} /\ HeldEnough \in Nat
  BY GesturesAssumption, LastingFacts

\* All is off when the adapter is switched on.
LEMMA InitInv == Init => IInv /\ CountOK
<1> SUFFICES ASSUME Init PROVE IInv /\ CountOK
  OBVIOUS
<1>1. TypeOK
  <2>1. /\ since = auto_fire_period + 1 /\ held = HeldEnough /\ joystick_swap_cnt = 0
        /\ mouse_held = 0 /\ swaps = 0 /\ mouse_swaps = 0 /\ now \in Time
        /\ last_update = 0 /\ swap_press_start_time = 0
        /\ due \in BOOLEAN /\ joystick_swap \in BOOLEAN /\ auto_fire_state \in BOOLEAN
        /\ swap_combination_pressed \in BOOLEAN /\ swap_performed \in BOOLEAN
    BY DEF Init
  <2>2. /\ since \in 0 .. auto_fire_period + 1 /\ held \in 0 .. HeldEnough
        /\ joystick_swap_cnt \in 0 .. kJoystickSwapThreshold + 1
        /\ mouse_held \in 0 .. kSwapHoldDuration + 1
    BY <2>1, ConstantFacts
  <2>3. swaps \in 0 .. 2 /\ mouse_swaps \in 0 .. 2
    BY <2>1
  <2> QED BY <2>1, <2>2, <2>3, ClockFacts DEF TypeOK
<1>2. TimersOK /\ SwapsOK /\ CountOK
  BY ConstantFacts DEF Init, TimersOK, SwapsOK, CountOK
<1> QED BY <1>1, <1>2 DEF IInv
-----------------------------------------------------------------------------
(* Reports                                                                 *)

\* A report of the pad presses the button, or lets it go.
LEMMA GamepadReportOK ==
    ASSUME IInv, GamepadReport
    PROVE  IInv' /\ UNCHANGED <<auto_fire_state, mouse_swaps>> /\ ~(swaps' > swaps)
<1>1. /\ joystick_swap' = ~joystick_swap /\ held' = 0
      /\ swaps' = IF joystick_swap THEN swaps ELSE 0
      /\ UNCHANGED <<now, due, joystick_swap_cnt, last_update, auto_fire_state, since>>
      /\ UNCHANGED <<swap_combination_pressed, swap_performed, swap_press_start_time, mouse_held,
                     mouse_swaps>>
  BY DEF GamepadReport, clock, mouse
<1>2. swaps \in 0 .. 2
  BY DEF IInv, TypeOK
<1>3. joystick_swap' \in BOOLEAN
  BY <1>1, Zenon
<1>4. swaps' \in 0 .. 2 /\ swaps' <= 1 /\ ~(swaps' > swaps)
  BY <1>1, <1>2 DEF IInv, SwapsOK
<1>5. TypeOK'
  BY <1>1, <1>3, <1>4, ConstantFacts DEF IInv, TypeOK
<1>6. TimersOK'
  BY <1>1 DEF IInv, TimersOK
<1>7. SwapsOK'
  <2>1. joystick_swap' => swaps' = 0
    BY <1>1
  <2> QED BY <1>1, <1>4, <2>1 DEF IInv, SwapsOK
<1> QED BY <1>1, <1>4, <1>5, <1>6, <1>7 DEF IInv

\* A period that saw the button let go has forgotten the count.
LEMMA GamepadReportCountOK ==
    ASSUME IInv, CountOK, ReleasesSeen, GamepadReport
    PROVE  CountOK'
<1>1. joystick_swap' = ~joystick_swap /\ held' = 0 /\ UNCHANGED <<joystick_swap_cnt, since>>
  BY DEF GamepadReport
<1>2. since \in 0 .. auto_fire_period + 1 /\ held \in Nat /\ held >= MinChange /\ MinChange \in Nat
  BY GesturesAssumption, ConstantFacts DEF IInv, TypeOK, GamepadReport
<1>3. CASE joystick_swap
  <2>1. ~joystick_swap'
    BY <1>1, <1>3, Zenon
  <2>2. held' <= since'
    BY <1>1, <1>2, ConstantFacts
  <2> QED BY <2>1, <2>2 DEF CountOK
<1>4. CASE ~joystick_swap
  <2>1. joystick_swap_cnt = 0
    BY <1>2, <1>4, ConstantFacts DEF CountOK, ReleasesSeen
  <2> QED BY <1>1, <2>1 DEF CountOK
<1> QED BY <1>3, <1>4

\* A report of the mouse begins a hold, goes on with it, or ends it.
LEMMA MouseReportOK ==
    ASSUME IInv, NEW buttons \in MouseButtons, MouseReport(buttons)
    PROVE  /\ IInv' /\ (CountOK => CountOK')
           /\ UNCHANGED <<auto_fire_state, swaps>> /\ ~(mouse_swaps' > mouse_swaps)
<1> DEFINE combi == Combination \subseteq buttons
<1>1. /\ IF combi /\ ~swap_combination_pressed
         THEN swap_press_start_time' = now /\ swap_performed' = FALSE
         ELSE UNCHANGED <<swap_press_start_time, swap_performed>>
      /\ swap_combination_pressed' = combi
      /\ mouse_held' = IF swap_combination_pressed /\ combi THEN mouse_held ELSE 0
      /\ mouse_swaps' = IF swap_combination_pressed THEN mouse_swaps ELSE 0
      /\ UNCHANGED <<now, due, joystick_swap, joystick_swap_cnt, last_update, auto_fire_state,
                     since, held, swaps>>
  BY DEF MouseReport, Begins, Stamp, clock, pad
<1>2. combi \in BOOLEAN
  OBVIOUS
<1> HIDE DEF combi
<1>3. /\ now \in Time /\ mouse_swaps \in 0 .. 2 /\ mouse_held \in 0 .. kSwapHoldDuration + 1
      /\ swap_press_start_time \in Time /\ swap_performed \in BOOLEAN
  BY DEF IInv, TypeOK
<1>4. mouse_held' \in 0 .. kSwapHoldDuration + 1 /\ mouse_swaps' \in 0 .. 2
  BY <1>1, <1>3, ConstantFacts
<1>5. swap_press_start_time' \in Time /\ swap_performed' \in BOOLEAN
  BY <1>1, <1>3
<1>6. TypeOK'
  BY <1>1, <1>2, <1>4, <1>5 DEF IInv, TypeOK
<1>7. TimersOK'
  <2>1. CASE swap_combination_pressed
    BY <1>1, <2>1 DEF IInv, TimersOK
  <2>2. CASE ~swap_combination_pressed
    BY <1>1, <1>3, <2>2, ClockFacts DEF IInv, TimersOK
  <2> QED BY <2>1, <2>2
<1>8. SwapsOK' /\ ~(mouse_swaps' > mouse_swaps)
  <2>1. CASE swap_combination_pressed
    BY <1>1, <1>3, <2>1 DEF IInv, SwapsOK
  <2>2. CASE ~swap_combination_pressed
    BY <1>1, <1>3, <2>2 DEF IInv, SwapsOK
  <2> QED BY <2>1, <2>2
<1>9. CountOK => CountOK'
  BY <1>1 DEF CountOK
<1> QED BY <1>1, <1>6, <1>7, <1>8, <1>9 DEF IInv
-----------------------------------------------------------------------------
(* Time                                                                    *)

\* A tick of board_millis
LEMMA TickOK ==
    ASSUME IInv, Tick
    PROVE  /\ IInv' /\ (CountOK => CountOK')
           /\ UNCHANGED <<auto_fire_state, swaps, mouse_swaps>>
<1>1. /\ ~due /\ due' = TRUE /\ now' = (now + 1) % ClockMod
      /\ since' = UpTo(since, auto_fire_period + 1)
      /\ held' = UpTo(held, HeldEnough)
      /\ mouse_held' = IF swap_combination_pressed THEN UpTo(mouse_held, kSwapHoldDuration + 1)
                       ELSE mouse_held
      /\ UNCHANGED <<joystick_swap, joystick_swap_cnt, last_update, auto_fire_state, swaps>>
      /\ UNCHANGED <<swap_combination_pressed, swap_performed, swap_press_start_time, mouse_swaps>>
  BY DEF Tick
<1>2. /\ now \in Time /\ last_update \in Time /\ swap_press_start_time \in Time
      /\ since \in 0 .. auto_fire_period + 1 /\ held \in 0 .. HeldEnough
      /\ mouse_held \in 0 .. kSwapHoldDuration + 1
      /\ joystick_swap_cnt \in 0 .. kJoystickSwapThreshold + 1
  BY DEF IInv, TypeOK
<1>3. /\ now' \in Time /\ since' \in 0 .. auto_fire_period + 1 /\ held' \in 0 .. HeldEnough
      /\ mouse_held' \in 0 .. kSwapHoldDuration + 1
  BY <1>1, <1>2, ConstantFacts, ClockFacts DEF UpTo
<1>4. TypeOK'
  BY <1>1, <1>3 DEF IInv, TypeOK
<1>5. SwapsOK'
  BY <1>1 DEF IInv, SwapsOK
<1>6. since' <= auto_fire_period \/ joystick_swap_cnt # 0 =>
        /\ since' = since + 1
        /\ (now' - last_update) % ClockMod = since'
  <2>1. SUFFICES ASSUME since' <= auto_fire_period \/ joystick_swap_cnt # 0
                 PROVE  since' = since + 1 /\ (now' - last_update) % ClockMod = since'
    OBVIOUS
  <2>2. since <= auto_fire_period
    BY <1>1, <1>2, <2>1, ConstantFacts DEF UpTo, IInv, TimersOK
  <2>3. (now - last_update) % ClockMod = since
    BY <2>2 DEF IInv, TimersOK
  <2>4. (((now + 1) % ClockMod) - last_update) % ClockMod = since + 1
    BY <1>2, <2>2, <2>3, ConstantFacts, TimeSince
  <2>5. since' = since + 1
    BY <1>1, <1>2, <2>2, ConstantFacts DEF UpTo
  <2> QED BY <1>1, <2>4, <2>5
<1>7. ASSUME swap_combination_pressed, mouse_held' <= kSwapHoldDuration
      PROVE  (now' - swap_press_start_time) % ClockMod = mouse_held'
  <2>1. mouse_held' = mouse_held + 1 /\ mouse_held < kSwapHoldDuration
    BY <1>1, <1>2, <1>7, ConstantFacts DEF UpTo
  <2>2. (now - swap_press_start_time) % ClockMod = mouse_held
    BY <1>2, <1>7, <2>1, ConstantFacts DEF IInv, TimersOK
  <2>3. (((now + 1) % ClockMod) - swap_press_start_time) % ClockMod = mouse_held + 1
    BY <1>2, <2>1, <2>2, ConstantFacts, TimeSince
  <2> QED BY <1>1, <2>1, <2>3
<1>8. TimersOK'
  BY <1>1, <1>6, <1>7 DEF TimersOK
<1>9. CountOK => CountOK'
  <2>1. SUFFICES ASSUME CountOK, joystick_swap_cnt # 0 PROVE CountOK'
    BY <1>1 DEF CountOK
  <2>2. since' = since + 1 /\ (held' = held + 1 \/ held' = HeldEnough) /\ held' <= held + 1
    BY <1>1, <1>2, <1>6, <2>1, ConstantFacts DEF UpTo
  <2>3. joystick_swap_cnt - 1 \in Nat
    BY <1>2, <2>1, ConstantFacts
  <2>4. Lasting(joystick_swap_cnt - 1) \in Nat
    BY <2>3, LastingFacts
  <2>5. held = HeldEnough => held' = HeldEnough
    BY <1>1, ConstantFacts DEF UpTo
  <2>6. CASE joystick_swap
    BY <1>1, <1>2, <2>1, <2>2, <2>4, <2>5, <2>6, ConstantFacts DEF CountOK
  <2>7. CASE ~joystick_swap
    BY <1>1, <1>2, <2>1, <2>2, <2>7, ConstantFacts DEF CountOK
  <2> QED BY <2>6, <2>7
<1> QED BY <1>1, <1>4, <1>5, <1>8, <1>9 DEF IInv
-----------------------------------------------------------------------------
(* The main loop                                                           *)

\* What the pad does when a period is over.
LEMMA PeriodFacts ==
    ASSUME IInv, RunPad, PeriodOver
    PROVE  /\ since > auto_fire_period
           /\ last_update' = now /\ since' = 0 /\ auto_fire_state' = ~auto_fire_state
           /\ joystick_swap_cnt' = Counted
           /\ swaps' = IF joystick_swap /\ Counted # joystick_swap_cnt
                          /\ Counted = kJoystickSwapThreshold
                       THEN UpTo(swaps, 2) ELSE swaps
           /\ UNCHANGED <<joystick_swap, held>>
<1>1. since > auto_fire_period
  <2>1. (now - last_update) % ClockMod > auto_fire_period
    BY DEF PeriodOver
  <2>2. since \in 0 .. auto_fire_period + 1
    BY DEF IInv, TypeOK
  <2>3. since <= auto_fire_period => (now - last_update) % ClockMod = since
    BY DEF IInv, TimersOK
  <2>4. auto_fire_period \in Nat
    BY ConstantFacts
  <2> QED BY <2>1, <2>2, <2>3, <2>4
<1> QED BY <1>1 DEF RunPad, SwapsAt

\* A period that is not over leaves the pad alone.
LEMMA PeriodLasts ==
    ASSUME RunPad, ~PeriodOver
    PROVE  UNCHANGED pad
  BY DEF RunPad, pad

\* What follows a count, and when it swaps the ports.
LEMMA CountedFacts ==
    ASSUME IInv
    PROVE  /\ Counted \in 0 .. kJoystickSwapThreshold + 1
           /\ joystick_swap => \/ Counted = joystick_swap_cnt + 1
                              \/ /\ Counted = joystick_swap_cnt
                                 /\ joystick_swap_cnt = kJoystickSwapThreshold + 1
           /\ ~joystick_swap => Counted = 0
  BY ConstantFacts DEF IInv, TypeOK, Counted, UpTo

\* A run after which the counters of the pad are as they have to be.
LEMMA RunPadTimers ==
    ASSUME IInv, due, RunPad, now' = now
    PROVE  /\ since' <= auto_fire_period \/ joystick_swap_cnt' # 0 =>
                 (now' - last_update') % ClockMod = since'
           /\ ~(since' > auto_fire_period /\ joystick_swap_cnt' # 0)
<1>1. CASE PeriodOver
  <2>1. now \in Time /\ auto_fire_period \in Nat
    BY ConstantFacts DEF IInv, TypeOK
  <2>2. since' = 0 /\ last_update' = now
    BY <1>1, PeriodFacts
  <2> QED BY <2>1, <2>2, ClockFacts
<1>2. CASE ~PeriodOver
  <2>1. UNCHANGED <<last_update, since, joystick_swap_cnt>>
    BY <1>2, PeriodLasts DEF pad
  <2>2. since <= auto_fire_period \/ joystick_swap_cnt # 0 =>
          (now - last_update) % ClockMod = since
    BY DEF IInv, TimersOK
  <2>3. ~((now - last_update) % ClockMod > auto_fire_period)
    BY <1>2 DEF PeriodOver
  <2>4. ~(since > auto_fire_period /\ joystick_swap_cnt # 0)
    BY <2>2, <2>3
  <2> QED BY <2>1, <2>2, <2>4
<1> QED BY <1>1, <1>2

\* The pad swaps the ports when the count reaches the threshold, and only then.
LEMMA RunPadSwaps ==
    ASSUME IInv, RunPad
    PROVE  /\ swaps' \in 0 .. 1
           /\ joystick_swap' /\ swaps' = 1 => joystick_swap_cnt' >= kJoystickSwapThreshold
           /\ swaps' > swaps => /\ PeriodOver /\ joystick_swap
                              /\ Counted # joystick_swap_cnt
                              /\ Counted = kJoystickSwapThreshold
<1>1. /\ swaps \in 0 .. 1 /\ kJoystickSwapThreshold \in Nat \ {0}
      /\ joystick_swap_cnt \in 0 .. kJoystickSwapThreshold + 1
      /\ joystick_swap /\ swaps = 1 => joystick_swap_cnt >= kJoystickSwapThreshold
  BY ConstantFacts DEF IInv, TypeOK, SwapsOK
<1>2. CASE PeriodOver
  <2>1. /\ joystick_swap_cnt' = Counted /\ joystick_swap' = joystick_swap
        /\ swaps' = IF joystick_swap /\ Counted # joystick_swap_cnt
                       /\ Counted = kJoystickSwapThreshold
                    THEN UpTo(swaps, 2) ELSE swaps
    BY <1>2, PeriodFacts
  <2>2. CASE joystick_swap /\ Counted # joystick_swap_cnt /\ Counted = kJoystickSwapThreshold
    <3>1. joystick_swap_cnt + 1 = kJoystickSwapThreshold
      BY <1>1, <2>2, CountedFacts
    <3>2. swaps = 0
      BY <1>1, <2>2, <3>1
    <3>3. swaps' = 1
      BY <2>1, <2>2, <3>2 DEF UpTo
    <3> QED BY <1>1, <1>2, <2>1, <2>2, <3>3
  <2>3. CASE ~(joystick_swap /\ Counted # joystick_swap_cnt /\ Counted = kJoystickSwapThreshold)
    <3>1. swaps' = swaps
      BY <2>1, <2>3
    <3>2. joystick_swap => Counted >= joystick_swap_cnt
      BY <1>1, CountedFacts
    <3>3. Counted \in Nat
      BY <1>1, CountedFacts
    <3> QED BY <1>1, <2>1, <3>1, <3>2, <3>3
  <2> QED BY <2>2, <2>3
<1>3. CASE ~PeriodOver
  BY <1>1, <1>3, PeriodLasts DEF pad
<1> QED BY <1>2, <1>3

\* A period that is counted lies in the hold, but for the first.
LEMMA RunPadCount ==
    ASSUME IInv, CountOK, RunPad, kJoystickSwapThreshold >= 2
    PROVE  CountOK' /\ (swaps' > swaps => held >= HeldEnough)
<1>1. /\ since \in 0 .. auto_fire_period + 1 /\ held \in 0 .. HeldEnough
      /\ joystick_swap_cnt \in 0 .. kJoystickSwapThreshold + 1
      /\ kJoystickSwapThreshold \in Nat \ {0} /\ HeldEnough \in Nat /\ auto_fire_period \in Nat
  BY ConstantFacts DEF IInv, TypeOK
<1>2. CASE PeriodOver
  <2>1. /\ joystick_swap_cnt' = Counted /\ joystick_swap' = joystick_swap /\ held' = held
        /\ since' = 0 /\ since = auto_fire_period + 1
    BY <1>1, <1>2, PeriodFacts
  <2>2. CASE joystick_swap /\ Counted = joystick_swap_cnt + 1
    <3>1. held = HeldEnough \/ held >= Lasting(joystick_swap_cnt)
      <4>1. CASE joystick_swap_cnt = 0
        BY <1>1, <4>1, LastingFacts
      <4>2. CASE joystick_swap_cnt # 0
        <5>1. PICK n \in Nat : joystick_swap_cnt = n + 1
          <6>1. joystick_swap_cnt - 1 \in Nat /\ joystick_swap_cnt = (joystick_swap_cnt - 1) + 1
            BY <1>1, <4>2
          <6> QED BY <6>1
        <5>2. Lasting(joystick_swap_cnt) = Lasting(n) + auto_fire_period + 1 /\ Lasting(n) \in Nat
          BY <5>1, LastingFacts
        <5>3. joystick_swap_cnt - 1 = n
          BY <5>1
        <5>4. held = HeldEnough \/ held >= Lasting(n) + since
          BY <2>2, <4>2, <5>3 DEF CountOK
        <5> QED BY <1>1, <2>1, <5>2, <5>4
      <4> QED BY <4>1, <4>2
    <3>2. CASE Counted < kJoystickSwapThreshold
      <4>1. Counted - 1 = joystick_swap_cnt
        BY <1>1, <2>2
      <4>2. Lasting(joystick_swap_cnt) \in Nat
        BY <1>1, LastingFacts
      <4>3. held' = HeldEnough \/ held' >= Lasting(joystick_swap_cnt' - 1) + since'
        BY <1>1, <2>1, <3>1, <4>1, <4>2
      <4>4. CountOK'
        BY <2>1, <2>2, <3>2, <4>3 DEF CountOK
      <4>5. ~(swaps' > swaps)
        BY <1>1, <3>2, RunPadSwaps
      <4> QED BY <4>4, <4>5
    <3>3. CASE Counted = kJoystickSwapThreshold
      <4>1. kJoystickSwapThreshold - 1 = joystick_swap_cnt
        BY <1>1, <2>2, <3>3
      <4>2. Lasting(joystick_swap_cnt) >= HeldEnough /\ Lasting(joystick_swap_cnt) \in Nat
        BY <1>1, <4>1, LastingFacts
      <4>3. held = HeldEnough
        BY <1>1, <3>1, <4>2
      <4> QED BY <1>1, <2>1, <2>2, <4>3 DEF CountOK
    <3>4. CASE Counted > kJoystickSwapThreshold
      <4>1. ~(joystick_swap_cnt < kJoystickSwapThreshold) /\ joystick_swap_cnt # 0
        BY <1>1, <2>2, <3>4
      <4>2. held = HeldEnough
        BY <2>2, <4>1 DEF CountOK
      <4> QED BY <1>1, <2>1, <2>2, <4>2 DEF CountOK
    <3> QED BY <1>1, <2>2, <3>2, <3>3, <3>4
  <2>3. CASE joystick_swap /\ Counted = joystick_swap_cnt
    <3>1. joystick_swap_cnt = kJoystickSwapThreshold + 1
      BY <1>1, <2>3, CountedFacts
    <3>2. ~(joystick_swap_cnt < kJoystickSwapThreshold) /\ joystick_swap_cnt # 0
      BY <1>1, <3>1
    <3>3. held = HeldEnough
      BY <2>3, <3>2 DEF CountOK
    <3> QED BY <1>1, <2>1, <2>3, <3>3 DEF CountOK
  <2>4. CASE ~joystick_swap
    <3>1. joystick_swap_cnt' = 0
      BY <2>1, <2>4, CountedFacts
    <3> QED BY <2>1, <2>4, <3>1, RunPadSwaps DEF CountOK
  <2> QED BY <2>2, <2>3, <2>4, CountedFacts
<1>3. CASE ~PeriodOver
  BY <1>1, <1>3, PeriodLasts, RunPadSwaps DEF pad, CountOK
<1> QED BY <1>2, <1>3

\* The mouse swaps the ports once the combination was held long enough.
LEMMA RunMouseOK ==
    ASSUME IInv, RunMouse
    PROVE  /\ swap_performed' \in BOOLEAN /\ mouse_swaps' \in 0 .. 1
           /\ swap_combination_pressed /\ ~swap_performed' => mouse_swaps' = 0
           /\ UNCHANGED <<swap_combination_pressed, swap_press_start_time, mouse_held>>
           /\ mouse_swaps' > mouse_swaps => mouse_held > kSwapHoldDuration
<1>1. /\ mouse_swaps \in 0 .. 1 /\ swap_performed \in BOOLEAN
      /\ mouse_held \in 0 .. kSwapHoldDuration + 1 /\ kSwapHoldDuration \in Nat
      /\ swap_combination_pressed /\ ~swap_performed => mouse_swaps = 0
  BY ConstantFacts DEF IInv, TypeOK, SwapsOK
<1>2. UNCHANGED <<swap_combination_pressed, swap_press_start_time, mouse_held>>
  BY DEF RunMouse
<1>3. CASE swap_combination_pressed /\ ~swap_performed /\ HeldOver
  <2>1. mouse_held > kSwapHoldDuration
    BY <1>1, <1>3 DEF HeldOver, IInv, TimersOK
  <2>2. swap_performed' = TRUE /\ mouse_swaps' = 1
    BY <1>1, <1>3 DEF RunMouse, UpTo
  <2> QED BY <1>2, <2>1, <2>2
<1>4. CASE ~(swap_combination_pressed /\ ~swap_performed /\ HeldOver)
  <2>1. UNCHANGED <<swap_performed, mouse_swaps>>
    BY <1>4 DEF RunMouse
  <2> QED BY <1>1, <1>2, <2>1
<1> QED BY <1>3, <1>4

\* Pipeline::run
LEMMA RunOK ==
    ASSUME IInv, Run
    PROVE  IInv'
<1>1. due /\ due' = FALSE /\ now' = now /\ RunPad /\ RunMouse
  BY DEF Run
<1>2. TypeOK'
  <2>1. /\ last_update' \in Time /\ auto_fire_state' \in BOOLEAN
        /\ joystick_swap_cnt' \in 0 .. kJoystickSwapThreshold + 1
        /\ since' \in 0 .. auto_fire_period + 1 /\ joystick_swap' \in BOOLEAN
        /\ held' \in 0 .. HeldEnough
    <3>1. CASE PeriodOver
      <4>1. auto_fire_state' \in BOOLEAN
        BY <1>1, <3>1, PeriodFacts, Zenon
      <4>2. since' \in 0 .. auto_fire_period + 1
        BY <1>1, <3>1, PeriodFacts, ConstantFacts
      <4> QED BY <1>1, <3>1, <4>1, <4>2, PeriodFacts, CountedFacts DEF IInv, TypeOK
    <3>2. CASE ~PeriodOver
      BY <1>1, <3>2, PeriodLasts DEF pad, IInv, TypeOK
    <3> QED BY <3>1, <3>2
  <2>2. swaps' \in 0 .. 2 /\ mouse_swaps' \in 0 .. 2
    BY <1>1, RunPadSwaps, RunMouseOK
  <2> QED BY <1>1, <2>1, <2>2, RunMouseOK DEF IInv, TypeOK
<1>3. TimersOK'
  <2>1. swap_combination_pressed' /\ mouse_held' <= kSwapHoldDuration =>
          (now' - swap_press_start_time') % ClockMod = mouse_held'
    BY <1>1, RunMouseOK DEF IInv, TimersOK
  <2> QED BY <1>1, <2>1, RunPadTimers DEF TimersOK
<1>4. SwapsOK'
  <2>1. swaps' <= 1 /\ mouse_swaps' <= 1
    BY <1>1, RunPadSwaps, RunMouseOK
  <2> QED BY <1>1, <2>1, RunPadSwaps, RunMouseOK DEF SwapsOK
<1> QED BY <1>2, <1>3, <1>4 DEF IInv
-----------------------------------------------------------------------------
(* The system                                                              *)

\* What a step may do: toggle the auto fire after its period, swap after a hold.
Toggles == auto_fire_state' # auto_fire_state => since > auto_fire_period
MouseSwaps == mouse_swaps' > mouse_swaps => mouse_held > kSwapHoldDuration
PadSwaps == swaps' > swaps => held >= HeldEnough

\* Every step keeps the invariant, toggles after a period, and swaps after the duration.
LEMMA StepOK == IInv /\ [Next]_vars => IInv' /\ Toggles /\ MouseSwaps
<1> SUFFICES ASSUME IInv, [Next]_vars PROVE IInv' /\ Toggles /\ MouseSwaps
  OBVIOUS
<1>0. mouse_swaps \in 0 .. 2
  BY DEF IInv, TypeOK
<1>1. CASE GamepadReport
  BY <1>0, <1>1, GamepadReportOK DEF Toggles, MouseSwaps
<1>2. ASSUME NEW buttons \in MouseButtons, MouseReport(buttons) PROVE IInv' /\ Toggles /\ MouseSwaps
  BY <1>2, MouseReportOK DEF Toggles, MouseSwaps
<1>3. CASE Run
  <2>1. Toggles
    <3>1. CASE PeriodOver
      BY <1>3, <3>1, PeriodFacts DEF Run, Toggles
    <3>2. CASE ~PeriodOver
      BY <1>3, <3>2, PeriodLasts DEF Run, Toggles, pad
    <3> QED BY <3>1, <3>2
  <2> QED BY <1>3, <2>1, RunOK, RunMouseOK DEF Run, MouseSwaps
<1>4. CASE Tick
  BY <1>0, <1>4, TickOK DEF Toggles, MouseSwaps
<1>5. CASE UNCHANGED vars
  BY <1>0, <1>5 DEF vars, clock, pad, mouse, IInv, TypeOK, TimersOK, SwapsOK, Toggles, MouseSwaps
<1> QED BY <1>1, <1>2, <1>3, <1>4, <1>5 DEF Next

\* Where releases are seen, every step keeps the count, and swaps after the hold.
LEMMA StepCountOK ==
    ASSUME ReleasesSeen
    PROVE  IInv /\ CountOK /\ [Next]_vars => CountOK' /\ PadSwaps
<1> SUFFICES ASSUME IInv, CountOK, [Next]_vars PROVE CountOK' /\ PadSwaps
  OBVIOUS
<1>0. swaps \in 0 .. 2
  BY DEF IInv, TypeOK
<1>1. CASE GamepadReport
  BY <1>1, GamepadReportOK, GamepadReportCountOK DEF PadSwaps
<1>2. ASSUME NEW buttons \in MouseButtons, MouseReport(buttons) PROVE CountOK' /\ PadSwaps
  BY <1>0, <1>2, MouseReportOK DEF PadSwaps
<1>3. CASE Run
  BY <1>3, RunPadCount DEF Run, ReleasesSeen, PadSwaps
<1>4. CASE Tick
  BY <1>0, <1>4, TickOK DEF PadSwaps
<1>5. CASE UNCHANGED vars
  BY <1>0, <1>5 DEF vars, pad, CountOK, PadSwaps
<1> QED BY <1>1, <1>2, <1>3, <1>4, <1>5 DEF Next

\* The invariant holds in every reachable state.
LEMMA Invariance == Spec => []IInv
<1>1. IInv /\ [Next]_vars => IInv'
  BY StepOK
<1>2. Init => IInv
  BY InitInv
<1> QED BY <1>1, <1>2, PTL DEF Spec

\* TypeCorrect: type correctness of both gestures and the clock.
THEOREM TypeCorrect == Spec => []TypeOK
<1>1. IInv => TypeOK
  BY DEF IInv
<1> QED BY Invariance, <1>1, PTL

\* OneSwapAlways: however long and with whatever reports in between a gesture is held,
\* it swaps the ports once (GamePadFeatures::run, MouseModeSwitcher::run).
THEOREM OneSwapAlways == Spec => []OneSwap
<1>1. IInv => OneSwap
  BY DEF IInv, TypeOK, SwapsOK, OneSwap
<1> QED BY Invariance, <1>1, PTL

\* ToggledEvenlyAlways: no state of the auto fire is cut short, whatever the period and
\* wherever the clock overflows (GamePadFeatures::run).
THEOREM ToggledEvenlyAlways == Spec => ToggledEvenly
<1>1. IInv /\ [Next]_vars => [auto_fire_state' # auto_fire_state => since > auto_fire_period]_vars
  BY StepOK DEF Toggles
<1> QED BY Invariance, <1>1, PTL DEF Spec, ToggledEvenly

\* MouseHeldLong: the mouse never swaps the ports before the combination was held for the
\* whole duration (MouseModeSwitcher::run); this needs nothing of the pads.
THEOREM MouseHeldLong ==
    Spec => [][mouse_swaps' > mouse_swaps => mouse_held > kSwapHoldDuration]_vars
<1>1. IInv /\ [Next]_vars => [mouse_swaps' > mouse_swaps => mouse_held > kSwapHoldDuration]_vars
  BY StepOK DEF MouseSwaps
<1> QED BY Invariance, <1>1, PTL DEF Spec

\* HeldLongAlways: neither gesture swaps the ports before it was held as long as it has to
\* be, if the pad's button is never let go for less than a period.
THEOREM HeldLongAlways ==
    ASSUME ReleasesSeen
    PROVE  Spec => HeldLong
<1>1. Init => IInv /\ CountOK
  BY InitInv
<1>2. IInv /\ CountOK /\ [Next]_vars => IInv' /\ CountOK' /\ PadSwaps /\ MouseSwaps
  BY StepOK, StepCountOK
<1>3. IInv /\ CountOK /\ [Next]_vars =>
        /\ IInv' /\ CountOK'
        /\ [/\ swaps' > swaps => held >= HeldEnough
            /\ mouse_swaps' > mouse_swaps => mouse_held > kSwapHoldDuration]_vars
  BY <1>2 DEF PadSwaps, MouseSwaps
<1> QED BY <1>1, <1>3, PTL DEF Spec, HeldLong
=============================================================================
