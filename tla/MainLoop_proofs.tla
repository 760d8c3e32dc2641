--------------------------- MODULE MainLoop_proofs ---------------------------
(***************************************************************************)
(* The user button changes the mode once per press, and no time of an LED  *)
(* pattern is cut short, for all patterns, clocks and lengths of bouncing. *)
(***************************************************************************)
EXTENDS MainLoop, TLAPS

\* How long the LED stays as it is.
Current == Variants[view][it]

(***************************************************************************)
(* While a pattern is shown, its deadline is the time it was set for.  Once *)
(* the clock overflows behind it the deadline does not tell any more, but  *)
(* then so much time has passed.                                           *)
(***************************************************************************)
LedOK ==
    active => /\ it <= Len(Variants[view])
              /\ ~wrapped => /\ wait_until_ms >= Current
                             /\ since >= Current \/ now + Current = wait_until_ms + since

(***************************************************************************)
(* A change of the mode is followed by less than DebounceTurns turns that  *)
(* read the button as released before it has settled again: BounceTurns at *)
(* most on either side of the hold.                                        *)
(***************************************************************************)
DebounceOK ==
    /\ taken \in {0, 1}
    /\ taken = 1 /\ held => /\ button_debounce_cnt + BounceTurns >= DebounceTurns
                            /\ button_debounce_cnt + BounceTurns + 1 >= DebounceTurns + settling
    /\ taken = 1 /\ ~held /\ settling > 0 =>
          button_debounce_cnt + 2 * BounceTurns + 1 >= DebounceTurns + settling

(***************************************************************************)
(* Whoever presses the button after RestTurns turns finds it debounced and *)
(* read as released, and it stays so until the press is taken.             *)
(***************************************************************************)
RestOK ==
    /\ ~held => button_debounce_cnt + released <= RestTurns
    /\ ~held /\ settling > 0 => released + settling = BounceTurns + 1
    /\ ~held /\ settling = 0 => ~last_button_state
    /\ held /\ ~early /\ taken = 0 => /\ button_debounce_cnt = 0 /\ ~last_button_state
                                      /\ settling > 0

IInv == TypeOK /\ LedOK /\ DebounceOK /\ RestOK

\* What TimesKept says of a step.
TimeKept == active /\ ~wrapped /\ <<view, it>>' # <<view, it>> => since >= Variants[view][it]

-----------------------------------------------------------------------------
(* The LED                                                                 *)

\* The time of a position is one that the clock can tell.
LEMMA CurrentTime ==
    ASSUME NEW p \in DOMAIN Variants, NEW n \in 1 .. Len(Variants[p])
    PROVE  Variants[p][n] \in 1 .. ClockMod - 1
  BY LedPatternAssumption

\* A time that does not reach the overflow stays as it is.
LEMMA Unwrapped ==
    ASSUME NEW m \in Nat, NEW t \in Nat, t < m
    PROVE  t % m = t
  OBVIOUS

\* A position that is shown from now on has its deadline.
LEMMA ShowOK ==
    ASSUME LedTypeOK, now' = now, active',
           NEW p \in DOMAIN Variants, NEW n \in 1 .. Len(Variants[p]), NEW lit \in BOOLEAN,
           Show(p, n, lit)
    PROVE  LedTypeOK' /\ LedOK'
<1>1. Variants[p][n] \in 1 .. ClockMod - 1 /\ ClockMod \in Nat /\ now \in 0 .. ClockMod - 1
  BY CurrentTime, LedPatternAssumption DEF LedTypeOK, Time
<1>2. /\ view' = p /\ it' = n /\ current_state' = lit /\ since' = 0
      /\ wait_until_ms' = (now + Variants[p][n]) % ClockMod
      /\ wrapped' = (now + Variants[p][n] >= ClockMod)
  BY DEF Show, Deadline
<1>3. (now + Variants[p][n]) % ClockMod \in 0 .. ClockMod - 1
  BY <1>1
<1>4. ~wrapped' => wait_until_ms' = now + Variants[p][n]
  <2> DEFINE x == Variants[p][n]
  <2>1. ASSUME now + x < ClockMod PROVE (now + x) % ClockMod = now + x
    <3> HIDE DEF x
    <3>1. x \in 1 .. ClockMod - 1
      BY <1>1 DEF x
    <3>2. now + x \in Nat /\ ClockMod \in Nat
      BY <1>1, <3>1
    <3> QED BY <2>1, <3>2, Unwrapped
  <2>2. ASSUME ~wrapped' PROVE now + x < ClockMod
    <3>1. ~(now + x >= ClockMod)
      BY <1>2, <2>2, Zenon
    <3> HIDE DEF x
    <3>2. x \in 1 .. ClockMod - 1
      BY <1>1 DEF x
    <3> QED BY <1>1, <3>1, <3>2
  <2> QED BY <1>2, <2>1, <2>2
<1>5. LedTypeOK'
  BY <1>1, <1>2, <1>3, LedPatternAssumption DEF LedTypeOK, Time
<1>6. LedOK'
  BY <1>1, <1>2, <1>4 DEF LedOK, Current
<1> QED BY <1>5, <1>6

\* A request changes nothing while a pattern is shown.
LEMMA SetPatternOK ==
    ASSUME LedTypeOK, LedOK, NEW p \in DOMAIN Variants, SetPattern(p), now' = now
    PROVE  LedTypeOK' /\ LedOK' /\ TimeKept
<1>1. CASE active
  <2>1. UNCHANGED <<led, now>>
    BY <1>1 DEF SetPattern
  <2> QED BY <2>1 DEF led, LedTypeOK, LedOK, Current, TimeKept
<1>2. CASE ~active
  <2>1. Show(p, 1, TRUE) /\ active' = TRUE
    BY <1>2 DEF SetPattern
  <2>2. 1 \in 1 .. Len(Variants[p])
    BY LedPatternAssumption
  <2> QED BY <1>2, <2>1, <2>2, ShowOK DEF TimeKept
<1> QED BY <1>1, <1>2

\* A pattern goes on only where its deadline is reached.
LEMMA RunLedOK ==
    ASSUME LedTypeOK, LedOK, RunLed, now' = now
    PROVE  LedTypeOK' /\ LedOK' /\ TimeKept
<1>1. CASE ~(active /\ now >= wait_until_ms)
  <2>1. UNCHANGED <<led, now>>
    BY <1>1 DEF RunLed
  <2> QED BY <2>1 DEF led, LedTypeOK, LedOK, Current, TimeKept
<1>2. CASE active /\ now >= wait_until_ms
  <2>1. it \in 1 .. Len(Variants[view]) /\ view \in DOMAIN Variants /\ Len(Variants[view]) \in Nat
    BY <1>2, LedPatternAssumption DEF LedTypeOK, LedOK
  <2>2. TimeKept
    BY <1>2, <2>1, CurrentTime, LedPatternAssumption DEF TimeKept, LedOK, LedTypeOK, Current, Time
  <2>3. CASE it < Len(Variants[view])
    <3>1. Show(view, it + 1, ~current_state) /\ active' = active
      BY <1>2, <2>3 DEF RunLed
    <3>2. it + 1 \in 1 .. Len(Variants[view])
      BY <2>1, <2>3
    <3>3. (~current_state) \in BOOLEAN
      BY Zenon
    <3> QED BY <1>2, <2>1, <2>2, <3>1, <3>2, <3>3, ShowOK
  <2>4. CASE ~(it < Len(Variants[view]))
    <3>1. /\ it' = it + 1 /\ view' = view /\ wait_until_ms' \in Time
          /\ current_state' = FALSE /\ active' = FALSE /\ since' = 0 /\ wrapped' = FALSE
      BY <1>2, <2>4 DEF RunLed
    <3>2. 0 \in Time
      BY LedPatternAssumption DEF LedTypeOK, Time
    <3>3. it + 1 \in 1 .. Len(Variants[view]) + 1
      BY <2>1, <2>4
    <3>4. LedTypeOK'
      BY <2>1, <3>1, <3>2, <3>3 DEF LedTypeOK
    <3>5. LedOK'
      BY <3>1 DEF LedOK
    <3> QED BY <2>2, <3>4, <3>5
  <2> QED BY <2>3, <2>4
<1> QED BY <1>1, <1>2

\* Time passes; the clock overflows before the deadline only where that was foreseen.
LEMMA TickLedOK ==
    ASSUME LedTypeOK, LedOK, TickLed
    PROVE  LedTypeOK' /\ LedOK' /\ TimeKept
<1>1. /\ UNCHANGED <<view, it, wait_until_ms, current_state, active, wrapped>>
      /\ now' = (now + 1) % ClockMod
      /\ since' = IF since = ClockMod - 1 THEN since ELSE since + 1
  BY DEF TickLed
<1>2. /\ ClockMod \in Nat \ {0} /\ now \in 0 .. ClockMod - 1 /\ since \in 0 .. ClockMod - 1
      /\ wait_until_ms \in 0 .. ClockMod - 1
  BY LedPatternAssumption DEF LedTypeOK, Time
<1>3. (now + 1) % ClockMod \in 0 .. ClockMod - 1 /\ since' \in 0 .. ClockMod - 1
  BY <1>1, <1>2
<1>4. LedTypeOK'
  BY <1>1, <1>3 DEF LedTypeOK, Time
<1>5. ASSUME active, ~wrapped PROVE since' >= Current \/ now' + Current = wait_until_ms + since'
  <2>1. Current \in 1 .. ClockMod - 1
    BY <1>5, CurrentTime, LedPatternAssumption DEF LedTypeOK, LedOK, Current
  <2>2. CASE since >= Current
    BY <1>1, <1>2, <2>1, <2>2
  <2>3. CASE since < Current
    <3>1. now + Current = wait_until_ms + since /\ now < wait_until_ms
      BY <1>2, <1>5, <2>1, <2>3 DEF LedOK
    <3>2. now' = now + 1 /\ since' = since + 1
      BY <1>1, <1>2, <2>1, <2>3, <3>1
    <3> QED BY <1>2, <2>1, <3>1, <3>2
  <2> QED BY <1>2, <2>1, <2>2, <2>3
<1>6. LedOK'
  BY <1>1, <1>5 DEF LedOK, Current
<1> QED BY <1>1, <1>4, <1>6 DEF TimeKept
-----------------------------------------------------------------------------
(* The button                                                              *)

\* What the invariants say of the button alone.
ButtonOK ==
    /\ mouse_mode \in 0 .. 2
    /\ button_debounce_cnt \in 0 .. DebounceTurns
    /\ settling \in 0 .. BounceTurns + 1 /\ released \in 0 .. RestTurns
    /\ taken \in Nat
    /\ last_button_state \in BOOLEAN /\ held \in BOOLEAN /\ early \in BOOLEAN /\ due \in BOOLEAN
    /\ DebounceOK /\ RestOK

\* The invariants are those of the LED and those of the button.
LEMMA Split == IInv <=> LedTypeOK /\ LedOK /\ ButtonOK
  BY DEF IInv, TypeOK, ButtonOK

\* A turn reads the button.
LEMMA ReadButtonOK ==
    ASSUME ButtonOK, ReadButton
    PROVE  ButtonOK'
<1>1. DebounceTurns \in Nat /\ BounceTurns \in Nat /\ 2 * BounceTurns < DebounceTurns
  BY MainLoopAssumption
<1>2. RestTurns = DebounceTurns + BounceTurns
  BY DEF RestTurns
<1>3. PICK state \in (IF settling > 1 THEN BOOLEAN ELSE {held}) :
        /\ last_button_state' = state
        /\ IF Pressed(state)
           THEN mouse_mode' = (mouse_mode + 1) % 3 /\ button_debounce_cnt' = DebounceTurns
                /\ taken' = taken + 1
           ELSE /\ button_debounce_cnt' = IF button_debounce_cnt > 0 /\ ~state
                                          THEN button_debounce_cnt - 1 ELSE button_debounce_cnt
                /\ UNCHANGED <<mouse_mode, taken>>
        /\ settling' = IF settling = 0 THEN 0 ELSE settling - 1
        /\ released' = IF held \/ released = RestTurns THEN released ELSE released + 1
        /\ UNCHANGED <<held, early, due>>
  BY DEF ReadButton, CycleMouseMode
<1>4. /\ mouse_mode \in 0 .. 2 /\ button_debounce_cnt \in 0 .. DebounceTurns
      /\ settling \in 0 .. BounceTurns + 1 /\ released \in 0 .. RestTurns
      /\ taken \in {0, 1} /\ held \in BOOLEAN /\ last_button_state \in BOOLEAN
  BY DEF ButtonOK, DebounceOK
<1>5. state \in BOOLEAN /\ (settling <= 1 => state = held)
  BY <1>3, <1>4
<1>6. CASE Pressed(state)
  <2>0. button_debounce_cnt = 0 /\ state /\ ~last_button_state
    BY <1>6 DEF Pressed
  <2>a. ~held => settling > 1
    BY <1>4, <1>5, <2>0
  <2>b. taken # 1
    BY <1>1, <1>4, <2>0, <2>a DEF ButtonOK, DebounceOK
  <2>1. taken = 0 /\ button_debounce_cnt = 0 /\ state /\ (~held => settling > 1)
    BY <1>4, <2>0, <2>a, <2>b
  <2>2. (mouse_mode + 1) % 3 \in 0 .. 2
    BY <1>4
  <2>3. DebounceOK'
    BY <1>1, <1>3, <1>4, <1>6, <2>1 DEF DebounceOK
  <2>4. RestOK'
    BY <1>1, <1>2, <1>3, <1>4, <1>6, <2>1 DEF RestOK, ButtonOK
  <2> QED BY <1>1, <1>2, <1>3, <1>4, <1>5, <1>6, <2>1, <2>2, <2>3, <2>4 DEF ButtonOK
<1>7. CASE ~Pressed(state)
  <2>1. DebounceOK'
    BY <1>1, <1>3, <1>4, <1>5, <1>7 DEF DebounceOK, ButtonOK
  <2>2. RestOK'
    BY <1>1, <1>2, <1>3, <1>4, <1>5, <1>7 DEF RestOK, ButtonOK, Pressed
  <2> QED BY <1>1, <1>2, <1>3, <1>4, <1>5, <1>7, <2>1, <2>2 DEF ButtonOK
<1> QED BY <1>6, <1>7

\* The user presses it.
LEMMA PressButtonOK ==
    ASSUME ButtonOK, PressButton
    PROVE  ButtonOK'
<1>1. /\ ~held /\ settling = 0 /\ held' = TRUE /\ settling' = BounceTurns + 1 /\ taken' = 0
      /\ early' = (released < RestTurns)
      /\ UNCHANGED <<mouse_mode, button_debounce_cnt, last_button_state, released, due>>
  BY DEF PressButton
<1>2. BounceTurns \in Nat /\ DebounceTurns \in Nat /\ RestTurns = DebounceTurns + BounceTurns
  BY MainLoopAssumption DEF RestTurns
<1>3. DebounceOK'
  BY <1>1 DEF DebounceOK
<1>4. ~early' => button_debounce_cnt = 0
  <2>1. button_debounce_cnt + released <= RestTurns
    BY <1>1 DEF ButtonOK, RestOK
  <2>2. button_debounce_cnt \in Nat /\ released \in Nat
    BY <1>2 DEF ButtonOK
  <2>3. ~(released < RestTurns) => button_debounce_cnt = 0
    BY <1>2, <2>1, <2>2
  <2> QED BY <1>1, <2>3, Zenon
<1>5. ~last_button_state /\ BounceTurns + 1 > 0
  BY <1>1, <1>2 DEF ButtonOK, RestOK
<1>6. RestOK'
  BY <1>1, <1>4, <1>5 DEF RestOK
<1>7. settling' \in 0 .. BounceTurns + 1 /\ taken' \in Nat
  BY <1>1, <1>2
<1>8. held' \in BOOLEAN /\ early' \in BOOLEAN
  <2>1. released \in Nat /\ RestTurns \in Nat
    BY <1>2 DEF ButtonOK
  <2>2. (released < RestTurns) \in BOOLEAN
    BY <2>1, SMT
  <2> QED BY <1>1, <2>2, Zenon
<1> QED BY <1>1, <1>3, <1>6, <1>7, <1>8 DEF ButtonOK, RestTurns

\* The user lets go of it.
LEMMA ReleaseButtonOK ==
    ASSUME ButtonOK, ReleaseButton
    PROVE  ButtonOK'
<1>1. /\ held /\ settling = 0 /\ held' = FALSE /\ settling' = BounceTurns + 1 /\ released' = 0
      /\ UNCHANGED <<mouse_mode, button_debounce_cnt, last_button_state, taken, early, due>>
  BY DEF ReleaseButton
<1>2. /\ BounceTurns \in Nat /\ DebounceTurns \in Nat /\ RestTurns = DebounceTurns + BounceTurns
      /\ button_debounce_cnt \in 0 .. DebounceTurns /\ taken \in {0, 1}
  BY MainLoopAssumption DEF RestTurns, ButtonOK, DebounceOK
<1>3. taken = 1 => button_debounce_cnt + BounceTurns >= DebounceTurns
  BY <1>1 DEF ButtonOK, DebounceOK
<1>4. DebounceOK'
  BY <1>1, <1>2, <1>3 DEF DebounceOK
<1>5. RestOK'
  BY <1>1, <1>2 DEF RestOK
<1>6. settling' \in 0 .. BounceTurns + 1 /\ released' \in 0 .. RestTurns
  BY <1>1, <1>2
<1> QED BY <1>1, <1>4, <1>5, <1>6 DEF ButtonOK, RestTurns
-----------------------------------------------------------------------------
(* The main loop                                                           *)

\* Every pattern that is asked for is one.
LEMMA Patterns == {"k1Short", "k2Long", "k3Short", "kMorseR"} \subseteq DOMAIN Variants
  BY MainLoopAssumption

\* Nothing is shown and the button has rested when the adapter is switched on.
LEMMA InitInv == Init => IInv
<1> SUFFICES ASSUME Init PROVE IInv
  OBVIOUS
<1>1. LedTypeOK /\ LedOK
  <2>1. /\ view \in DOMAIN Variants /\ it = 1 /\ wait_until_ms = 0 /\ now \in Time /\ since = 0
        /\ ~active /\ active \in BOOLEAN /\ wrapped \in BOOLEAN /\ current_state \in BOOLEAN
    BY DEF Init, LedInit
  <2>2. Len(Variants[view]) \in Nat
    BY <2>1, LedPatternAssumption
  <2>3. 0 \in Time
    BY <2>1, LedPatternAssumption DEF Time
  <2>4. it \in 1 .. Len(Variants[view]) + 1
    BY <2>1, <2>2
  <2> QED BY <2>1, <2>3, <2>4 DEF LedTypeOK, LedOK
<1>2. ButtonOK
  <2>1. /\ mouse_mode \in 0 .. 2 /\ button_debounce_cnt = 0 /\ ~last_button_state /\ ~held
        /\ settling = 0 /\ taken = 0 /\ released = RestTurns
        /\ last_button_state \in BOOLEAN /\ held \in BOOLEAN /\ early \in BOOLEAN /\ due \in BOOLEAN
    BY DEF Init
  <2>2. BounceTurns \in Nat /\ DebounceTurns \in Nat /\ RestTurns \in Nat
    BY MainLoopAssumption DEF RestTurns
  <2>3. DebounceOK /\ RestOK
    BY <2>1, <2>2 DEF DebounceOK, RestOK
  <2> QED BY <2>1, <2>2, <2>3 DEF ButtonOK
<1> QED BY <1>1, <1>2, Split

\* Every step keeps the invariant, and the times.
LEMMA Step == IInv /\ [Next]_vars => IInv' /\ TimeKept
<1>a. LedTypeOK' /\ LedOK' /\ ButtonOK' => IInv'
  BY DEF IInv, TypeOK, ButtonOK
<1> SUFFICES ASSUME IInv, [Next]_vars PROVE LedTypeOK' /\ LedOK' /\ ButtonOK' /\ TimeKept
  BY <1>a
<1>0. LedTypeOK /\ LedOK /\ ButtonOK
  BY Split
<1>1. ASSUME UNCHANGED <<mouse_mode, button>>, due' \in BOOLEAN PROVE ButtonOK'
  BY <1>0, <1>1 DEF ButtonOK, DebounceOK, RestOK, button
<1>2. ASSUME UNCHANGED <<led, now>> PROVE LedTypeOK' /\ LedOK' /\ TimeKept
  BY <1>0, <1>2 DEF led, LedTypeOK, LedOK, Current, TimeKept
<1>3. CASE DeviceFound
  BY <1>0, <1>1, <1>3, Patterns, SetPatternOK DEF DeviceFound, ButtonOK
<1>4. CASE Swapped
  BY <1>0, <1>1, <1>4, Patterns, SetPatternOK DEF Swapped, ButtonOK
<1>5. CASE PipelineRun
  BY <1>0, <1>1, <1>5, RunLedOK DEF PipelineRun
<1>6. CASE ReadButton
  <2>1. CASE UNCHANGED led
    BY <1>0, <1>2, <1>6, <2>1, ReadButtonOK DEF ReadButton
  <2>2. CASE CycleMouseMode
    <3>1. mouse_mode' \in 0 .. 2 /\ SetPattern(ModePattern[mouse_mode']) /\ now' = now
      BY <1>0, <1>6, <2>2 DEF CycleMouseMode, ReadButton, ButtonOK
    <3>2. ModePattern[mouse_mode'] \in DOMAIN Variants
      BY <3>1, Patterns DEF ModePattern
    <3> QED BY <1>0, <1>6, <3>1, <3>2, SetPatternOK, ReadButtonOK
  <2> QED BY <1>6, <2>1, <2>2 DEF ReadButton
<1>7. CASE PressButton
  BY <1>0, <1>2, <1>7, PressButtonOK DEF PressButton
<1>8. CASE ReleaseButton
  BY <1>0, <1>2, <1>8, ReleaseButtonOK DEF ReleaseButton
<1>9. CASE Tick
  BY <1>0, <1>1, <1>9, TickLedOK DEF Tick
<1>10. CASE UNCHANGED vars
  BY <1>0, <1>1, <1>2, <1>10 DEF vars, ButtonOK
<1> QED BY <1>3, <1>4, <1>5, <1>6, <1>7, <1>8, <1>9, <1>10 DEF Next

\* The invariant holds in every reachable state.
LEMMA Invariance == Spec => []IInv
<1>1. IInv /\ [Next]_vars => IInv'
  BY Step
<1> QED BY InitInv, <1>1, PTL DEF Spec

\* TypeCorrect: type correctness of LED and button.
THEOREM TypeCorrect == Spec => []TypeOK
<1>1. IInv => TypeOK
  BY DEF IInv
<1> QED BY Invariance, <1>1, PTL

\* OncePerPressAlways: if the button bounces for less than half of the debouncing on
\* either side, a press changes the mode once at most (main).
THEOREM OncePerPressAlways == Spec => []OncePerPress
<1>1. IInv => OncePerPress
  BY DEF IInv, DebounceOK, OncePerPress
<1> QED BY Invariance, <1>1, PTL

\* PressTakenAlways: a press that does not follow the last too early changes the mode (main).
THEOREM PressTakenAlways == Spec => []PressTaken
<1>1. IInv => PressTaken
  BY DEF IInv, DebounceOK, RestOK, PressTaken, TypeOK
<1> QED BY Invariance, <1>1, PTL

\* TimesKeptAlways: no time of a pattern is cut short, whatever is asked for, unless the
\* clock overflows in it (LedPatternGenerator::run, set_pattern).
THEOREM TimesKeptAlways == Spec => TimesKept
<1>1. IInv /\ [Next]_vars =>
        [active /\ ~wrapped /\ <<view, it>>' # <<view, it>> => since >= Variants[view][it]]_vars
  BY Step DEF TimeKept
<1> QED BY Invariance, <1>1, PTL DEF Spec, TimesKept
=============================================================================
