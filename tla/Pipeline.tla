------------------------------ MODULE Pipeline ------------------------------
(***************************************************************************)
(* From the reports of the devices to the levels of the two controller     *)
(* ports: the two JoystickMouseSwitchers, behind each of them a            *)
(* MouseModeSwitcher with its current mouse and a GamePadFeatures, and the *)
(* two PortSwitchers they write to.  Each switcher sends either its mouse  *)
(* or its game pad to its port; which one, which physical port it is, and  *)
(* which mouse is emulated change while devices keep reporting, and every  *)
(* change has to leave the GPIOs with one owner.                           *)
(*                                                                         *)
(* One call from the main loop is one action; Pipeline::run calls the run  *)
(* of the mouse switcher and then that of the joystick switcher, and those *)
(* are two actions between which no callback comes (turn).                 *)
(*                                                                         *)
(* Abstractions.  Time: that more than auto_fire_period_, kSwapHoldDuration*)
(* or an update period has passed is a choice of the run that asks.  The   *)
(* lines that an update of the quadrature encoders or a wheel pulse sets   *)
(* are chosen from Motion, and the phase of auto fire is a choice.         *)
(***************************************************************************)
EXTENDS Naturals

CONSTANTS PadReport,              \* per switcher, the reports its game pad sends: what is pressed
          MouseReport,            \* per switcher, those of its mouse: [buttons, fast]
          Motion,                 \* lines that movement of a mouse may activate
          WheelBusMouse,          \* CONFIG_DISABLE_AMIGA_WHEELBUSMOUSE == 0
          Swap2Button,            \* CONFIG_SWAP2BUTTON == 1
          kJoystickSwapThreshold  \* ticks of the swap button until a swap (7)

Switcher == {"mouseSw", "joySw"}
ReportType == {"kMouse", "kGamePad"}
Port == {"right", "left"}

Direction == {"up", "down", "left", "right"}
Pot == {"fire2", "fire3"}                    \* the lines of POTX and POTY
Line == Direction \cup Pot \cup {"fire1"}
PadButton == Direction \cup {"fire", "sec_fire", "third_fire", "auto_fire", "joystick_swap"}
MouseButton == {"left", "right", "middle"}

\* last_out_state_.all_buttons = 0xff sets a bit that no output has.
AllBits == Line \cup {"bit7"}

ASSUME PipelineAssumption ==
    /\ PadReport \in [Switcher -> SUBSET (SUBSET PadButton)]
    /\ \A s \in Switcher : MouseReport[s] \subseteq [buttons : SUBSET MouseButton, fast : BOOLEAN]
    /\ Motion \subseteq Direction
    /\ WheelBusMouse \in BOOLEAN
    /\ Swap2Button \in BOOLEAN
    /\ kJoystickSwapThreshold \in Nat \ {0}

VARIABLES
    active,          \* active_ of each JoystickMouseSwitcher
    mouse_mode,      \* 0 Amiga, 1 Atari ST, 2 C1351; c64_mode_ is mouse_mode = 2
    mux,             \* the output side, see MuxType
    in_state,        \* in_state_ of each GamePadFeatures
    swap_cnt,        \* joystick_swap_cnt_, counted up to one past the threshold
    final_cart_hack, \* final_cart_hack_active_
    mouse_state,     \* state_ (and last_state_) of each switcher's current mouse
    wheel_state,     \* wheel_state_ of the mouse switcher's AmigaMouse
    swap_pressed,    \* swap_combination_pressed_ of each MouseModeSwitcher
    swap_performed,  \* swap_performed_
    turn             \* whose run comes next

vars == <<active, mouse_mode, mux, in_state, swap_cnt, final_cart_hack,
          mouse_state, wheel_state, swap_pressed, swap_performed, turn>>

\* port: the target_ of the switcher's PortSwitcher.  pins: the level the SIO
\* drives, per line.  pio: the pot lines of the port are driven by the PIO.
\* last: last_out_state_ of the switcher's GamePadFeatures.  sm: the port whose
\* pair of state machines the switcher's C1351Converter uses, or "none" (-1).
MuxType == [port : {[s \in Switcher |-> IF s = "mouseSw" THEN "right" ELSE "left"],
                    [s \in Switcher |-> IF s = "mouseSw" THEN "left" ELSE "right"]},
            pins : [Port -> SUBSET Line],
            pio : [Port -> BOOLEAN],
            last : [Switcher -> SUBSET AllBits],
            sm : [Switcher -> Port \cup {"none"}]]

TypeOK == /\ active \in [Switcher -> ReportType]
          /\ mouse_mode \in 0 .. 2
          /\ mux \in MuxType
          /\ in_state \in [Switcher -> SUBSET PadButton]
          /\ swap_cnt \in [Switcher -> 0 .. kJoystickSwapThreshold + 1]
          /\ final_cart_hack \in [Switcher -> BOOLEAN]
          /\ mouse_state \in [Switcher -> SUBSET Line]
          /\ wheel_state \in SUBSET Direction
          /\ swap_pressed \in [Switcher -> BOOLEAN]
          /\ swap_performed \in [Switcher -> BOOLEAN]
          /\ turn \in Switcher

Other(s) == IF s = "mouseSw" THEN "joySw" ELSE "mouseSw"
-----------------------------------------------------------------------------
(***************************************************************************)
(* The output side: m is a value of mux.                                   *)
(***************************************************************************)

\* All lines of port p become SIO outputs at level 0 (gpio_init, gpio_put).
ConfigureGpios(m, p) == [m EXCEPT !.pins[p] = {}, !.pio[p] = FALSE]

SetPortState(m, p, lines) == [m EXCEPT !.pins[p] = lines]

\* last_out_state_ of the switcher's game pad
SetLast(m, s, bits) == [m EXCEPT !.last[s] = bits]

\* Mutant of EnsureJoystickMuxing: the outputs stay as they are.
EnsureJoystickUnconfigured(m, s) == SetLast(m, s, AllBits)

\* Mutant of EnsureJoystickMuxing: the next state is compared with a stale one.
EnsureJoystickStale(m, s) == ConfigureGpios(m, m.port[s])

\* GamePadFeatures::ensure_joystick_muxing
EnsureJoystickMuxing(m, s) == SetLast(ConfigureGpios(m, m.port[s]), s, AllBits)

\* QuadratureMouse::ensure_mouse_muxing.  Only the AmigaMouse (mode 0) of the
\* mouse switcher has a wheel_target_, the port of the joystick switcher.
HasWheel(s, mode) == WheelBusMouse /\ s = "mouseSw" /\ mode = 0

QuadratureMuxing(m, s, mode) ==
    IF HasWheel(s, mode)
    THEN ConfigureGpios(ConfigureGpios(m, m.port[s]), m.port["joySw"])
    ELSE ConfigureGpios(m, m.port[s])

\* C1351Converter::ensure_mouse_muxing: only the pot lines change hands.
C1351Muxing(m, s) == [m EXCEPT !.sm[s] = m.port[s], !.pio[m.port[s]] = TRUE]

\* Mutant of EnsureMouseMuxing: a mouse takes over without set-up.
EnsureMouseNothing(m, s, mode) == m

\* MouseModeSwitcher::ensure_mouse_muxing
EnsureMouseMuxing(m, s, mode) ==
    IF mode = 2 THEN C1351Muxing(m, s) ELSE QuadratureMuxing(m, s, mode)

\* JoystickMouseSwitcher::ensure_muxing
EnsureMuxing(m, s, act, mode) ==
    IF act[s] = "kMouse" THEN EnsureMouseMuxing(m, s, mode) ELSE EnsureJoystickMuxing(m, s)

\* The order of swap_callback, cycle_mouse_mode and the constructor.
EnsureBoth(m, act, mode) ==
    EnsureMuxing(EnsureMuxing(m, "joySw", act, mode), "mouseSw", act, mode)

\* PortSwitcher::swap
SwapPorts(m) == [m EXCEPT !.port = [s \in Switcher |-> m.port[Other(s)]]]

\* Mutant of SwapCallback: the switchers do not learn of the swap.
SwapUnmuxed(m) == SwapPorts(m)

\* Pipeline::swap_callback
SwapCallback(m) == EnsureBoth(SwapPorts(m), active, mouse_mode)

\* What set_mode and set_c64_mode do to it: new converters have no state
\* machines yet, and game pads write their state again.
SetModes(m) == [m EXCEPT !.sm = [s \in Switcher |-> "none"],
                         !.last = [s \in Switcher |-> AllBits]]
-----------------------------------------------------------------------------
\* The constructor; the mode comes from flash.
Init == /\ active = [s \in Switcher |-> IF s = "mouseSw" THEN "kMouse" ELSE "kGamePad"]
        /\ mouse_mode \in 0 .. 2
        /\ mux = EnsureBoth([port |-> [s \in Switcher |-> IF s = "mouseSw" THEN "right" ELSE "left"],
                             pins |-> [p \in Port |-> {}],
                             pio |-> [p \in Port |-> FALSE],
                             last |-> [s \in Switcher |-> AllBits],
                             sm |-> [s \in Switcher |-> "none"]], active, mouse_mode)
        /\ in_state = [s \in Switcher |-> {}]
        /\ swap_cnt = [s \in Switcher |-> 0]
        /\ final_cart_hack = [s \in Switcher |-> FALSE]
        /\ mouse_state = [s \in Switcher |-> {}]
        /\ wheel_state = {}
        /\ swap_pressed = [s \in Switcher |-> FALSE]
        /\ swap_performed = [s \in Switcher |-> FALSE]
        /\ turn = "mouseSw"
-----------------------------------------------------------------------------
(***************************************************************************)
(* Reports, delivered by callbacks.                                        *)
(***************************************************************************)

\* JoystickMouseSwitcher::process_gamepad_report and, if the pad is active,
\* GamePadFeatures::process_gamepad_report
GamepadReport(s, r) ==
    LET takeover == r # {} /\ active[s] # "kGamePad"
    IN  /\ turn = "mouseSw"
        /\ active' = IF takeover THEN [active EXCEPT ![s] = "kGamePad"] ELSE active
        /\ mux' = IF takeover THEN EnsureJoystickMuxing(mux, s) ELSE mux
        /\ IF active'[s] = "kGamePad"
           THEN /\ in_state' = [in_state EXCEPT ![s] = r]
                /\ final_cart_hack' =
                     [final_cart_hack EXCEPT ![s] = @ /\ r \cap {"sec_fire", "third_fire"} = {}]
           ELSE UNCHANGED <<in_state, final_cart_hack>>
        /\ UNCHANGED <<mouse_mode, swap_cnt, mouse_state, wheel_state,
                       swap_pressed, swap_performed, turn>>

SwapCombi(buttons) == (IF Swap2Button THEN {"left", "right"} ELSE MouseButton) \subseteq buttons

\* The lines the buttons of a mouse activate: C1351Converter, QuadratureMouse.
ButtonLines(buttons, mode) ==
    IF mode = 2
    THEN {l \in {"fire1", "up", "down"} :
            \/ l = "fire1" /\ "left" \in buttons
            \/ l = "up" /\ "right" \in buttons
            \/ l = "down" /\ "middle" \in buttons}
    ELSE {l \in {"fire1", "fire2", "fire3"} :
            \/ l = "fire1" /\ "left" \in buttons
            \/ l = "fire2" /\ "right" \in buttons
            \/ l = "fire3" /\ "middle" \in buttons}

\* The lines that only run changes: wheel pulses, or the quadrature signals.
RunLines(mode) == IF mode = 2 THEN {"left", "right"} ELSE Direction

\* set_port_state is called when the state of the mouse differs from the last.
WriteIfChanged(m, s, old, new) == IF new = old THEN m ELSE SetPortState(m, m.port[s], new)

\* JoystickMouseSwitcher::process_mouse_report and, if the mouse is active,
\* MouseModeSwitcher::process_mouse_report with the current mouse's, and the
\* Final Cartridge hack of the other switcher's game pad
MouseReportReceived(s, r) ==
    LET takeover == (r.fast \/ r.buttons # {}) /\ active[s] # "kMouse"
        muxed == IF takeover THEN EnsureMouseMuxing(mux, s, mouse_mode) ELSE mux
        new == ButtonLines(r.buttons, mouse_mode) \cup (mouse_state[s] \cap RunLines(mouse_mode))
        combi == SwapCombi(r.buttons)
    IN  /\ turn = "mouseSw"
        /\ active' = IF takeover THEN [active EXCEPT ![s] = "kMouse"] ELSE active
        /\ IF active'[s] = "kMouse"
           THEN /\ mux' = WriteIfChanged(muxed, s, mouse_state[s], new)
                /\ mouse_state' = [mouse_state EXCEPT ![s] = new]
                /\ swap_pressed' = [swap_pressed EXCEPT ![s] = combi]
                /\ swap_performed' = [swap_performed EXCEPT ![s] = @ /\ ~(combi /\ ~swap_pressed[s])]
                /\ final_cart_hack' = [final_cart_hack EXCEPT ![Other(s)] = TRUE]
           ELSE UNCHANGED <<mux, mouse_state, swap_pressed, swap_performed, final_cart_hack>>
        /\ UNCHANGED <<mouse_mode, in_state, swap_cnt, wheel_state, turn>>
-----------------------------------------------------------------------------
(***************************************************************************)
(* Pipeline::run, one switcher at a time.                                  *)
(***************************************************************************)

\* The state GamePadFeatures::run puts out; auto is auto_fire_state_.
PadOut(s, auto) ==
    {l \in Line :
        \/ l \in Direction /\ l \in in_state[s]
        \/ /\ l = "fire1"
           /\ IF "auto_fire" \in in_state[s] THEN auto ELSE "fire" \in in_state[s]
        \/ /\ l = "fire2"
           /\ IF mouse_mode = 2 THEN ~final_cart_hack[s] /\ "sec_fire" \notin in_state[s]
                                ELSE "sec_fire" \in in_state[s]
        \/ /\ l = "fire3"
           /\ IF mouse_mode = 2 THEN ~final_cart_hack[s] /\ "third_fire" \notin in_state[s]
                                ELSE "third_fire" \in in_state[s]}

\* The output is written if it differs from the one written last.
WritePad(m, s, out) ==
    IF m.last[s] = out THEN m
    ELSE SetPortState(SetLast(m, s, out), m.port[s], out)

\* joystick_swap_cnt_ after a tick of the auto fire period
NextSwapCnt(s) ==
    IF "joystick_swap" \notin in_state[s] THEN 0
    ELSE IF swap_cnt[s] > kJoystickSwapThreshold THEN swap_cnt[s]
    ELSE swap_cnt[s] + 1

\* GamePadFeatures::run
RunGamepad(s) ==
    /\ turn = s
    /\ active[s] = "kGamePad"
    /\ \E tick \in BOOLEAN, auto \in BOOLEAN :
          LET cnt == IF tick THEN NextSwapCnt(s) ELSE swap_cnt[s]
              swaps == cnt # swap_cnt[s] /\ cnt = kJoystickSwapThreshold
          IN  /\ swap_cnt' = [swap_cnt EXCEPT ![s] = cnt]
              /\ mux' = WritePad(IF swaps THEN SwapCallback(mux) ELSE mux, s, PadOut(s, auto))
    /\ turn' = Other(s)
    /\ UNCHANGED <<active, mouse_mode, in_state, final_cart_hack, mouse_state,
                   wheel_state, swap_pressed, swap_performed>>

\* The states a mouse's run may leave: the lines of a quadrature mouse follow
\* its encoders; a C1351 pulses one line for the wheel and releases it again.
MouseStates(s) ==
    LET kept == mouse_state[s] \ RunLines(mouse_mode)
    IN  IF mouse_mode # 2 THEN {kept \cup lines : lines \in SUBSET Motion}
        ELSE IF mouse_state[s] = kept
        THEN {kept} \cup {kept \cup {l} : l \in Motion \cap {"left", "right"}}
        ELSE {kept, mouse_state[s]}

\* MouseModeSwitcher::run with the run of the current mouse
RunMouse(s) ==
    /\ turn = s
    /\ active[s] = "kMouse"
    /\ \E held \in BOOLEAN, new \in MouseStates(s),
          wheel \in IF HasWheel(s, mouse_mode) THEN SUBSET (Motion \cap {"up", "left"})
                                               ELSE {wheel_state} :
          LET swaps == swap_pressed[s] /\ ~swap_performed[s] /\ held
              muxed == WriteIfChanged(IF swaps THEN SwapCallback(mux) ELSE mux,
                                      s, mouse_state[s], new)
          IN  /\ swap_performed' = [swap_performed EXCEPT ![s] = @ \/ swaps]
              /\ mouse_state' = [mouse_state EXCEPT ![s] = new]
              /\ wheel_state' = wheel
              /\ mux' = WriteIfChanged(muxed, "joySw", wheel_state, wheel)
    /\ turn' = Other(s)
    /\ UNCHANGED <<active, mouse_mode, in_state, swap_cnt, final_cart_hack, swap_pressed>>

\* Pipeline::cycle_mouse_mode, called by the main loop for the user button
CycleMouseMode ==
    /\ turn = "mouseSw"
    /\ mouse_mode' = (mouse_mode + 1) % 3
    /\ mux' = EnsureBoth(SetModes(mux), active, mouse_mode')
    /\ mouse_state' = [s \in Switcher |-> {}]
    /\ wheel_state' = {}
    /\ UNCHANGED <<active, in_state, swap_cnt, final_cart_hack, swap_pressed,
                   swap_performed, turn>>

Run(s) == RunGamepad(s) \/ RunMouse(s)

Next == \/ \E s \in Switcher : \E r \in PadReport[s] : GamepadReport(s, r)
        \/ \E s \in Switcher : \E r \in MouseReport[s] : MouseReportReceived(s, r)
        \/ \E s \in Switcher : RunGamepad(s)
        \/ \E s \in Switcher : RunMouse(s)
        \/ CycleMouseMode

Spec == Init /\ [][Next]_vars

\* The main loop keeps calling Pipeline::run.
FairSpec == Spec /\ \A s \in Switcher : WF_vars(Run(s))
-----------------------------------------------------------------------------
\* PotOwner: the pot lines of a port are driven by the PIO exactly while a mouse
\* in C1351 mode is active on that port, whatever sequence of takeovers, swaps
\* and mode changes led there ("Also ensures that GPIOs are correctly mixed",
\* swap_callback).
PotOwner ==
    \A s \in Switcher :
        mux.pio[mux.port[s]] <=> (active[s] = "kMouse" /\ mouse_mode = 2)

\* SmAssigned: an active C1351 converter uses the state machines of the port its
\* switcher writes to; its run never touches machine -1 or those of the other
\* port (C1351Converter::run after set_mode, swap and takeover).
SmAssigned ==
    \A s \in Switcher :
        (active[s] = "kMouse" /\ mouse_mode = 2) => mux.sm[s] = mux.port[s]

\* PadCoherent: what an active game pad believes to have put out is what its
\* port shows, so skipping the write of an unchanged state is right; the wheel
\* bus mouse affects the other port, as its option says.
PadCoherent ==
    \A s \in Switcher :
        (/\ active[s] = "kGamePad"
         /\ mux.last[s] # AllBits
         /\ ~(WheelBusMouse /\ mouse_mode = 0 /\ s = "joySw"))
            => mux.pins[mux.port[s]] = mux.last[s]

\* QuadratureClean: on the port of an active Amiga or Atari ST mouse no line is
\* active that the mouse does not activate: nothing a game pad held before a
\* takeover, nor what the other switcher showed before a swap, stays behind.
QuadratureClean ==
    \A s \in Switcher :
        (/\ active[s] = "kMouse"
         /\ mouse_mode # 2
         /\ ~(WheelBusMouse /\ mouse_mode = 0 /\ s = "joySw"))
            => mux.pins[mux.port[s]] \subseteq mouse_state[s]

\* InputShown: the directions held on an active game pad get to its port unless
\* they change or a mouse takes over first, whatever swaps and mode changes
\* happen meanwhile (without the wheel bus mouse).
InputShown ==
    \A s \in Switcher : \A r \in PadReport[s] :
        (active[s] = "kGamePad" /\ in_state[s] = r)
            ~> (\/ active[s] # "kGamePad" \/ in_state[s] # r
                \/ mux.pins[mux.port[s]] \cap Direction = r \cap Direction)

\* MousePortClean: on the port of an active mouse no line driven by the SIO is
\* active that the mouse does not activate ("to configure the output circuitry
\* for mouse output", MouseReportProcessor::ensure_mouse_muxing).
MousePortClean ==
    \A s \in Switcher :
        (active[s] = "kMouse" /\ ~WheelBusMouse)
            => (mux.pins[mux.port[s]] \ (IF mux.pio[mux.port[s]] THEN Pot ELSE {}))
                 \subseteq mouse_state[s]
=============================================================================
