----------------------------- MODULE PadReports -----------------------------
(***************************************************************************)
(* What the handlers of the gamepads make of a report.  A report is the    *)
(* record of those fields of the handler's struct Report that it reads,    *)
(* with the fields of one bit that are set as the set pressed.  A          *)
(* GamepadReport is the set of its flags that are true.                    *)
(*                                                                         *)
(* The pads themselves are external: Sent is what one sends, by the        *)
(* comments of the structs, when its player holds it in some way.          *)
(***************************************************************************)
EXTENDS Integers

Direction == {"up", "down", "left", "right"}

\* The handlers of pads.
PadDriver == {"ps3", "ps4", "impact", "hizue", "switch_pro", "xbox_one", "xbox_360"}

\* The flags for which one of the bits is pressed that set them.
Flags(bits, pressed) == {f \in DOMAIN bits : bits[f] \cap pressed # {}}

\* Where an axis is beyond the threshold; y grows towards the direction high.
Beyond(x, y, center, threshold, low, high) ==
    {d \in Direction : \/ d = "left" /\ x < center - threshold
                       \/ d = "right" /\ x > center + threshold
                       \/ d = low /\ y < center - threshold
                       \/ d = high /\ y > center + threshold}

\* Axes of one byte, as the Sony pads and the DragonRise have them.
ByteAxes(x, y) == Beyond(x, y, 128, 64, "up", "down")

\* Axes of 16 bits, as the pads of Microsoft have them.
XboxAxes(x, y) == Beyond(x, y, 0, 16000, "down", "up")

\* Mutant of DirectionsOf: the hat is told apart one step later.
DirectionsTurned(hat, at) == {d \in Direction : (hat + 1) \in at[d]}

\* The directions of a hat, given the positions of it that each has.
DirectionsOf(hat, at) == {d \in Direction : hat \in at[d]}

\* GamepadReport::update_from_coolie_hat: 0 is released
FromCoolieHat(hat) ==
    DirectionsOf(hat, [up |-> {8, 1, 2}, right |-> {2, 3, 4}, down |-> {4, 5, 6}, left |-> {6, 7, 8}])

\* PS4DualShockHandler::update_from_dpad: 8 is released
FromDpad(hat) ==
    DirectionsOf(hat, [up |-> {0, 1, 7}, right |-> {2, 3, 1}, down |-> {4, 5, 3}, left |-> {6, 7, 5}])

DpadBits == [up |-> {"dpad_up"}, down |-> {"dpad_down"}, left |-> {"dpad_left"},
             right |-> {"dpad_right"}]
-----------------------------------------------------------------------------
\* process_report and report_received: the GamepadReport that each handler fills.
PS3(r) ==
    Flags([fire |-> {"button_square", "button_circle"}, sec_fire |-> {"button_cross"},
           third_fire |-> {"trigger_l1"}, auto_fire |-> {"button_triangle"},
           joystick_swap |-> {"button_select"}], r.pressed)
      \cup Flags(DpadBits, r.pressed) \cup ByteAxes(r.joy_left_x, r.joy_left_y)

PS4(r) ==
    Flags([fire |-> {"square", "circle"}, sec_fire |-> {"cross"}, auto_fire |-> {"triangle"},
           joystick_swap |-> {"share"}], r.pressed)
      \cup FromDpad(r.dpad) \cup ByteAxes(r.joy_left_x, r.joy_left_y)

Impact(r) ==
    Flags([fire |-> {"button_left", "button_right"}, sec_fire |-> {"button_bottom"},
           auto_fire |-> {"button_top"}, joystick_swap |-> {"button_select"}], r.pressed)
      \cup FromCoolieHat(r.coolie_hat)

Hizue(r) ==
    Flags([fire |-> {"button_y", "button_a"}, sec_fire |-> {"button_b"},
           auto_fire |-> {"button_x"}, joystick_swap |-> {"button_select"}], r.pressed)
      \cup ByteAxes(r.joy_rel_x, r.joy_rel_y)

SwitchPro(r) ==
    Flags([fire |-> {"y"}, sec_fire |-> {"x"}, auto_fire |-> {"b"},
           joystick_swap |-> {"minus"}], r.pressed)
      \cup Flags(DpadBits, r.pressed) \cup Beyond(r.leftHatX, r.leftHatY, 2048, 500, "down", "up")

XboxOne(r) ==
    Flags([fire |-> {"x", "b"}, sec_fire |-> {"a"}, auto_fire |-> {"y"},
           joystick_swap |-> {"back"}], r.pressed)
      \cup Flags(DpadBits, r.pressed) \cup XboxAxes(r.stick_left_x, r.stick_left_y)

Xbox360(r) ==
    Flags([fire |-> {"x", "b"}, sec_fire |-> {"a"}, third_fire |-> {"trigger_left"},
           auto_fire |-> {"y"}, joystick_swap |-> {"back"}], r.pressed)
      \cup Flags(DpadBits, r.pressed) \cup XboxAxes(r.stick_left_x, r.stick_left_y)

Gamepad(driver, r) ==
    CASE driver = "ps3" -> PS3(r)
      [] driver = "ps4" -> PS4(r)
      [] driver = "impact" -> Impact(r)
      [] driver = "hizue" -> Hizue(r)
      [] driver = "switch_pro" -> SwitchPro(r)
      [] driver = "xbox_one" -> XboxOne(r)
      [] driver = "xbox_360" -> Xbox360(r)
-----------------------------------------------------------------------------
\* The drivers whose pad has its D-pad in a hat, in axes, and in four bits.
HatPad == {"ps4", "impact"}
AxesPad == {"hizue"}
BitsPad == PadDriver \ (HatPad \cup AxesPad)

Button == {"west", "north", "east", "south", "select", "shoulder"}

\* A direction or none, as a D-pad or a stick is held.
Held == {D \in SUBSET Direction : ~({"up", "down"} \subseteq D) /\ ~({"left", "right"} \subseteq D)}

\* How a player holds a pad.
Press == [dpad : Held, stick : Held, buttons : SUBSET Button]

\* The bits of each button of a pad, "" where it has no bit that is read.
BitOf(driver) ==
    CASE driver = "ps3" ->
            [west |-> "button_square", north |-> "button_triangle", east |-> "button_circle",
             south |-> "button_cross", select |-> "button_select", shoulder |-> "trigger_l1"]
      [] driver = "ps4" ->
            [west |-> "square", north |-> "triangle", east |-> "circle", south |-> "cross",
             select |-> "share", shoulder |-> "l1"]
      [] driver = "impact" ->
            [west |-> "button_left", north |-> "button_top", east |-> "button_right",
             south |-> "button_bottom", select |-> "button_select", shoulder |-> "trigger_l1"]
      [] driver = "hizue" ->
            [west |-> "button_y", north |-> "button_x", east |-> "button_a",
             south |-> "button_b", select |-> "button_select", shoulder |-> "trigger_l"]
      [] driver = "switch_pro" ->
            [west |-> "y", north |-> "x", east |-> "a", south |-> "b", select |-> "minus",
             shoulder |-> "l"]
      [] driver = "xbox_one" ->
            [west |-> "x", north |-> "y", east |-> "b", south |-> "a", select |-> "back",
             shoulder |-> "bumper_left"]
      [] driver = "xbox_360" ->
            [west |-> "x", north |-> "y", east |-> "b", south |-> "a", select |-> "back",
             shoulder |-> "trigger_left"]

\* The steps of a hat, clockwise from the top.
Clockwise == <<{"up"}, {"up", "right"}, {"right"}, {"down", "right"},
               {"down"}, {"down", "left"}, {"left"}, {"up", "left"}>>

\* A hat whose first step has the number first.
Hat(D, first, released) ==
    IF D = {} THEN released ELSE first - 1 + CHOOSE i \in 1 .. 8 : Clockwise[i] = D

\* An axis that is held towards one end, the other or neither.
Axis(D, low, high, min, center, max) ==
    IF low \in D THEN min ELSE IF high \in D THEN max ELSE center

\* What a pad sends when it is held as p.
Sent(driver, p) ==
    LET bits == {BitOf(driver)[b] : b \in p.buttons}
                  \cup IF driver \in BitsPad
                       THEN UNION {DpadBits[d] : d \in p.dpad} ELSE {}
        x(min, center, max) == Axis(p.stick, "left", "right", min, center, max)
        y(low, high, min, center, max) == Axis(p.stick, low, high, min, center, max)
    IN  CASE driver = "ps3" ->
                [pressed |-> bits, joy_left_x |-> x(0, 128, 255),
                 joy_left_y |-> y("up", "down", 0, 128, 255)]
          [] driver = "ps4" ->
                [pressed |-> bits, dpad |-> Hat(p.dpad, 0, 8), joy_left_x |-> x(0, 128, 255),
                 joy_left_y |-> y("up", "down", 0, 128, 255)]
          [] driver = "impact" -> [pressed |-> bits, coolie_hat |-> Hat(p.dpad, 1, 0)]
          [] driver = "hizue" ->
                [pressed |-> bits, joy_rel_x |-> Axis(p.dpad, "left", "right", 0, 127, 255),
                 joy_rel_y |-> Axis(p.dpad, "up", "down", 0, 127, 255)]
          [] driver = "switch_pro" ->
                [pressed |-> bits, leftHatX |-> x(0, 2048, 4095),
                 leftHatY |-> y("down", "up", 0, 2048, 4095)]
          [] driver \in {"xbox_one", "xbox_360"} ->
                [pressed |-> bits, stick_left_x |-> x(-32768, 0, 32767),
                 stick_left_y |-> y("down", "up", -32768, 0, 32767)]
-----------------------------------------------------------------------------
\* The directions a player gives: the stick is "Converted to D-Pad"
\* (doc/button_layout.svg:90), but for the Impact and the DragonRise, whose handlers
\* read no stick.
Steered(driver, p) == p.dpad \cup IF driver \in {"impact", "hizue"} THEN {} ELSE p.stick

\* doc/button_layout.svg, the "Gamepad Layout" of doc/user_manual.md: what the buttons
\* are labelled with.
Drawn == [fire |-> {"west"}, sec_fire |-> {"north"}, auto_fire |-> {"south"},
          joystick_swap |-> {"select"}]

\* The same with the labels Secondary Fire and Auto Fire exchanged.
Exchanged == [Drawn EXCEPT !.sec_fire = {"south"}, !.auto_fire = {"north"}]

\* Buttons without a label, and the flags that they may set besides: "Add 3. Fire button
\* for more gamepads" (README.md:48).
Unlabelled == [fire |-> {"east"}, third_fire |-> {"shoulder"}]

\* For a pad that is held as p all that the labels say is handed on, and nothing else but
\* for buttons without one.
AsLabelled(labels, driver, p, handed) ==
    LET said == Steered(driver, p) \cup Flags(labels, p.buttons)
    IN  said \subseteq handed /\ handed \subseteq said \cup Flags(Unlabelled, p.buttons)
=============================================================================
