-------------------------- MODULE UsbDevices_proofs --------------------------
(***************************************************************************)
(* What every handler of a gamepad hands on is what its pad is held as, by *)
(* one of two labellings of the buttons, for every way to hold the D-pad   *)
(* and the stick and every set of buttons, and so it stays while devices   *)
(* come and go.  A device gets the driver that   *)
(* was written for it, is listened to until it is unplugged, and has the   *)
(* pause it needs between two commands.  A field of a mouse's report is    *)
(* read as the number that its bits are, wherever it begins and however    *)
(* long it is, and so every report of a mouse is handed on as what it says *)
(* by its descriptor.  Every variable keeps its type.                      *)
(***************************************************************************)
EXTENDS UsbDevices, FiniteSetTheorems, SequenceTheorems, WellFoundedInduction, TLAPS

-----------------------------------------------------------------------------
(* Directions                                                              *)

\* A direction of an axis comes out as it was held, wherever the axis rests, if the
\* thresholds lie between rest and ends: on a pad whose y grows upwards.
LEMMA UpwardsAsHeld ==
    ASSUME NEW D \in Held, NEW min \in Int, NEW rest \in Int, NEW max \in Int,
           NEW center \in Int, NEW threshold \in Int,
           min < center - threshold, center + threshold < max,
           center - threshold <= rest, rest <= center + threshold
    PROVE  Beyond(Axis(D, "left", "right", min, rest, max), Axis(D, "down", "up", min, rest, max),
                  center, threshold, "down", "up") = D
<1> DEFINE x == Axis(D, "left", "right", min, rest, max)
           y == Axis(D, "down", "up", min, rest, max)
           B == Beyond(x, y, center, threshold, "down", "up")
<1>1. D \subseteq Direction /\ ~({"up", "down"} \subseteq D) /\ ~({"left", "right"} \subseteq D)
  BY DEF Held
<1>2. /\ x < center - threshold <=> "left" \in D
      /\ x > center + threshold <=> "right" \in D
  BY <1>1 DEF Axis
<1>3. /\ y < center - threshold <=> "down" \in D
      /\ y > center + threshold <=> "up" \in D
  BY <1>1 DEF Axis
<1>4. ASSUME NEW d \in Direction PROVE d \in B <=> d \in D
  BY <1>2, <1>3 DEF Beyond, Direction
<1>5. B \subseteq Direction
  BY DEF Beyond
<1> QED BY <1>1, <1>4, <1>5

\* So it does on a pad whose y grows downwards.
LEMMA DownwardsAsHeld ==
    ASSUME NEW D \in Held, NEW min \in Int, NEW rest \in Int, NEW max \in Int,
           NEW center \in Int, NEW threshold \in Int,
           min < center - threshold, center + threshold < max,
           center - threshold <= rest, rest <= center + threshold
    PROVE  Beyond(Axis(D, "left", "right", min, rest, max), Axis(D, "up", "down", min, rest, max),
                  center, threshold, "up", "down") = D
<1> DEFINE x == Axis(D, "left", "right", min, rest, max)
           y == Axis(D, "up", "down", min, rest, max)
           B == Beyond(x, y, center, threshold, "up", "down")
<1>1. D \subseteq Direction /\ ~({"up", "down"} \subseteq D) /\ ~({"left", "right"} \subseteq D)
  BY DEF Held
<1>2. /\ x < center - threshold <=> "left" \in D
      /\ x > center + threshold <=> "right" \in D
  BY <1>1 DEF Axis
<1>3. /\ y < center - threshold <=> "up" \in D
      /\ y > center + threshold <=> "down" \in D
  BY <1>1 DEF Axis
<1>4. ASSUME NEW d \in Direction PROVE d \in B <=> d \in D
  BY <1>2, <1>3 DEF Beyond, Direction
<1>5. B \subseteq Direction
  BY DEF Beyond
<1> QED BY <1>1, <1>4, <1>5

\* The step of a hat is the number of the directions that it has.
LEMMA HatStep ==
    ASSUME NEW D \in Held, D # {}
    PROVE  \E i \in 1 .. 8 : /\ Clockwise[i] = D
                             /\ \A first, released : Hat(D, first, released) = first - 1 + i
<1>1. \E i \in 1 .. 8 : Clockwise[i] = D
  <2>1. D \subseteq Direction /\ ~({"up", "down"} \subseteq D) /\ ~({"left", "right"} \subseteq D)
    BY DEF Held
  <2>2. CASE "up" \in D
    <3>1. D = {"up"} \/ D = {"up", "right"} \/ D = {"up", "left"}
      BY <2>1, <2>2 DEF Direction
    <3> QED BY <3>1 DEF Clockwise
  <2>3. CASE "down" \in D
    <3>1. D = {"down"} \/ D = {"down", "right"} \/ D = {"down", "left"}
      BY <2>1, <2>3 DEF Direction
    <3> QED BY <3>1 DEF Clockwise
  <2>4. CASE "up" \notin D /\ "down" \notin D
    <3>1. D = {"right"} \/ D = {"left"}
      BY <2>1, <2>4 DEF Direction
    <3> QED BY <3>1 DEF Clockwise
  <2> QED BY <2>2, <2>3, <2>4
<1> DEFINE i == CHOOSE i \in 1 .. 8 : Clockwise[i] = D
<1>2. i \in 1 .. 8 /\ Clockwise[i] = D
  BY <1>1
<1>3. \A first, released : Hat(D, first, released) = first - 1 + i
  BY DEF Hat
<1> QED BY <1>2, <1>3

\* Which steps have a direction.
LEMMA StepsOf ==
    ASSUME NEW i \in 1 .. 8
    PROVE  /\ "up" \in Clockwise[i] <=> i \in {8, 1, 2}
           /\ "right" \in Clockwise[i] <=> i \in {2, 3, 4}
           /\ "down" \in Clockwise[i] <=> i \in {4, 5, 6}
           /\ "left" \in Clockwise[i] <=> i \in {6, 7, 8}
<1>1. \/ i = 1 \/ i = 2 \/ i = 3 \/ i = 4 \/ i = 5 \/ i = 6 \/ i = 7 \/ i = 8
  OBVIOUS
<1> QED BY <1>1 DEF Clockwise

\* A hat that counts from 1 comes out as it was held.
LEMMA CoolieHatAsHeld == ASSUME NEW D \in Held PROVE FromCoolieHat(Hat(D, 1, 0)) = D
<1>1. D \subseteq Direction
  BY DEF Held
<1>2. CASE D = {}
  BY <1>2 DEF Hat, FromCoolieHat, DirectionsOf, Direction
<1>3. CASE D # {}
  <2>1. PICK i \in 1 .. 8 : Clockwise[i] = D /\ Hat(D, 1, 0) = i
    BY <1>3, HatStep
  <2>2. ASSUME NEW d \in Direction PROVE d \in FromCoolieHat(i) <=> d \in D
    BY <2>1, StepsOf DEF FromCoolieHat, DirectionsOf, Direction
  <2>3. FromCoolieHat(i) \subseteq Direction
    BY DEF FromCoolieHat, DirectionsOf
  <2> QED BY <1>1, <2>1, <2>2, <2>3
<1> QED BY <1>2, <1>3

\* So does one that counts from 0.
LEMMA DpadAsHeld == ASSUME NEW D \in Held PROVE FromDpad(Hat(D, 0, 8)) = D
<1>1. D \subseteq Direction
  BY DEF Held
<1>2. CASE D = {}
  BY <1>2 DEF Hat, FromDpad, DirectionsOf, Direction
<1>3. CASE D # {}
  <2>1. PICK i \in 1 .. 8 : Clockwise[i] = D /\ Hat(D, 0, 8) = i - 1
    BY <1>3, HatStep
  <2>2. ASSUME NEW d \in Direction PROVE d \in FromDpad(i - 1) <=> d \in D
    BY <2>1, StepsOf DEF FromDpad, DirectionsOf, Direction
  <2>3. FromDpad(i - 1) \subseteq Direction
    BY DEF FromDpad, DirectionsOf
  <2> QED BY <1>1, <2>1, <2>2, <2>3
<1> QED BY <1>2, <1>3
-----------------------------------------------------------------------------
(* Buttons                                                                 *)

\* The bits that a pad sends for its buttons.
BitsFor(pad, p) == {BitOf(pad)[b] : b \in p.buttons}

DpadBitsFor(p) == UNION {DpadBits[d] : d \in p.dpad}

\* The D-pad's bits come out as they were held.
LEMMA DpadBitsAsHeld ==
    ASSUME NEW p \in Press, NEW pad \in BitsPad
    PROVE  Flags(DpadBits, BitsFor(pad, p) \cup DpadBitsFor(p)) = p.dpad
<1> DEFINE bits == BitsFor(pad, p) \cup DpadBitsFor(p)
<1>1. p.dpad \subseteq Direction /\ p.buttons \subseteq Button
  BY DEF Press, Held
<1>2. pad \in {"ps3", "switch_pro", "xbox_one", "xbox_360"}
  BY DEF BitsPad, PadDriver, HatPad, AxesPad
<1>3. BitsFor(pad, p) \cap {"dpad_up", "dpad_down", "dpad_left", "dpad_right"} = {}
  BY <1>1, <1>2 DEF BitsFor, BitOf, Button
<1>4. DOMAIN DpadBits = Direction
  BY DEF DpadBits, Direction
<1>5. ASSUME NEW d \in Direction PROVE DpadBits[d] \cap bits # {} <=> d \in p.dpad
  BY <1>1, <1>3, <1>5 DEF DpadBitsFor, DpadBits, Direction
<1> QED BY <1>1, <1>4, <1>5 DEF Flags

\* What each handler makes of the buttons, and of a pad that is held as p.
Meant(pad, p) ==
    Flags([fire |-> {"west", "east"}, sec_fire |-> {"south"}, auto_fire |-> {"north"},
           third_fire |-> IF pad \in {"ps3", "xbox_360"} THEN {"shoulder"} ELSE {},
           joystick_swap |-> {"select"}], p.buttons)

MeantByPro(p) ==
    Flags([fire |-> {"west"}, sec_fire |-> {"north"}, auto_fire |-> {"south"},
           joystick_swap |-> {"select"}], p.buttons)

Layout(pad, p) ==
    Steered(pad, p) \cup IF pad = "switch_pro" THEN MeantByPro(p) ELSE Meant(pad, p)

\* Every button that a handler reads has the meaning of its place.
LEMMA ButtonsMeant ==
    ASSUME NEW p \in Press, NEW pad \in PadDriver, NEW others,
           pad \in BitsPad => others = DpadBitsFor(p),
           pad \notin BitsPad => others = {}
    PROVE  LET bits == BitsFor(pad, p) \cup others
           IN  /\ "west" \in p.buttons <=> BitOf(pad).west \in bits
               /\ "north" \in p.buttons <=> BitOf(pad).north \in bits
               /\ "east" \in p.buttons <=> BitOf(pad).east \in bits
               /\ "south" \in p.buttons <=> BitOf(pad).south \in bits
               /\ "select" \in p.buttons <=> BitOf(pad).select \in bits
               /\ "shoulder" \in p.buttons <=> BitOf(pad).shoulder \in bits
<1> DEFINE dpads == {"dpad_up", "dpad_down", "dpad_left", "dpad_right"}
<1>1. p.dpad \subseteq Direction /\ p.buttons \subseteq Button
  BY DEF Press, Held
<1>2. others \subseteq dpads
  BY <1>1 DEF DpadBitsFor, DpadBits, Direction
<1>3. \A b \in Button : BitOf(pad)[b] \notin dpads
  BY DEF BitOf, Button, PadDriver
<1>4. \A b, c \in Button : BitOf(pad)[b] = BitOf(pad)[c] => b = c
  BY DEF BitOf, Button, PadDriver
<1>5. \A b \in Button : b \in p.buttons <=> BitOf(pad)[b] \in BitsFor(pad, p) \cup others
  BY <1>1, <1>2, <1>3, <1>4 DEF BitsFor
<1> QED BY <1>5 DEF Button
-----------------------------------------------------------------------------
(* The pads                                                                *)

\* Every stick, and the DragonRise's D-pad, comes out as it was held.
LEMMA Sticks ==
    ASSUME NEW D \in Held
    PROVE  /\ ByteAxes(Axis(D, "left", "right", 0, 128, 255),
                       Axis(D, "up", "down", 0, 128, 255)) = D
           /\ ByteAxes(Axis(D, "left", "right", 0, 127, 255),
                       Axis(D, "up", "down", 0, 127, 255)) = D
           /\ XboxAxes(Axis(D, "left", "right", -32768, 0, 32767),
                       Axis(D, "down", "up", -32768, 0, 32767)) = D
           /\ Beyond(Axis(D, "left", "right", 0, 2048, 4095),
                     Axis(D, "down", "up", 0, 2048, 4095), 2048, 500, "down", "up") = D
<1>1. Beyond(Axis(D, "left", "right", 0, 128, 255), Axis(D, "up", "down", 0, 128, 255),
             128, 64, "up", "down") = D
  BY DownwardsAsHeld
<1>2. Beyond(Axis(D, "left", "right", 0, 127, 255), Axis(D, "up", "down", 0, 127, 255),
             128, 64, "up", "down") = D
  BY DownwardsAsHeld
<1>3. Beyond(Axis(D, "left", "right", -32768, 0, 32767),
             Axis(D, "down", "up", -32768, 0, 32767), 0, 16000, "down", "up") = D
  BY UpwardsAsHeld
<1>4. Beyond(Axis(D, "left", "right", 0, 2048, 4095), Axis(D, "down", "up", 0, 2048, 4095),
             2048, 500, "down", "up") = D
  BY UpwardsAsHeld
<1> QED BY <1>1, <1>2, <1>3, <1>4 DEF ByteAxes, XboxAxes

\* The report of the PS3 pad is handed on as its layout.
LEMMA PS3Layout ==
    ASSUME NEW p \in Press
    PROVE  PS3(Sent("ps3", p)) = Layout("ps3", p)
<1> DEFINE r == Sent("ps3", p)
<1>1. p.dpad \in Held /\ p.stick \in Held
  BY DEF Press
<1>2. /\ r.pressed = BitsFor("ps3", p) \cup DpadBitsFor(p)
      /\ ByteAxes(r.joy_left_x, r.joy_left_y) = p.stick
  BY <1>1, Sticks DEF Sent, BitsFor, DpadBitsFor, BitsPad, PadDriver, HatPad, AxesPad
<1>3. Flags(DpadBits, r.pressed) = p.dpad
  BY <1>2, DpadBitsAsHeld DEF BitsPad, PadDriver, HatPad, AxesPad
<1>4. Flags([fire |-> {"button_square", "button_circle"}, sec_fire |-> {"button_cross"},
           third_fire |-> {"trigger_l1"}, auto_fire |-> {"button_triangle"},
           joystick_swap |-> {"button_select"}],
          r.pressed) = Meant("ps3", p)
  BY <1>2, ButtonsMeant DEF Flags, Meant, BitOf, BitsPad, PadDriver, HatPad, AxesPad
<1> QED BY <1>2, <1>3, <1>4 DEF PS3, Layout, Steered

\* The report of the PS4 DualShock pad is handed on as its layout.
LEMMA PS4Layout ==
    ASSUME NEW p \in Press
    PROVE  PS4(Sent("ps4", p)) = Layout("ps4", p)
<1> DEFINE r == Sent("ps4", p)
<1>1. p.dpad \in Held /\ p.stick \in Held
  BY DEF Press
<1>2. /\ r.pressed = BitsFor("ps4", p) \cup {}
      /\ ByteAxes(r.joy_left_x, r.joy_left_y) = p.stick
      /\ FromDpad(r.dpad) = p.dpad
  BY <1>1, Sticks, DpadAsHeld DEF Sent, BitsFor, BitsPad, PadDriver, HatPad, AxesPad
<1>3. Flags([fire |-> {"square", "circle"}, sec_fire |-> {"cross"}, auto_fire |-> {"triangle"},
           joystick_swap |-> {"share"}],
          r.pressed) = Meant("ps4", p)
  BY <1>2, ButtonsMeant DEF Flags, Meant, BitOf, BitsPad, PadDriver, HatPad, AxesPad
<1> QED BY <1>2, <1>3 DEF PS4, Layout, Steered

\* The report of the Impact pad is handed on as its layout.
LEMMA ImpactLayout ==
    ASSUME NEW p \in Press
    PROVE  Impact(Sent("impact", p)) = Layout("impact", p)
<1> DEFINE r == Sent("impact", p)
<1>1. p.dpad \in Held /\ p.stick \in Held
  BY DEF Press
<1>2. /\ r.pressed = BitsFor("impact", p) \cup {}
      /\ FromCoolieHat(r.coolie_hat) = p.dpad
  BY <1>1, CoolieHatAsHeld DEF Sent, BitsFor, BitsPad, PadDriver, HatPad, AxesPad
<1>3. Flags([fire |-> {"button_left", "button_right"}, sec_fire |-> {"button_bottom"},
           auto_fire |-> {"button_top"}, joystick_swap |-> {"button_select"}],
          r.pressed) = Meant("impact", p)
  BY <1>2, ButtonsMeant DEF Flags, Meant, BitOf, BitsPad, PadDriver, HatPad, AxesPad
<1> QED BY <1>2, <1>3 DEF Impact, Layout, Steered

\* The report of the DragonRise pad is handed on as its layout.
LEMMA HizueLayout ==
    ASSUME NEW p \in Press
    PROVE  Hizue(Sent("hizue", p)) = Layout("hizue", p)
<1> DEFINE r == Sent("hizue", p)
<1>1. p.dpad \in Held /\ p.stick \in Held
  BY DEF Press
<1>2. /\ r.pressed = BitsFor("hizue", p) \cup {}
      /\ ByteAxes(r.joy_rel_x, r.joy_rel_y) = p.dpad
  BY <1>1, Sticks DEF Sent, BitsFor, BitsPad, PadDriver, HatPad, AxesPad
<1>3. Flags([fire |-> {"button_y", "button_a"}, sec_fire |-> {"button_b"},
           auto_fire |-> {"button_x"}, joystick_swap |-> {"button_select"}],
          r.pressed) = Meant("hizue", p)
  BY <1>2, ButtonsMeant DEF Flags, Meant, BitOf, BitsPad, PadDriver, HatPad, AxesPad
<1> QED BY <1>2, <1>3 DEF Hizue, Layout, Steered

\* The report of the Switch Pro pad is handed on as its layout.
LEMMA SwitchProLayout ==
    ASSUME NEW p \in Press
    PROVE  SwitchPro(Sent("switch_pro", p)) = Layout("switch_pro", p)
<1> DEFINE r == Sent("switch_pro", p)
<1>1. p.dpad \in Held /\ p.stick \in Held
  BY DEF Press
<1>2. /\ r.pressed = BitsFor("switch_pro", p) \cup DpadBitsFor(p)
      /\ Beyond(r.leftHatX, r.leftHatY, 2048, 500, "down", "up") = p.stick
  BY <1>1, Sticks DEF Sent, BitsFor, DpadBitsFor, BitsPad, PadDriver, HatPad, AxesPad
<1>3. Flags(DpadBits, r.pressed) = p.dpad
  BY <1>2, DpadBitsAsHeld DEF BitsPad, PadDriver, HatPad, AxesPad
<1>4. Flags([fire |-> {"y"}, sec_fire |-> {"x"}, auto_fire |-> {"b"},
           joystick_swap |-> {"minus"}],
          r.pressed) = MeantByPro(p)
  BY <1>2, ButtonsMeant DEF Flags, MeantByPro, BitOf, BitsPad, PadDriver, HatPad, AxesPad
<1> QED BY <1>2, <1>3, <1>4 DEF SwitchPro, Layout, Steered

\* The report of the Xbox One pad is handed on as its layout.
LEMMA XboxOneLayout ==
    ASSUME NEW p \in Press
    PROVE  XboxOne(Sent("xbox_one", p)) = Layout("xbox_one", p)
<1> DEFINE r == Sent("xbox_one", p)
<1>1. p.dpad \in Held /\ p.stick \in Held
  BY DEF Press
<1>2. /\ r.pressed = BitsFor("xbox_one", p) \cup DpadBitsFor(p)
      /\ XboxAxes(r.stick_left_x, r.stick_left_y) = p.stick
  BY <1>1, Sticks DEF Sent, BitsFor, DpadBitsFor, BitsPad, PadDriver, HatPad, AxesPad
<1>3. Flags(DpadBits, r.pressed) = p.dpad
  BY <1>2, DpadBitsAsHeld DEF BitsPad, PadDriver, HatPad, AxesPad
<1>4. Flags([fire |-> {"x", "b"}, sec_fire |-> {"a"}, auto_fire |-> {"y"},
           joystick_swap |-> {"back"}],
          r.pressed) = Meant("xbox_one", p)
  BY <1>2, ButtonsMeant DEF Flags, Meant, BitOf, BitsPad, PadDriver, HatPad, AxesPad
<1> QED BY <1>2, <1>3, <1>4 DEF XboxOne, Layout, Steered

\* The report of the Xbox 360 pad is handed on as its layout.
LEMMA Xbox360Layout ==
    ASSUME NEW p \in Press
    PROVE  Xbox360(Sent("xbox_360", p)) = Layout("xbox_360", p)
<1> DEFINE r == Sent("xbox_360", p)
<1>1. p.dpad \in Held /\ p.stick \in Held
  BY DEF Press
<1>2. /\ r.pressed = BitsFor("xbox_360", p) \cup DpadBitsFor(p)
      /\ XboxAxes(r.stick_left_x, r.stick_left_y) = p.stick
  BY <1>1, Sticks DEF Sent, BitsFor, DpadBitsFor, BitsPad, PadDriver, HatPad, AxesPad
<1>3. Flags(DpadBits, r.pressed) = p.dpad
  BY <1>2, DpadBitsAsHeld DEF BitsPad, PadDriver, HatPad, AxesPad
<1>4. Flags([fire |-> {"x", "b"}, sec_fire |-> {"a"}, third_fire |-> {"trigger_left"},
           auto_fire |-> {"y"}, joystick_swap |-> {"back"}],
          r.pressed) = Meant("xbox_360", p)
  BY <1>2, ButtonsMeant DEF Flags, Meant, BitOf, BitsPad, PadDriver, HatPad, AxesPad
<1> QED BY <1>2, <1>3, <1>4 DEF Xbox360, Layout, Steered

\* Every handler makes of a pad what these say.
LEMMA GamepadIsLayout ==
    \A pad \in PadDriver, p \in Press : Gamepad(pad, Sent(pad, p)) = Layout(pad, p)
<1> SUFFICES ASSUME NEW pad \in PadDriver, NEW p \in Press
             PROVE  Gamepad(pad, Sent(pad, p)) = Layout(pad, p)
  OBVIOUS
<1>1. CASE pad = "ps3" BY <1>1, PS3Layout DEF Gamepad
<1>2. CASE pad = "ps4" BY <1>2, PS4Layout DEF Gamepad
<1>3. CASE pad = "impact" BY <1>3, ImpactLayout DEF Gamepad
<1>4. CASE pad = "hizue" BY <1>4, HizueLayout DEF Gamepad
<1>5. CASE pad = "switch_pro" BY <1>5, SwitchProLayout DEF Gamepad
<1>6. CASE pad = "xbox_one" BY <1>6, XboxOneLayout DEF Gamepad
<1>7. CASE pad = "xbox_360" BY <1>7, Xbox360Layout DEF Gamepad
<1> QED BY <1>1, <1>2, <1>3, <1>4, <1>5, <1>6, <1>7 DEF PadDriver

\* Of the two labellings a pad has one, and the Switch Pro alone has the one that is drawn.
LabelsOf(pad) == IF pad = "switch_pro" THEN Drawn ELSE Exchanged

\* The handlers' buttons are those labels, and what is added has none.
LEMMA LayoutAsLabelled ==
    ASSUME NEW pad \in PadDriver, NEW p \in Press
    PROVE  AsLabelled(LabelsOf(pad), pad, p, Layout(pad, p))
<1>1. CASE pad = "switch_pro"
  <2>1. MeantByPro(p) = Flags(LabelsOf(pad), p.buttons)
    BY <1>1 DEF MeantByPro, LabelsOf, Drawn
  <2> QED BY <1>1, <2>1 DEF AsLabelled, Layout
<1>2. CASE pad # "switch_pro"
  <2>1. LabelsOf(pad) = [fire |-> {"west"}, sec_fire |-> {"south"}, auto_fire |-> {"north"},
                         joystick_swap |-> {"select"}]
    BY <1>2 DEF LabelsOf, Drawn, Exchanged
  <2>2. Flags(LabelsOf(pad), p.buttons) \subseteq Meant(pad, p)
    BY <2>1 DEF Flags, Meant
  <2>3. Meant(pad, p) \subseteq Flags(LabelsOf(pad), p.buttons) \cup Flags(Unlabelled, p.buttons)
    BY <2>1 DEF Flags, Meant, Unlabelled
  <2> QED BY <1>2, <2>2, <2>3 DEF AsLabelled, Layout
<1> QED BY <1>1, <1>2

\* GamepadAsLabelled: each pad has one of the two labellings, and by it each way to hold
\* D-pad, stick and buttons, of the 2^6 * 9^2 that there are, is handed on (process_report
\* and report_received of the pads, doc/button_layout.svg).
THEOREM GamepadAsLabelled ==
    \A pad \in PadDriver : \E labels \in {Drawn, Exchanged} :
        \A p \in Press : AsLabelled(labels, pad, p, Gamepad(pad, Sent(pad, p)))
<1> SUFFICES ASSUME NEW pad \in PadDriver
             PROVE  \E labels \in {Drawn, Exchanged} :
                      \A p \in Press : AsLabelled(labels, pad, p, Gamepad(pad, Sent(pad, p)))
  OBVIOUS
<1>1. LabelsOf(pad) \in {Drawn, Exchanged}
  BY DEF LabelsOf
<1>2. \A p \in Press : AsLabelled(LabelsOf(pad), pad, p, Gamepad(pad, Sent(pad, p)))
  BY GamepadIsLayout, LayoutAsLabelled
<1> QED BY <1>1, <1>2

\* NeverOpposite: no pad makes the joystick point to opposite directions, unless its
\* D-pad and its stick are held against each other.
THEOREM NeverOpposite ==
    ASSUME NEW pad \in PadDriver, NEW p \in Press, p.dpad = {} \/ p.stick = {}
    PROVE  /\ ~({"up", "down"} \subseteq Gamepad(pad, Sent(pad, p)))
           /\ ~({"left", "right"} \subseteq Gamepad(pad, Sent(pad, p)))
<1>1. p.dpad \in Held /\ p.stick \in Held
  BY DEF Press
<1>2. Steered(pad, p) \in Held
  BY <1>1 DEF Steered, Held
<1>3. Meant(pad, p) \cap Direction = {} /\ MeantByPro(p) \cap Direction = {}
  BY DEF Meant, MeantByPro, Flags, Direction
<1>4. Layout(pad, p) \cap Direction = Steered(pad, p)
  BY <1>2, <1>3 DEF Layout, Held
<1>5. /\ ~({"up", "down"} \subseteq Layout(pad, p))
      /\ ~({"left", "right"} \subseteq Layout(pad, p))
  BY <1>2, <1>4 DEF Held, Direction
<1> QED BY <1>5, GamepadIsLayout
-----------------------------------------------------------------------------
(* A device and its driver                                                 *)

\* No ID is listed by two builders: find has the same result in every order of them.
LEMMA IdsDisjoint ==
    ASSUME NEW a \in DOMAIN BuilderIds, NEW b \in DOMAIN BuilderIds,
           NEW id, id \in BuilderIds[a], id \in BuilderIds[b]
    PROVE  a = b
<1>1. /\ BuilderIds.ps3 = {"054c:0268", "0810:0001"}
      /\ BuilderIds.ps4 = {"054c:05c4", "054c:09cc"}
      /\ BuilderIds.impact = {"07b5:0314"}
      /\ BuilderIds.hizue = {"0079:0011"}
      /\ BuilderIds.switch_pro = {"057e:2009"}
      /\ BuilderIds.mouse = {"0000:0000"}
      /\ DOMAIN BuilderIds = {"ps3", "ps4", "impact", "hizue", "switch_pro", "mouse"}
  BY DEF BuilderIds
<1> QED BY <1>1

\* The drivers that find can return.
LEMMA FoundDrivers == ASSUME NEW d PROVE Found(d) \subseteq PadDriver \cup {"mouse"}
<1>1. DOMAIN BuilderIds \subseteq PadDriver \cup {"mouse"}
  BY DEF BuilderIds, PadDriver
<1> QED BY <1>1 DEF Found

\* The drivers of vendor devices.
LEMMA VendorDrivers == ASSUME NEW d PROVE VendorDriver(d) \in PadDriver \cup {NoDriver}
<1> QED BY DEF VendorDriver, PadDriver

\* Of a HID device, find returns the driver that it was made for.
LEMMA FoundAsMade ==
    ASSUME NEW d, d.hid # <<>>, Identified(d)
    PROVE  IF Found(d) = {} THEN d.made_for = NoDriver ELSE Found(d) = {d.made_for}
<1> DEFINE matching == {b \in DOMAIN BuilderIds : d.id \in BuilderIds[b]}
<1>1. CASE matching = {}
  BY <1>1 DEF Found, Identified
<1>2. CASE matching # {}
  <2>1. \E b \in DOMAIN BuilderIds : d.id \in BuilderIds[b]
    BY <1>2
  <2>2. d.made_for \in matching
    BY <2>1 DEF Identified
  <2>3. matching = {d.made_for}
    BY <2>2, IdsDisjoint
  <2> QED BY <2>3, <1>2 DEF Found
<1> QED BY <1>1, <1>2

\* No driver works without a device, none is there before the device descriptor is, and
\* a report that was handed on is one of the driver there is.
Driven ==
    /\ device \in Devices \cup {NoDevice}
    /\ driver \in PadDriver \cup {"mouse", NoDriver}
    /\ device = NoDevice => ~asked /\ driver = NoDriver
    /\ asked => /\ driver = NoDriver /\ device.hid = <<>>
                /\ VendorDriver(device) # NoDriver
    /\ driver = NoDriver => press = NoPress

\* It holds to begin with.
LEMMA DrivenInit == Init => Driven
  BY DEF Init, Driven

\* Every step keeps it.
LEMMA DrivenNext == Driven /\ [Next]_vars => Driven'
<1> SUFFICES ASSUME Driven, [Next]_vars PROVE Driven'
  OBVIOUS
<1> USE UsbDevicesAssumption DEF Driven
<1>1. ASSUME NEW d \in Devices, HidMount(d) PROVE Driven'
  <2>1. driver' \in PadDriver \cup {"mouse", NoDriver} /\ press' = NoPress
    BY <1>1, FoundDrivers DEF HidMount, PlugIn
  <2> QED BY <1>1, <2>1 DEF HidMount, PlugIn
<1>2. ASSUME NEW d \in Devices, VendorMount(d) PROVE Driven'
  BY <1>2 DEF VendorMount, PlugIn
<1>3. CASE DeviceDescriptor
  BY <1>3, VendorDrivers DEF DeviceDescriptor
<1>4. ASSUME NEW r \in Reports, MouseReport(r) PROVE Driven'
  BY <1>4 DEF MouseReport, Completed
<1>5. ASSUME NEW p \in Presses, PadReport(p) PROVE Driven'
  <2>1. driver \in PadDriver
    BY <1>5 DEF PadReport, PadDriver
  <2>2. UNCHANGED <<device, driver, asked>>
    BY <1>5 DEF PadReport, Completed
  <2> QED BY <2>1, <2>2
<1>6. ASSUME NEW p \in Presses, XboxOneReport(p) PROVE Driven'
  <2>1. driver \in PadDriver
    BY <1>6 DEF XboxOneReport, PadDriver
  <2>2. UNCHANGED <<device, driver, asked>>
    BY <1>6 DEF XboxOneReport, Completed
  <2> QED BY <2>1, <2>2
<1>7. ASSUME NEW p \in Presses, Xbox360Report(p) PROVE Driven'
  <2>1. driver \in PadDriver
    BY <1>7 DEF Xbox360Report, PadDriver
  <2>2. UNCHANGED <<device, driver, asked>>
    BY <1>7 DEF Xbox360Report, Completed
  <2> QED BY <2>1, <2>2
<1>8. CASE UnsupportedReport
  BY <1>8 DEF UnsupportedReport, Completed
<1>9. CASE MouseStep \/ ProRun \/ ProTick \/ ProTransferred \/ UNCHANGED vars
  BY <1>9 DEF MouseStep, ProRun, ProTick, ProTransferred, vars, usbVars
<1>10. CASE Unplug
  BY <1>10 DEF Unplug
<1> QED BY <1>1, <1>2, <1>3, <1>4, <1>5, <1>6, <1>7, <1>8, <1>9, <1>10 DEF Next

\* DrivenAlways: no driver outlives its device, and none works before the device's
\* descriptor was read (tuh_hid_umount_cb, tuh_umount_cb, handle_device_descriptor).
THEOREM DrivenAlways == Spec => []Driven
  BY DrivenInit, DrivenNext, PTL DEF Spec
-----------------------------------------------------------------------------
(* What is handed on                                                       *)

\* What a driver hands on is by the labels of its pad.
LEMMA HandOnLayout ==
    ASSUME Driven, NEW p \in Presses, HandOn(p), driver \in PadDriver, driver' = driver
    PROVE  ButtonLayout'
<1>1. p \in Press
  BY UsbDevicesAssumption
<1>2. gamepad' = Gamepad(driver, Sent(driver, p)) /\ press' = p
  BY DEF HandOn
<1>3. \E labels \in {Drawn, Exchanged} : AsLabelled(labels, driver, p, gamepad')
  BY <1>1, <1>2, GamepadAsLabelled
<1> QED BY <1>2, <1>3 DEF ButtonLayout

\* Every step keeps it.
LEMMA ButtonLayoutNext == Driven /\ ButtonLayout /\ [Next]_vars => ButtonLayout'
<1> SUFFICES ASSUME Driven, ButtonLayout, [Next]_vars PROVE ButtonLayout'
  OBVIOUS
<1>1. ASSUME UNCHANGED <<driver, press, gamepad>> PROVE ButtonLayout'
  BY <1>1 DEF ButtonLayout
<1>2. ASSUME press' = NoPress PROVE ButtonLayout'
  BY <1>2 DEF ButtonLayout
<1>3. ASSUME NEW d \in Devices, HidMount(d) \/ VendorMount(d) PROVE ButtonLayout'
  BY <1>2, <1>3 DEF HidMount, VendorMount, PlugIn, Driven
<1>4. CASE DeviceDescriptor
  BY <1>2, <1>4 DEF DeviceDescriptor, Driven
<1>5. ASSUME NEW r \in Reports, MouseReport(r) PROVE ButtonLayout'
  BY <1>1, <1>5 DEF MouseReport, Completed
<1>6. ASSUME NEW p \in Presses, PadReport(p) PROVE ButtonLayout'
  BY <1>1, <1>6, HandOnLayout DEF PadReport, Completed, PadDriver
<1>7. ASSUME NEW p \in Presses, XboxOneReport(p) PROVE ButtonLayout'
  BY <1>1, <1>7, HandOnLayout DEF XboxOneReport, Completed, PadDriver
<1>8. ASSUME NEW p \in Presses, Xbox360Report(p) PROVE ButtonLayout'
  BY <1>1, <1>8, HandOnLayout DEF Xbox360Report, Completed, PadDriver
<1>9. CASE UnsupportedReport
  BY <1>1, <1>9 DEF UnsupportedReport, Completed
<1>10. CASE MouseStep \/ ProRun \/ ProTick \/ ProTransferred \/ UNCHANGED vars
  BY <1>1, <1>10 DEF MouseStep, ProRun, ProTick, ProTransferred, vars, usbVars
<1>11. CASE Unplug
  BY <1>2, <1>11 DEF Unplug
<1> QED BY <1>3, <1>4, <1>5, <1>6, <1>7, <1>8, <1>9, <1>10, <1>11 DEF Next

\* ButtonLayoutAlways: whatever was plugged in and reported before, what a pad's driver
\* handed on last is how the pad was held, by one of the two labellings of the buttons
\* (process_report and report_received).
THEOREM ButtonLayoutAlways == Spec => []ButtonLayout
<1>1. Init => ButtonLayout
  BY DEF Init, ButtonLayout
<1> QED BY <1>1, ButtonLayoutNext, DrivenAlways, PTL DEF Spec
-----------------------------------------------------------------------------
(* Which driver, and what it listens to                                    *)

\* Every step keeps MadeFor.
LEMMA MadeForNext ==
    ASSUME \A d \in Devices : Identified(d), Driven, MadeFor, [Next]_vars
    PROVE  MadeFor'
<1> USE UsbDevicesAssumption DEF Driven
<1>1. ASSUME UNCHANGED <<device, driver, asked, failed>> PROVE MadeFor'
  BY <1>1 DEF MadeFor
<1>2. ASSUME NEW d \in Devices, HidMount(d) PROVE MadeFor'
  <2>1. driver' = d.made_for
    BY <1>2, FoundAsMade DEF HidMount
  <2> QED BY <1>2, <2>1 DEF HidMount, PlugIn, MadeFor
<1>3. ASSUME NEW d \in Devices, VendorMount(d) PROVE MadeFor'
  <2>1. driver' = NoDriver /\ device' = d /\ (~asked' => VendorDriver(d) = NoDriver)
    BY <1>3 DEF VendorMount, PlugIn
  <2> QED BY <1>3, <2>1 DEF VendorMount, MadeFor, Identified
<1>4. CASE DeviceDescriptor
  <2>1. device \in Devices /\ device.hid = <<>> /\ driver = NoDriver
    BY <1>4 DEF DeviceDescriptor
  <2>2. \/ failed'
        \/ FirstVendorInterface(device.config) # <<>> /\ driver' = VendorDriver(device)
        \/ FirstVendorInterface(device.config) = <<>> /\ driver' = NoDriver
    BY <1>4, <2>1 DEF DeviceDescriptor
  <2>3. device' = device
    BY <1>4 DEF DeviceDescriptor
  <2> QED BY <2>1, <2>2, <2>3 DEF MadeFor, Identified
<1>5. ASSUME NEW r \in Reports, MouseReport(r) PROVE MadeFor'
  BY <1>1, <1>5 DEF MouseReport, Completed
<1>6. ASSUME NEW p \in Presses, PadReport(p) \/ XboxOneReport(p) \/ Xbox360Report(p)
      PROVE  MadeFor'
  BY <1>1, <1>6 DEF PadReport, XboxOneReport, Xbox360Report, Completed
<1>7. CASE UnsupportedReport
  BY <1>1, <1>7 DEF UnsupportedReport, Completed
<1>8. CASE MouseStep \/ ProRun \/ ProTick \/ ProTransferred \/ UNCHANGED vars
  BY <1>1, <1>8 DEF MouseStep, ProRun, ProTick, ProTransferred, vars, usbVars
<1>9. CASE Unplug
  BY <1>9 DEF Unplug, MadeFor
<1> QED BY <1>2, <1>3, <1>4, <1>5, <1>6, <1>7, <1>8, <1>9 DEF Next

\* MadeForAlways: in whatever order the builders were registered and whatever device was
\* there before, a device gets the driver that its IDs stand for, and without any the
\* mouse's if its reports are a mouse's (find, tuh_mount_cb).
THEOREM MadeForAlways ==
    ASSUME \A d \in Devices : Identified(d)
    PROVE  Spec => []MadeFor
<1>1. Init => MadeFor
  BY DEF Init, MadeFor
<1>2. Driven /\ MadeFor /\ [Next]_vars => MadeFor'
  BY MadeForNext
<1> QED BY <1>1, <1>2, DrivenAlways, PTL DEF Spec

\* A transfer that completed is asked for again.
LEMMA CompletedListens ==
    ASSUME NEW a, NEW handled, Completed(a, handled)
    PROVE  UNCHANGED <<device, driver, failed, listening>>
  BY DEF Completed, Resubmitted

\* Once nothing failed, all that the configuration has is listened to.
LEMMA OpenedListens ==
    ASSUME Driven, DeviceDescriptor, \A d \in Devices : Advertised(d)
    PROVE  Heard'
<1> USE UsbDevicesAssumption
<1>1. /\ device \in Devices /\ device.hid = <<>> /\ VendorDriver(device) # NoDriver
      /\ driver = NoDriver /\ device' = device
  BY DEF Driven, DeviceDescriptor
<1> DEFINE opens == Opens(VendorDriver(device), device.config)
<1>2. CASE FirstVendorInterface(device.config) = <<>> \/ failed'
  BY <1>1, <1>2 DEF DeviceDescriptor, Heard
<1>3. CASE FirstVendorInterface(device.config) # <<>> /\ ~failed'
  <2>1. opens \in Seq(0 .. 255) /\ {a \in Range(opens) : IsIn(a)} = InputsOf(device)
    BY <1>1, <1>3 DEF Advertised
  <2>2. PICK n \in 1 .. Len(opens) + 1 :
            /\ listening' = {a \in Range(OpenedBefore(opens, n)) : IsIn(a)}
            /\ failed' = (n <= Len(opens))
    BY <1>3 DEF DeviceDescriptor
  <2> HIDE DEF opens
  <2>3. Len(opens) \in Nat
    BY <2>1
  <2>4. ~(n <= Len(opens))
    BY <2>2, <1>3, Zenon
  <2>5. SubSeq(opens, 1, Len(opens)) = opens
    BY <2>1
  <2>6. n - 1 = Len(opens)
    BY <2>3, <2>4
  <2>7. listening' = InputsOf(device)
    BY <2>1, <2>2, <2>5, <2>6 DEF OpenedBefore
  <2> QED BY <1>1, <2>7 DEF Heard
<1> QED BY <1>2, <1>3

\* Every step keeps a device heard.
LEMMA HeardNext ==
    ASSUME \A d \in Devices : Advertised(d), Driven, Heard, [Next]_vars
    PROVE  Heard'
<1> USE UsbDevicesAssumption DEF Driven
<1>1. ASSUME UNCHANGED <<device, driver, failed, listening>> PROVE Heard'
  BY <1>1 DEF Heard
<1>2. ASSUME NEW d \in Devices, HidMount(d) PROVE Heard'
  BY <1>2 DEF HidMount, PlugIn, Heard, InputsOf
<1>3. ASSUME NEW d \in Devices, VendorMount(d) PROVE Heard'
  BY <1>3 DEF VendorMount, PlugIn, Heard
<1>4. CASE DeviceDescriptor
  BY <1>4, OpenedListens
<1>5. ASSUME NEW r \in Reports, MouseReport(r) PROVE Heard'
  BY <1>1, <1>5, CompletedListens DEF MouseReport
<1>6. ASSUME NEW p \in Presses, PadReport(p) \/ XboxOneReport(p) \/ Xbox360Report(p)
      PROVE  Heard'
  BY <1>1, <1>6, CompletedListens DEF PadReport, XboxOneReport, Xbox360Report
<1>7. CASE UnsupportedReport
  BY <1>1, <1>7, CompletedListens DEF UnsupportedReport
<1>8. CASE MouseStep \/ ProRun \/ ProTick \/ ProTransferred \/ UNCHANGED vars
  BY <1>1, <1>8 DEF MouseStep, ProRun, ProTick, ProTransferred, vars, usbVars
<1>9. CASE Unplug
  BY <1>9 DEF Unplug, Heard
<1> QED BY <1>2, <1>3, <1>4, <1>5, <1>6, <1>7, <1>8, <1>9 DEF Next

\* HeardAlways: whatever is reported and however transfers end, a device whose endpoints
\* were all opened is listened to on each of them until it is unplugged
\* (tuh_hid_report_received_cb, report_received).
THEOREM HeardAlways ==
    ASSUME \A d \in Devices : Advertised(d)
    PROVE  Spec => []Heard
<1>1. Init => Heard
  BY DEF Init, Heard
<1>2. Driven /\ Heard /\ [Next]_vars => Heard'
  BY HeardNext
<1> QED BY <1>1, <1>2, DrivenAlways, PTL DEF Spec
-----------------------------------------------------------------------------
(* The descriptor of a mouse, item by item                                 *)

\* An item comes to those before the next one if it is of the kind.
LEMMA BeforeStep ==
    ASSUME NEW d, NEW i \in Nat \ {0}, NEW items
    PROVE  /\ Before(d, i + 1, items) =
                  IF d[i].item \in items THEN Before(d, i, items) \cup {i} ELSE Before(d, i, items)
           /\ \A j \in Before(d, i, items) : j \in Nat /\ j < i
           /\ i \notin Before(d, i, items)
<1>1. 1 .. (i + 1) - 1 = (1 .. i - 1) \cup {i}
  OBVIOUS
<1> QED BY <1>1 DEF Before

\* The items before one are finitely many.
LEMMA BeforeFinite ==
    ASSUME NEW d, NEW i \in Nat, NEW items
    PROVE  /\ IsFiniteSet(Before(d, i, items))
           /\ Cardinality(Before(d, i, items)) \in Nat
<1>1. IsFiniteSet(1 .. i - 1)
  BY FS_Interval
<1>2. Before(d, i, items) \in SUBSET (1 .. i - 1)
  BY DEF Before
<1>3. IsFiniteSet(Before(d, i, items))
  BY <1>1, <1>2, FS_Subset
<1> QED BY <1>3, FS_CardinalityType

\* The largest of some numbers and one beyond them all.
LEMMA MaxBeyond ==
    ASSUME NEW S, NEW i \in Nat, \A j \in S : j \in Nat /\ j < i
    PROVE  Max(S \cup {i}) = i
<1>1. \A j \in S \cup {i} : i >= j
  OBVIOUS
<1>2. ASSUME NEW m \in S \cup {i}, \A j \in S \cup {i} : m >= j PROVE m = i
  BY <1>2
<1> QED BY <1>1, <1>2 DEF Max

\* An item replaces the value of its kind.
LEMMA LatestStep ==
    ASSUME NEW d, NEW i \in Nat \ {0}, NEW item
    PROVE  Latest(d, i + 1, item) = IF d[i].item = item THEN d[i].data ELSE Latest(d, i, item)
<1>1. CASE d[i].item = item
  <2>1. Before(d, i + 1, {item}) = Before(d, i, {item}) \cup {i}
    BY <1>1, BeforeStep
  <2>2. Max(Before(d, i, {item}) \cup {i}) = i
    BY BeforeStep, MaxBeyond
  <2> QED BY <1>1, <2>1, <2>2 DEF Latest
<1>2. CASE d[i].item # item
  BY <1>2, BeforeStep DEF Latest
<1> QED BY <1>1, <1>2

\* A collection is one deeper than what it is in.
LEMMA DepthStep ==
    ASSUME NEW d, NEW i \in Nat \ {0}
    PROVE  /\ DepthAt(d, i) \in Int
           /\ d[i].item = "collection" => DepthAt(d, i + 1) = DepthAt(d, i) + 1
           /\ d[i].item = "collection_end" => DepthAt(d, i + 1) = DepthAt(d, i) - 1
           /\ d[i].item \notin {"collection", "collection_end"} =>
                  DepthAt(d, i + 1) = DepthAt(d, i)
<1>1. ASSUME NEW item
      PROVE  /\ Cardinality(Before(d, i, {item})) \in Nat
             /\ Cardinality(Before(d, i + 1, {item})) =
                    Cardinality(Before(d, i, {item})) + (IF d[i].item = item THEN 1 ELSE 0)
  <2>1. IsFiniteSet(Before(d, i, {item})) /\ Cardinality(Before(d, i, {item})) \in Nat
    BY BeforeFinite
  <2>2. i \notin Before(d, i, {item})
    BY BeforeStep
  <2>3. CASE d[i].item = item
    <3>1. Before(d, i + 1, {item}) = Before(d, i, {item}) \cup {i}
      BY <2>3, BeforeStep
    <3>2. Cardinality(Before(d, i, {item}) \cup {i}) = Cardinality(Before(d, i, {item})) + 1
      BY <2>1, <2>2, FS_AddElement
    <3> QED BY <2>1, <2>3, <3>1, <3>2
  <2>4. CASE d[i].item # item
    <3>1. Before(d, i + 1, {item}) = Before(d, i, {item})
      BY <2>4, BeforeStep
    <3> QED BY <2>1, <2>4, <3>1
  <2> QED BY <2>3, <2>4
<1>2. /\ Cardinality(Before(d, i, {"collection"})) \in Nat
      /\ Cardinality(Before(d, i + 1, {"collection"})) =
             Cardinality(Before(d, i, {"collection"})) + (IF d[i].item = "collection" THEN 1 ELSE 0)
  BY <1>1
<1>3. /\ Cardinality(Before(d, i, {"collection_end"})) \in Nat
      /\ Cardinality(Before(d, i + 1, {"collection_end"})) =
             Cardinality(Before(d, i, {"collection_end"}))
                 + (IF d[i].item = "collection_end" THEN 1 ELSE 0)
  BY <1>1
<1> QED BY <1>2, <1>3 DEF DepthAt

\* Nothing is before the first item.
LEMMA BeforeFirst ==
    ASSUME NEW d
    PROVE  /\ \A items : Before(d, 1, items) = {}
           /\ DepthAt(d, 1) = 0 /\ UsagesOf(d, 1) = {}
           /\ \A item : Latest(d, 1, item) = 0
<1>1. \A items : Before(d, 1, items) = {}
  BY DEF Before
<1>2. DepthAt(d, 1) = 0
  <2>1. Cardinality({}) = 0
    BY FS_EmptySet
  <2> QED BY <1>1, <2>1 DEF DepthAt
<1>3. UsagesOf(d, 1) = {}
  BY <1>1 DEF UsagesOf
<1>4. \A item : Latest(d, 1, item) = 0
  BY <1>1 DEF Latest
<1> QED BY <1>1, <1>2, <1>3, <1>4

\* A collection at some depth is the one that what follows is in.
LEMMA CollectionStep ==
    ASSUME NEW d, NEW i \in Nat \ {0}, NEW level
    PROVE  CollectionUsage(d, i + 1, level) =
               IF d[i].item = "collection" /\ DepthAt(d, i) = level THEN Latest(d, i, "usage")
               ELSE CollectionUsage(d, i, level)
<1> DEFINE At(k) == {j \in Before(d, k, {"collection"}) : DepthAt(d, j) = level}
<1>0. Before(d, i + 1, {"collection"}) =
          IF d[i].item = "collection" THEN Before(d, i, {"collection"}) \cup {i}
          ELSE Before(d, i, {"collection"})
  BY BeforeStep
<1>1. CASE d[i].item = "collection" /\ DepthAt(d, i) = level
  <2>1. At(i + 1) = At(i) \cup {i}
    BY <1>0, <1>1
  <2>2. \A j \in At(i) : j \in Nat /\ j < i
    BY BeforeStep
  <2>3. Max(At(i) \cup {i}) = i
    BY <2>2, MaxBeyond
  <2> QED BY <1>1, <2>1, <2>3 DEF CollectionUsage
<1>2. CASE ~(d[i].item = "collection" /\ DepthAt(d, i) = level)
  <2>1. At(i + 1) = At(i)
    BY <1>0, <1>2
  <2> QED BY <1>2, <2>1 DEF CollectionUsage
<1> QED BY <1>1, <1>2

\* A main item takes the usages before it; any other usage comes to them.
LEMMA UsagesStep ==
    ASSUME NEW d, NEW i \in Nat \ {0}
    PROVE  /\ IsFiniteSet(UsagesOf(d, i)) /\ Cardinality(UsagesOf(d, i)) \in Nat
           /\ d[i].item \in MainItem => UsagesOf(d, i + 1) = {}
           /\ d[i].item = "usage" =>
                  Cardinality(UsagesOf(d, i + 1)) = Cardinality(UsagesOf(d, i)) + 1
           /\ d[i].item \notin MainItem \cup {"usage"} => UsagesOf(d, i + 1) = UsagesOf(d, i)
<1>1. IsFiniteSet(UsagesOf(d, i))
  <2>1. UsagesOf(d, i) \in SUBSET Before(d, i, {"usage"})
    BY DEF UsagesOf
  <2> QED BY <2>1, BeforeFinite, FS_Subset
<1>2. /\ Before(d, i + 1, MainItem) =
             IF d[i].item \in MainItem THEN Before(d, i, MainItem) \cup {i}
             ELSE Before(d, i, MainItem)
      /\ Before(d, i + 1, {"usage"}) =
             IF d[i].item = "usage" THEN Before(d, i, {"usage"}) \cup {i}
             ELSE Before(d, i, {"usage"})
      /\ \A j \in Before(d, i, {"usage"}) : j \in Nat /\ j < i
      /\ \A j \in Before(d, i, MainItem) : j \in 1 .. i
      /\ "usage" \notin MainItem
  BY BeforeStep DEF Before, MainItem, Input
<1>3. ASSUME d[i].item \in MainItem PROVE UsagesOf(d, i + 1) = {}
  <2>1. i \in Before(d, i + 1, MainItem) /\ Before(d, i + 1, {"usage"}) = Before(d, i, {"usage"})
    BY <1>2, <1>3
  <2>2. ASSUME NEW j \in UsagesOf(d, i + 1) PROVE FALSE
    <3>1. j \in Before(d, i, {"usage"}) /\ i \in 1 .. j
      BY <2>1, <2>2 DEF UsagesOf
    <3> QED BY <1>2, <3>1
  <2> QED BY <2>2
<1>4. ASSUME d[i].item = "usage"
      PROVE  Cardinality(UsagesOf(d, i + 1)) = Cardinality(UsagesOf(d, i)) + 1
  <2>1. UsagesOf(d, i + 1) = UsagesOf(d, i) \cup {i}
    BY <1>2, <1>4 DEF UsagesOf
  <2>2. i \notin UsagesOf(d, i)
    BY <1>2 DEF UsagesOf
  <2> QED BY <1>1, <2>1, <2>2, FS_AddElement
<1>5. d[i].item \notin MainItem \cup {"usage"} => UsagesOf(d, i + 1) = UsagesOf(d, i)
  BY <1>2 DEF UsagesOf
<1> QED BY <1>1, <1>3, <1>4, <1>5, FS_CardinalityType

\* What usage0 and usage1 are when item i is next: the usage of the collection that is open
\* at their level, or the one that is going to be.
UsageKnown(d, i, level, usage) ==
    /\ DepthAt(d, i) > level => usage = CollectionUsage(d, i, level)
    /\ DepthAt(d, i) = level /\ i > 1 /\ d[i - 1].item = "usage" => usage = d[i - 1].data % 256

\* So it stays with every item.
LEMMA UsageKnownStep ==
    ASSUME NEW d, Nested(d), NEW i \in 1 .. Len(d), NEW level \in {0, 1}, NEW u, NEW v,
           UsageKnown(d, i, level, u),
           v = IF d[i].item = "usage" /\ DepthAt(d, i) = level THEN d[i].data % 256 ELSE u
    PROVE  UsageKnown(d, i + 1, level, v)
<1>0. Len(d) \in Nat /\ i \in Nat \ {0} /\ DepthAt(d, i) \in Int
  BY DepthStep DEF Nested
<1>1. ASSUME DepthAt(d, i + 1) > level PROVE v = CollectionUsage(d, i + 1, level)
  <2>1. CASE d[i].item = "collection" /\ DepthAt(d, i) = level
    <3>1. i > 1 /\ d[i - 1].item = "usage" /\ d[i - 1].data < 256
      BY <2>1 DEF Nested
    <3>2. v = d[i - 1].data % 256
      BY <2>1, <3>1 DEF UsageKnown
    <3>3. d[i - 1].data \in Nat
      <4>1. d \in Seq(Item) /\ i - 1 \in 1 .. Len(d)
        BY <1>0, <3>1 DEF Nested
      <4>2. d[i - 1] \in Item
        BY <4>1
      <4> QED BY <4>2 DEF Item
    <3>4. v = d[i - 1].data
      BY <3>1, <3>2, <3>3
    <3>5. i - 1 \in Nat \ {0} /\ (i - 1) + 1 = i
      BY <1>0, <3>1
    <3>6. Latest(d, i, "usage") = d[i - 1].data
      BY <3>1, <3>5, LatestStep
    <3> QED BY <1>0, <2>1, <3>4, <3>6, CollectionStep
  <2>2. CASE ~(d[i].item = "collection" /\ DepthAt(d, i) = level)
    <3>1. DepthAt(d, i) > level
      <4>1. CASE d[i].item = "collection"
        <5>1. DepthAt(d, i + 1) = DepthAt(d, i) + 1
          BY <1>0, <4>1, DepthStep
        <5> QED BY <1>0, <1>1, <2>2, <4>1, <5>1
      <4>2. CASE d[i].item = "collection_end"
        <5>1. DepthAt(d, i + 1) = DepthAt(d, i) - 1
          BY <1>0, <4>2, DepthStep
        <5> QED BY <1>0, <1>1, <5>1
      <4>3. CASE d[i].item \notin {"collection", "collection_end"}
        BY <1>0, <1>1, <4>3, DepthStep
      <4> QED BY <4>1, <4>2, <4>3
    <3>2. v = u /\ u = CollectionUsage(d, i, level)
      BY <1>0, <3>1 DEF UsageKnown
    <3> QED BY <1>0, <2>2, <3>2, CollectionStep
  <2> QED BY <2>1, <2>2
<1>2. ASSUME DepthAt(d, i + 1) = level, d[i].item = "usage" PROVE v = d[i].data % 256
  BY <1>0, <1>2, DepthStep
<1>3. (i + 1) - 1 = i
  BY <1>0
<1> QED BY <1>1, <1>2, <1>3 DEF UsageKnown

\* How many usages are in usages_level2 when item i is next.
LengthKnown(d, i, n) == n = IF DepthAt(d, i) = 2 THEN Cardinality(UsagesOf(d, i)) ELSE 0

\* So it stays with every item.
LEMMA LengthKnownStep ==
    ASSUME NEW d, Nested(d), NEW i \in 1 .. Len(d), NEW m, NEW n, LengthKnown(d, i, m),
           n = IF d[i].item = "relative" THEN 0
               ELSE IF d[i].item = "usage" /\ DepthAt(d, i) = 2 THEN m + 1 ELSE m
    PROVE  LengthKnown(d, i + 1, n)
<1>0. Len(d) \in Nat /\ i \in Nat \ {0} /\ DepthAt(d, i) \in Int
  BY DepthStep DEF Nested
<1>1. Cardinality({}) = 0
  BY FS_EmptySet
<1>2. CASE d[i].item \in MainItem
  <2>1. UsagesOf(d, i + 1) = {}
    BY <1>0, <1>2, UsagesStep
  <2>2. d[i].item # "relative" /\ DepthAt(d, i) = 2 => m = 0
    BY <1>1, <1>2 DEF Nested, LengthKnown
  <2>3. n = 0
    BY <1>2, <2>2 DEF LengthKnown, MainItem, Input
  <2> QED BY <1>1, <2>1, <2>3 DEF LengthKnown
<1>3. CASE d[i].item = "usage"
  <2>1. DepthAt(d, i + 1) = DepthAt(d, i)
    BY <1>0, <1>3, DepthStep
  <2>2. Cardinality(UsagesOf(d, i + 1)) = Cardinality(UsagesOf(d, i)) + 1
    BY <1>0, <1>3, UsagesStep
  <2> QED BY <1>3, <2>1, <2>2 DEF LengthKnown
<1>4. CASE d[i].item \notin MainItem \cup {"usage"}
  <2>1. DepthAt(d, i + 1) = DepthAt(d, i)
    BY <1>0, <1>4, DepthStep DEF MainItem
  <2>2. UsagesOf(d, i + 1) = UsagesOf(d, i)
    BY <1>0, <1>4, UsagesStep
  <2>3. n = m
    BY <1>4 DEF MainItem, Input
  <2> QED BY <2>1, <2>2, <2>3 DEF LengthKnown
<1> QED BY <1>2, <1>3, <1>4
-----------------------------------------------------------------------------
(* The walk                                                                *)

\* What the parser knows when item pos is next.
Known ==
    /\ pos \in 1 .. Len(desc) + 1
    /\ depth = DepthAt(desc, pos)
    /\ report_count = Latest(desc, pos, "report_count")
    /\ UsageKnown(desc, pos, 0, usage0)
    /\ UsageKnown(desc, pos, 1, usage1)
    /\ usages_level2 \in Seq(Nat)
    /\ LengthKnown(desc, pos, Len(usages_level2))

Walk == Nested(desc) /\ (pos # 0 => Known) /\ Understood

\* What an item makes of the parser's variables, but for the relative input.
Walked(item) ==
    /\ pos \in 1 .. Len(desc) /\ desc[pos].item = item
    /\ desc' = desc /\ pos' = pos + 1
    /\ depth' = IF item = "collection" THEN (depth + 1) % 256
                ELSE IF item = "collection_end" THEN (depth - 1) % 256 ELSE depth
    /\ report_count' = IF item = "report_count" THEN Data8 ELSE report_count
    /\ usage0' = IF item = "usage" /\ depth = 0 THEN Data8 ELSE usage0
    /\ usage1' = IF item = "usage" /\ depth = 1 THEN Data8 ELSE usage1
    /\ usages_level2' \in Seq(Nat)
    /\ Len(usages_level2') = IF item = "relative" THEN 0
                             ELSE IF item = "usage" /\ depth = 2 THEN Len(usages_level2) + 1
                             ELSE Len(usages_level2)

\* The number of an item is a number.
LEMMA DataNumber ==
    ASSUME Nested(desc), pos \in 1 .. Len(desc)
    PROVE  desc[pos].data \in Nat /\ Data8 \in Nat /\ Len(desc) \in Nat
<1>1. desc \in Seq(Item)
  BY DEF Nested
<1>2. desc[pos] \in Item
  BY <1>1
<1>3. desc[pos].data \in Nat
  BY <1>2 DEF Item
<1> QED BY <1>1, <1>3 DEF Data8

\* An item that is walked over leaves the parser knowing as much.
LEMMA WalkedKnown ==
    ASSUME Walk, NEW item, Walked(item)
    PROVE  Walk'
<1>1. Known /\ Nested(desc) /\ pos \in 1 .. Len(desc) /\ pos' = pos + 1 /\ desc' = desc
  BY DEF Walk, Walked
<1>2. pos \in Nat \ {0} /\ Len(desc) \in Nat /\ desc[pos].data \in Nat
  BY <1>1, DataNumber
<1>3. depth = DepthAt(desc, pos) /\ desc[pos].item = item
  BY DEF Known, Walked, Walk
<1>4. DepthAt(desc, pos) \in 0 .. 255 /\ DepthAt(desc, pos + 1) \in 0 .. 255
  <2>1. pos \in 1 .. Len(desc) + 1 /\ pos + 1 \in 1 .. Len(desc) + 1
    BY <1>1, <1>2
  <2> QED BY <1>1, <2>1 DEF Nested
<1>5. depth' = DepthAt(desc, pos + 1)
  <2>1. CASE item = "collection"
    <3>1. DepthAt(desc, pos + 1) = DepthAt(desc, pos) + 1
      BY <1>2, <1>3, <2>1, DepthStep
    <3>2. depth' = (depth + 1) % 256
      BY <2>1 DEF Walked
    <3> QED BY <1>3, <1>4, <3>1, <3>2
  <2>2. CASE item = "collection_end"
    <3>1. DepthAt(desc, pos + 1) = DepthAt(desc, pos) - 1
      BY <1>2, <1>3, <2>2, DepthStep
    <3>2. depth' = (depth - 1) % 256
      BY <2>2 DEF Walked
    <3> QED BY <1>3, <1>4, <3>1, <3>2
  <2>3. CASE item \notin {"collection", "collection_end"}
    <3>1. DepthAt(desc, pos + 1) = DepthAt(desc, pos)
      BY <1>2, <1>3, <1>4, <2>3, DepthStep
    <3> QED BY <1>3, <2>3, <3>1 DEF Walked
  <2> QED BY <2>1, <2>2, <2>3
<1>6. report_count' = Latest(desc, pos + 1, "report_count")
  <2>1. CASE item = "report_count"
    <3>1. desc[pos].data < 256
      BY <1>1, <1>3, <2>1 DEF Nested
    <3>2. Data8 = desc[pos].data
      BY <1>2, <3>1 DEF Data8
    <3> QED BY <1>2, <1>3, <2>1, <3>2, LatestStep DEF Walked
  <2>2. CASE item # "report_count"
    <3>1. report_count = Latest(desc, pos, "report_count")
      BY <1>1 DEF Known
    <3> QED BY <1>2, <1>3, <2>2, <3>1, LatestStep DEF Walked
  <2> QED BY <2>1, <2>2
<1>7. UsageKnown(desc, pos + 1, 0, usage0')
  <2>1. usage0' = IF desc[pos].item = "usage" /\ DepthAt(desc, pos) = 0
                  THEN desc[pos].data % 256 ELSE usage0
    BY <1>3 DEF Walked, Data8
  <2> QED BY <1>1, <2>1, UsageKnownStep DEF Known
<1>8. UsageKnown(desc, pos + 1, 1, usage1')
  <2>1. usage1' = IF desc[pos].item = "usage" /\ DepthAt(desc, pos) = 1
                  THEN desc[pos].data % 256 ELSE usage1
    BY <1>3 DEF Walked, Data8
  <2> QED BY <1>1, <2>1, UsageKnownStep DEF Known
<1>9. LengthKnown(desc, pos + 1, Len(usages_level2'))
  <2>1. Len(usages_level2') =
            IF desc[pos].item = "relative" THEN 0
            ELSE IF desc[pos].item = "usage" /\ DepthAt(desc, pos) = 2
            THEN Len(usages_level2) + 1 ELSE Len(usages_level2)
    BY <1>3 DEF Walked
  <2> QED BY <1>1, <2>1, LengthKnownStep DEF Known
<1>10. usages_level2' \in Seq(Nat) /\ pos + 1 \in 1 .. Len(desc) + 1 /\ pos' # 0
  BY <1>1, <1>2 DEF Walked
<1>11. Known'
  BY <1>1, <1>5, <1>6, <1>7, <1>8, <1>9, <1>10 DEF Known
<1> QED BY <1>1, <1>10, <1>11 DEF Walk, Understood

\* Where a relative input is next, the parser is in the pointer of the mouse.
LEMMA AtRelative ==
    ASSUME Walk, Parse("relative")
    PROVE  /\ OfMouse /\ depth = 2 /\ pos \in MouseInputs(desc, "relative")
           /\ Len(usages_level2) = Cardinality(UsagesOf(desc, pos))
           /\ report_count = Latest(desc, pos, "report_count")
<1>1. Known /\ Nested(desc) /\ pos \in 1 .. Len(desc) /\ desc[pos].item = "relative"
  <2>1. pos \in 1 .. Len(desc) /\ desc[pos].item = "relative"
    BY DEF Parse
  <2>2. Nested(desc) /\ Len(desc) \in Nat
    BY <2>1, DataNumber DEF Walk
  <2> QED BY <2>1, <2>2 DEF Walk
<1>2. /\ DepthAt(desc, pos) = 2 /\ Application(desc, pos) = Desktop.mouse
      /\ CollectionUsage(desc, pos, 1) = Desktop.pointer
  BY <1>1 DEF Nested
<1>3. usage0 = Desktop.mouse /\ usage1 = Desktop.pointer
  BY <1>1, <1>2 DEF Known, UsageKnown, Application
<1> QED BY <1>1, <1>2, <1>3 DEF OfMouse, Known, LengthKnown, MouseInputs

\* Every step of the parser.
LEMMA ParseWalk == ASSUME Walk, ParseItem PROVE Walk'
<1>1. usages_level2 \in Seq(Nat) \/ pos = 0
  BY DEF Walk, Known
<1>2. ASSUME NEW item, Parse(item)
      PROVE  /\ pos \in 1 .. Len(desc) /\ desc[pos].item = item /\ desc' = desc /\ valid' = valid
             /\ Len(desc) \in Nat /\ Data8 \in Nat /\ usages_level2 \in Seq(Nat)
  <2>1. pos \in 1 .. Len(desc) /\ desc[pos].item = item /\ desc' = desc /\ valid' = valid
    BY <1>2 DEF Parse
  <2>2. Len(desc) \in Nat /\ Data8 \in Nat
    BY <2>1, DataNumber DEF Walk
  <2> QED BY <1>1, <2>1, <2>2
<1>3. CASE ParseConstant
  <2>1. Walked("constant")
    BY <1>2, <1>3 DEF ParseConstant, Walked
  <2> QED BY <2>1, WalkedKnown
<1>4. CASE ParseRelative
  <2>1. Parse("relative")
    BY <1>4 DEF ParseRelative
  <2>2. /\ OfMouse /\ pos \in MouseInputs(desc, "relative")
        /\ Len(usages_level2) = Cardinality(UsagesOf(desc, pos))
        /\ report_count = Latest(desc, pos, "report_count")
    BY <2>1, AtRelative
  <2>3. CASE Len(usages_level2) # report_count
    <3>1. pos' = 0 /\ desc' = desc
      BY <1>2, <1>4, <2>1, <2>2, <2>3 DEF ParseRelative
    <3>2. Cardinality(UsagesOf(desc, pos)) # Latest(desc, pos, "report_count")
      BY <2>2, <2>3
    <3>3. Understood'
      BY <2>2, <3>1, <3>2 DEF Understood
    <3> QED BY <3>1, <3>3 DEF Walk
  <2>4. CASE Len(usages_level2) = report_count
    <3>1. Walked("relative")
      <4>1. pos' = pos + 1 /\ usages_level2' = <<>>
        BY <1>4, <2>2, <2>4 DEF ParseRelative, UsagesLeft
      <4>2. <<>> \in Seq(Nat) /\ Len(<<>>) = 0
        OBVIOUS
      <4> QED BY <1>2, <1>4, <2>1, <4>1, <4>2 DEF ParseRelative, Walked
    <3> QED BY <3>1, WalkedKnown
  <2> QED BY <2>3, <2>4
<1>5. CASE ParseAbsolute
  <2>1. Walked("absolute")
    BY <1>2, <1>5 DEF ParseAbsolute, Walked
  <2> QED BY <2>1, WalkedKnown
<1>6. CASE ParseCollection
  <2>1. Walked("collection")
    BY <1>2, <1>6 DEF ParseCollection, Walked
  <2> QED BY <2>1, WalkedKnown
<1>7. CASE ParseCollectionEnd
  <2>1. Walked("collection_end")
    BY <1>2, <1>7 DEF ParseCollectionEnd, Walked
  <2> QED BY <2>1, WalkedKnown
<1>8. CASE ParseReportId
  <2>1. Walked("report_id")
    BY <1>2, <1>8 DEF ParseReportId, Walked
  <2> QED BY <2>1, WalkedKnown
<1>9. CASE ParseReportSize
  <2>1. Walked("report_size")
    BY <1>2, <1>9 DEF ParseReportSize, Walked, learnt
  <2> QED BY <2>1, WalkedKnown
<1>10. CASE ParseReportCount
  <2>1. Walked("report_count")
    BY <1>2, <1>10 DEF ParseReportCount, Walked
  <2> QED BY <2>1, WalkedKnown
<1>11. CASE ParseUsage
  <2>1. Walked("usage")
    <3>1. /\ usages_level2' = IF depth = 2 THEN Append(usages_level2, Data8) ELSE usages_level2
          /\ usages_level2 \in Seq(Nat) /\ Data8 \in Nat
      BY <1>2, <1>11 DEF ParseUsage
    <3>2. usages_level2' \in Seq(Nat)
      BY <3>1
    <3>3. Len(usages_level2') = IF depth = 2 THEN Len(usages_level2) + 1 ELSE Len(usages_level2)
      BY <3>1
    <3> QED BY <1>2, <1>11, <3>2, <3>3 DEF ParseUsage, Walked
  <2> QED BY <2>1, WalkedKnown
<1>12. CASE Finish
  BY <1>12 DEF Finish, Walk, Understood
<1> QED BY <1>3, <1>4, <1>5, <1>6, <1>7, <1>8, <1>9, <1>10, <1>11, <1>12 DEF ParseItem

\* A new handler knows nothing yet, which is all there is to know.
LEMMA MountWalk ==
    ASSUME NEW d, Nested(d), MountMouse(d)
    PROVE  Walk'
<1>1. /\ desc' = d /\ pos' = 1 /\ depth' = 0 /\ report_count' = 0
      /\ usage0' = 0 /\ usage1' = 0 /\ usages_level2' = <<>>
  BY DEF MountMouse
<1>2. /\ DepthAt(d, 1) = 0 /\ UsagesOf(d, 1) = {} /\ Latest(d, 1, "report_count") = 0
  BY BeforeFirst
<1>3. <<>> \in Seq(Nat) /\ Len(<<>>) = 0
  OBVIOUS
<1>4. UsageKnown(d, 1, 0, 0) /\ UsageKnown(d, 1, 1, 0) /\ LengthKnown(d, 1, 0)
  BY <1>2 DEF UsageKnown, LengthKnown
<1>5. Len(d) \in Nat
  BY DEF Nested
<1>6. Known'
  BY <1>1, <1>2, <1>3, <1>4, <1>5 DEF Known
<1> QED BY <1>1, <1>6 DEF Walk, Understood

Walking == driver = "mouse" => Walk

\* Every step keeps a mouse's descriptor understood.
LEMMA WalkingNext ==
    ASSUME \A d \in Devices : Nested(d.hid), Driven, Walking, [Next]_vars
    PROVE  Walking'
<1>1. ASSUME driver' # "mouse" PROVE Walking'
  BY <1>1 DEF Walking
<1>2. ASSUME UNCHANGED <<driver, mouseVars>> PROVE Walking'
  BY <1>2 DEF Walking, Walk, Known, Understood, mouseVars
<1>3. ASSUME NEW d \in Devices, HidMount(d) PROVE Walking'
  <2>1. CASE driver' = "mouse"
    BY <1>3, <2>1, MountWalk DEF HidMount, Walking
  <2> QED BY <1>1, <2>1
<1>4. ASSUME NEW d \in Devices, VendorMount(d) PROVE Walking'
  BY <1>2, <1>4 DEF VendorMount
<1>5. CASE DeviceDescriptor
  <2>1. VendorDriver(device) # "mouse" /\ driver # "mouse"
    BY <1>5, UsbDevicesAssumption DEF DeviceDescriptor, Driven, VendorDriver
  <2> QED BY <1>1, <1>5, <2>1 DEF DeviceDescriptor
<1>6. ASSUME NEW r \in Reports, MouseReport(r) PROVE Walking'
  <2>1. driver = "mouse" /\ driver' = driver /\ pos = 0
        /\ UNCHANGED <<desc, pos, parser, learnt, valid>>
    BY <1>6 DEF MouseReport, ProcessReport, Completed
  <2> QED BY <2>1 DEF Walking, Walk, Understood
<1>7. ASSUME NEW p \in Presses, PadReport(p) \/ XboxOneReport(p) \/ Xbox360Report(p)
      PROVE  Walking'
  BY <1>2, <1>7 DEF PadReport, XboxOneReport, Xbox360Report, Completed
<1>8. CASE UnsupportedReport
  BY <1>2, <1>8 DEF UnsupportedReport, Completed
<1>9. CASE MouseStep
  <2>1. driver = "mouse" /\ driver' = driver /\ ParseItem
    BY <1>9 DEF MouseStep, usbVars
  <2> QED BY <2>1, ParseWalk DEF Walking
<1>10. CASE ProRun \/ ProTick \/ ProTransferred \/ UNCHANGED vars
  BY <1>2, <1>10 DEF ProRun, ProTick, ProTransferred, vars, usbVars
<1>11. CASE Unplug
  BY <1>1, <1>11, UsbDevicesAssumption DEF Unplug
<1> QED BY <1>3, <1>4, <1>5, <1>6, <1>7, <1>8, <1>9, <1>10, <1>11 DEF Next

\* FallbackJustifiedAlways: on every descriptor that is nested as those of mice are, of any
\* length, the parser gives up only where an input has more or fewer usages than fields by
\* HID 1.11 (parse_hid_report_descriptor).
THEOREM FallbackJustifiedAlways ==
    ASSUME \A d \in Devices : Nested(d.hid)
    PROVE  Spec => []FallbackJustified
<1>1. Init => Walking
  BY UsbDevicesAssumption DEF Init, Walking
<1>2. Driven /\ Walking /\ [Next]_vars => Walking'
  BY WalkingNext
<1>3. Walking => FallbackJustified
  BY DEF Walking, Walk, FallbackJustified
<1> QED BY <1>1, <1>2, <1>3, DrivenAlways, PTL DEF Spec
-----------------------------------------------------------------------------
(* Sums                                                                    *)

\* Numbers have a least one: what is shown of a number from those below it holds of all.
LEMMA Least ==
    ASSUME NEW S, S \subseteq Nat, S # {}
    PROVE  \E m \in S : \A k \in S : m <= k
<1> DEFINE R == {ss \in Nat \X Nat : ss[1] < ss[2]}
<1>1. IsWellFoundedOn(OpToRel(<, Nat), Nat)
  BY NatLessThanWellFounded
<1>2. IsWellFoundedOn(R, Nat)
  BY <1>1, Zenon DEF OpToRel
<1>3. \E m \in S : \A k \in S : <<k, m>> \notin R
  <2> HIDE DEF R
  <2> QED BY <1>2, WFMin
<1>4. PICK m \in S : \A k \in S : <<k, m>> \notin R
  BY <1>3
<1>5. ASSUME NEW k \in S PROVE m <= k
  <2>1. <<k, m>> \notin R
    BY <1>4
  <2> QED BY <2>1
<1> QED BY <1>5

\* The element that a sum over s takes first.
First(s) == CHOOSE x \in s : TRUE

\* h adds up fun over each subset of S, as SumFunctionOnSet does.
Summing(fun, S, h) ==
    h = [s \in SUBSET S |-> IF s = {} THEN 0 ELSE fun[First(s)] + h[s \ {First(s)}]]

\* The library's sum is one of them.
LEMMA SumUnfolded ==
    ASSUME NEW fun, NEW S
    PROVE  SumFunctionOnSet(fun, S) = (CHOOSE h : Summing(fun, S, h))[S]
BY DEF SumFunctionOnSet, FoldFunctionOnSet, MapThenFoldSet, Summing, First

\* What is left when an element is taken is smaller by one.
LEMMA LessOne ==
    ASSUME NEW s, IsFiniteSet(s), NEW x \in s
    PROVE  /\ IsFiniteSet(s \ {x}) /\ Cardinality(s \ {x}) \in Nat
           /\ Cardinality(s) \in Nat /\ Cardinality(s) = Cardinality(s \ {x}) + 1
<1>1. IsFiniteSet(s \ {x}) /\ Cardinality(s \ {x}) = Cardinality(s) - 1
  BY FS_RemoveElement
<1>2. Cardinality(s \ {x}) \in Nat /\ Cardinality(s) \in Nat
  BY <1>1, FS_CardinalityType
<1> QED BY <1>1, <1>2

\* The element taken first is one of the set.
LEMMA FirstIn == ASSUME NEW s, s # {} PROVE First(s) \in s
BY DEF First

\* There is such a function.
LEMMA SummingExists ==
    ASSUME NEW fun, NEW S, IsFiniteSet(S), \A x \in S : fun[x] \in Int
    PROVE  \E h \in [SUBSET S -> Int] : Summing(fun, S, h)
<1> DEFINE Sum(h, s) == IF s = {} THEN 0 ELSE fun[First(s)] + h[s \ {First(s)}]
           UpTo(n, h) == \A s \in SUBSET S : Cardinality(s) <= n => h[s] = Sum(h, s)
           Bad == {n \in Nat : ~\E h \in [SUBSET S -> Int] : UpTo(n, h)}
<1>1. ASSUME NEW s \in SUBSET S PROVE IsFiniteSet(s) /\ Cardinality(s) \in Nat
  BY FS_Subset, FS_CardinalityType
<1>2. Bad = {}
  <2> SUFFICES ASSUME Bad # {} PROVE FALSE
    OBVIOUS
  <2>1. PICK m \in Bad : \A k \in Bad : m <= k
    <3>1. Bad \subseteq Nat
      OBVIOUS
    <3> HIDE DEF Bad
    <3> QED BY <3>1, Least
  <2>2. CASE m = 0
    <3> DEFINE h == [s \in SUBSET S |-> 0]
    <3>1. ASSUME NEW s \in SUBSET S, Cardinality(s) <= 0 PROVE s = {}
      BY <1>1, <3>1, FS_EmptySet
    <3>2. UpTo(m, h)
      BY <2>2, <3>1
    <3>3. h \in [SUBSET S -> Int]
      OBVIOUS
    <3> QED BY <2>1, <3>2, <3>3
  <2>3. CASE m # 0
    <3>1. m - 1 \in Nat /\ m - 1 \notin Bad
      <4>1. m \in Nat
        OBVIOUS
      <4> HIDE DEF Bad
      <4> QED BY <2>1, <2>3, <4>1
    <3>2. PICK g \in [SUBSET S -> Int] : UpTo(m - 1, g)
      BY <3>1
    <3> DEFINE h == [s \in SUBSET S |-> IF Cardinality(s) < m THEN g[s] ELSE Sum(g, s)]
    <3>3. ASSUME NEW s \in SUBSET S, s # {}
          PROVE  /\ First(s) \in S /\ s \ {First(s)} \in SUBSET S
                 /\ Cardinality(s \ {First(s)}) \in Nat
                 /\ Cardinality(s) = Cardinality(s \ {First(s)}) + 1
      BY <1>1, <3>3, FirstIn, LessOne
    <3>4. ASSUME NEW s \in SUBSET S PROVE Sum(g, s) \in Int
      <4>1. CASE s = {}
        BY <4>1
      <4>2. CASE s # {}
        <5>1. fun[First(s)] \in Int /\ g[s \ {First(s)}] \in Int
          BY <3>3, <4>2
        <5> QED BY <4>2, <5>1
      <4> QED BY <4>1, <4>2
    <3>5. h \in [SUBSET S -> Int]
      <4>1. ASSUME NEW s \in SUBSET S
            PROVE  (IF Cardinality(s) < m THEN g[s] ELSE Sum(g, s)) \in Int
        <5> HIDE DEF Sum
        <5> QED BY <3>4
      <4> HIDE DEF Sum
      <4> QED BY <4>1
    <3>6. ASSUME NEW s \in SUBSET S, Cardinality(s) <= m PROVE h[s] = Sum(h, s)
      <4>1. h[s] = Sum(g, s)
        <5>1. CASE Cardinality(s) < m
          <6>1. Cardinality(s) <= m - 1
            BY <1>1, <2>1, <5>1
          <6>2. g[s] = Sum(g, s)
            BY <3>2, <6>1
          <6> QED BY <5>1, <6>2
        <5>2. CASE ~(Cardinality(s) < m)
          BY <5>2
        <5> QED BY <5>1, <5>2
      <4>2. s # {} => h[s \ {First(s)}] = g[s \ {First(s)}]
        <5> SUFFICES ASSUME s # {} PROVE h[s \ {First(s)}] = g[s \ {First(s)}]
          OBVIOUS
        <5>1. Cardinality(s \ {First(s)}) < m
          BY <1>1, <2>1, <3>3, <3>6
        <5> QED BY <3>3, <5>1
      <4> HIDE DEF h
      <4> QED BY <4>1, <4>2
    <3>7. UpTo(m, h)
      BY <3>6
    <3> HIDE DEF h, UpTo
    <3> QED BY <2>1, <3>5, <3>7
  <2> QED BY <2>2, <2>3
<1>3. Cardinality(S) \in Nat
  BY FS_CardinalityType
<1>4. PICK h \in [SUBSET S -> Int] : UpTo(Cardinality(S), h)
  BY <1>2, <1>3
<1>5. ASSUME NEW s \in SUBSET S PROVE h[s] = Sum(h, s)
  <2>1. Cardinality(s) <= Cardinality(S)
    BY FS_Subset
  <2> QED BY <1>4, <2>1
<1>6. h = [s \in SUBSET S |-> h[s]]
  OBVIOUS
<1> QED BY <1>5, <1>6 DEF Summing

\* There is only one, whatever else is added up, of what agrees.
LEMMA SummingUnique ==
    ASSUME NEW f, NEW S, IsFiniteSet(S), NEW g, Summing(f, S, g),
           NEW F, NEW T, S \subseteq T, NEW h, Summing(F, T, h),
           \A x \in S : f[x] = F[x]
    PROVE  g[S] = h[S]
<1> DEFINE Bad == {Cardinality(s) : s \in {s \in SUBSET S : g[s] # h[s]}}
<1>1. ASSUME NEW s \in SUBSET S PROVE IsFiniteSet(s) /\ Cardinality(s) \in Nat
  BY FS_Subset, FS_CardinalityType
<1>2. Bad = {}
  <2> SUFFICES ASSUME Bad # {} PROVE FALSE
    OBVIOUS
  <2>1. PICK m \in Bad : \A k \in Bad : m <= k
    <3>1. Bad \subseteq Nat
      BY <1>1
    <3> HIDE DEF Bad
    <3> QED BY <3>1, Least
  <2>2. PICK s \in SUBSET S : g[s] # h[s] /\ m = Cardinality(s)
    BY <2>1
  <2>3. /\ g[s] = IF s = {} THEN 0 ELSE f[First(s)] + g[s \ {First(s)}]
        /\ h[s] = IF s = {} THEN 0 ELSE F[First(s)] + h[s \ {First(s)}]
    <3>1. s \in SUBSET T
      OBVIOUS
    <3>2. g[s] = [t \in SUBSET S |-> IF t = {} THEN 0 ELSE f[First(t)] + g[t \ {First(t)}]][s]
      BY Zenon DEF Summing
    <3>3. h[s] = [t \in SUBSET T |-> IF t = {} THEN 0 ELSE F[First(t)] + h[t \ {First(t)}]][s]
      BY Zenon DEF Summing
    <3> QED BY <3>1, <3>2, <3>3
  <2>4. CASE s = {}
    BY <2>2, <2>3, <2>4
  <2>5. CASE s # {}
    <3>1. First(s) \in S /\ s \ {First(s)} \in SUBSET S
      BY <2>5, FirstIn
    <3>2. Cardinality(s \ {First(s)}) \in Nat /\ m = Cardinality(s \ {First(s)}) + 1
      BY <1>1, <2>2, <2>5, FirstIn, LessOne
    <3>3. Cardinality(s \ {First(s)}) \notin Bad
      <4> HIDE DEF Bad
      <4> QED BY <2>1, <3>2
    <3>4. g[s \ {First(s)}] = h[s \ {First(s)}]
      BY <3>1, <3>3
    <3> QED BY <2>2, <2>3, <2>5, <3>1, <3>4
  <2> QED BY <2>4, <2>5
<1> QED BY <1>2

\* A sum is the recursion that defines it.
LEMMA SumRecursion ==
    ASSUME NEW f, NEW S, IsFiniteSet(S), \A x \in S : f[x] \in Int
    PROVE  /\ SumFunctionOnSet(f, S) \in Int
           /\ SumFunctionOnSet(f, S) =
                  IF S = {} THEN 0 ELSE f[First(S)] + SumFunctionOnSet(f, S \ {First(S)})
           /\ \A F : (\A x \in S : f[x] = F[x]) =>
                  SumFunctionOnSet(F, S) = SumFunctionOnSet(f, S)
<1> DEFINE h == CHOOSE h : Summing(f, S, h)
<1>0. PICK hh \in [SUBSET S -> Int] : Summing(f, S, hh)
  BY SummingExists
<1>1. Summing(f, S, h)
  <2>1. \E k : Summing(f, S, k)
    BY <1>0
  <2> QED BY <2>1
<1>2. SumFunctionOnSet(f, S) = h[S]
  BY SumUnfolded
<1> HIDE DEF h
<1>3. SumFunctionOnSet(f, S) \in Int
  <2>1. h[S] = hh[S]
    BY <1>0, <1>1, SummingUnique
  <2> QED BY <1>2, <2>1
<1>4. SumFunctionOnSet(f, S) =
          IF S = {} THEN 0 ELSE f[First(S)] + SumFunctionOnSet(f, S \ {First(S)})
  <2>1. h[S] = [t \in SUBSET S |-> IF t = {} THEN 0 ELSE f[First(t)] + h[t \ {First(t)}]][S]
    BY <1>1, Zenon DEF Summing
  <2>2. h[S] = IF S = {} THEN 0 ELSE f[First(S)] + h[S \ {First(S)}]
    BY <2>1
  <2>3. S # {} => SumFunctionOnSet(f, S \ {First(S)}) = h[S \ {First(S)}]
    <3> DEFINE R == S \ {First(S)}
               k == CHOOSE k : Summing(f, R, k)
    <3>1. IsFiniteSet(R) /\ R \subseteq S
      BY FS_Subset
    <3>2. \E kk : Summing(f, R, kk)
      <4> HIDE DEF R
      <4>1. \A x \in R : f[x] \in Int
        BY <3>1
      <4> QED BY <3>1, <4>1, SummingExists
    <3>3. Summing(f, R, k)
      BY <3>2
    <3>4. SumFunctionOnSet(f, R) = k[R]
      BY SumUnfolded
    <3> HIDE DEF R, k
    <3>5. k[R] = h[R]
      BY <1>1, <3>1, <3>3, SummingUnique
    <3> QED BY <3>4, <3>5 DEF R
  <2> QED BY <1>2, <2>2, <2>3
<1>5. ASSUME NEW F, \A x \in S : f[x] = F[x]
      PROVE  SumFunctionOnSet(F, S) = SumFunctionOnSet(f, S)
  <2> DEFINE k == CHOOSE k : Summing(F, S, k)
  <2>1. \A x \in S : F[x] \in Int
    BY <1>5
  <2>2. \E kk : Summing(F, S, kk)
    BY <2>1, SummingExists
  <2>3. Summing(F, S, k)
    BY <2>2
  <2>4. SumFunctionOnSet(F, S) = k[S]
    BY SumUnfolded
  <2> HIDE DEF k
  <2>5. h[S] = k[S]
    BY <1>1, <1>5, <2>3, SummingUnique
  <2> QED BY <1>2, <2>4, <2>5
<1> QED BY <1>3, <1>4, <1>5

\* Any element may be taken out of a sum.
LEMMA SumTake ==
    ASSUME NEW f, NEW S, IsFiniteSet(S), \A x \in S : f[x] \in Int, NEW x \in S
    PROVE  SumFunctionOnSet(f, S) = f[x] + SumFunctionOnSet(f, S \ {x})
<1> DEFINE Sum(s) == SumFunctionOnSet(f, s)
           Taken(s) == \A y \in s : Sum(s) = f[y] + Sum(s \ {y})
           Bad == {Cardinality(s) : s \in {s \in SUBSET S : ~Taken(s)}}
<1>1. ASSUME NEW s \in SUBSET S
      PROVE  /\ IsFiniteSet(s) /\ Cardinality(s) \in Nat /\ Sum(s) \in Int
             /\ s # {} => Sum(s) = f[First(s)] + Sum(s \ {First(s)})
  <2>1. IsFiniteSet(s) /\ Cardinality(s) \in Nat
    BY FS_Subset, FS_CardinalityType
  <2> QED BY <2>1, SumRecursion
<1>2. Bad = {}
  <2> SUFFICES ASSUME Bad # {} PROVE FALSE
    OBVIOUS
  <2>1. PICK m \in Bad : \A k \in Bad : m <= k
    <3>1. Bad \subseteq Nat
      BY <1>1
    <3> HIDE DEF Bad
    <3> QED BY <3>1, Least
  <2>2. PICK s \in SUBSET S : ~Taken(s) /\ m = Cardinality(s)
    BY <2>1
  <2>3. PICK y \in s : Sum(s) # f[y] + Sum(s \ {y})
    BY <2>2
  <2> DEFINE c == First(s)
             t == s \ {c}
  <2>4. /\ c \in s /\ t \in SUBSET S /\ Cardinality(t) \in Nat /\ m = Cardinality(t) + 1
        /\ Sum(s) = f[c] + Sum(t)
    BY <1>1, <2>2, FirstIn, LessOne
  <2>5. y # c
    BY <2>3, <2>4
  <2>6. Sum(t) = f[y] + Sum(t \ {y})
    <3>1. Cardinality(t) \notin Bad
      <4> HIDE DEF Bad
      <4> QED BY <2>1, <2>4
    <3>2. y \in t
      BY <2>5
    <3> QED BY <2>4, <3>1, <3>2
  <2> DEFINE u == s \ {y}
  <2>7. Sum(u) = f[c] + Sum(u \ {c})
    <3>1. c \in u /\ u \in SUBSET S
      BY <2>4, <2>5
    <3>2. Cardinality(u) \in Nat /\ m = Cardinality(u) + 1
      BY <1>1, <2>2, LessOne
    <3>3. Cardinality(u) \notin Bad
      <4> HIDE DEF Bad, u
      <4> QED BY <2>1, <3>2
    <3>4. Taken(u)
      BY <3>1, <3>3
    <3> HIDE DEF u, Sum
    <3> QED BY <3>1, <3>4
  <2>8. u \ {c} = t \ {y}
    OBVIOUS
  <2>9. f[c] \in Int /\ f[y] \in Int /\ Sum(t \ {y}) \in Int
    <3>1. t \ {y} \in SUBSET S
      BY <2>4
    <3> QED BY <1>1, <2>3, <2>4, <3>1
  <2> HIDE DEF Sum
  <2>10. Sum(s) = f[y] + Sum(u)
    <3>1. Sum(s) = f[c] + (f[y] + Sum(t \ {y}))
      BY <2>4, <2>6
    <3>2. Sum(u) = f[c] + Sum(t \ {y})
      BY <2>7, <2>8
    <3> QED BY <2>9, <3>1, <3>2
  <2> QED BY <2>3, <2>10
<1>3. Cardinality(S) \notin Bad
  BY <1>2
<1> QED BY <1>3

\* A sum with one element more.
LEMMA SumMore ==
    ASSUME NEW f, NEW g, IsFiniteSet(DOMAIN f), \A y \in DOMAIN f : f[y] \in Int /\ g[y] = f[y],
           NEW x, x \notin DOMAIN f, DOMAIN g = DOMAIN f \cup {x}, g[x] \in Int
    PROVE  SumFunction(f) \in Int /\ SumFunction(g) = SumFunction(f) + g[x]
<1>1. IsFiniteSet(DOMAIN g) /\ \A y \in DOMAIN g : g[y] \in Int
  BY FS_AddElement
<1>2. SumFunctionOnSet(g, DOMAIN g) = g[x] + SumFunctionOnSet(g, DOMAIN g \ {x})
  BY <1>1, SumTake
<1>3. DOMAIN g \ {x} = DOMAIN f
  OBVIOUS
<1>4. SumFunctionOnSet(g, DOMAIN f) = SumFunctionOnSet(f, DOMAIN f)
      /\ SumFunctionOnSet(f, DOMAIN f) \in Int
  BY SumRecursion
<1> QED BY <1>2, <1>3, <1>4 DEF SumFunction

\* An empty sum.
LEMMA SumNothing == ASSUME NEW f, DOMAIN f = {} PROVE SumFunction(f) = 0
<1>1. IsFiniteSet(DOMAIN f) /\ \A x \in DOMAIN f : f[x] \in Int
  BY FS_EmptySet
<1> QED BY <1>1, SumRecursion DEF SumFunction

-----------------------------------------------------------------------------
(* Powers of two, quotients and remainders                                 *)

\* Induction on a set of numbers.
LEMMA FromZero ==
    ASSUME NEW b \in Nat, NEW S, 0 \in S, \A n \in 0 .. b - 1 : n \in S => n + 1 \in S
    PROVE  \A n \in 0 .. b : n \in S
<1> DEFINE Bad == {n \in 0 .. b : n \notin S}
<1> SUFFICES ASSUME Bad # {} PROVE FALSE
  OBVIOUS
<1>1. PICK m \in Bad : \A k \in Bad : m <= k
  <2>1. Bad \subseteq Nat
    OBVIOUS
  <2> HIDE DEF Bad
  <2> QED BY <2>1, Least
<1>2. m \in 1 .. b /\ m \notin S
  OBVIOUS
<1>3. m - 1 \in 0 .. b - 1 /\ m - 1 \notin Bad
  <2> HIDE DEF Bad
  <2> QED BY <1>1, <1>2
<1>4. m - 1 \in S
  BY <1>2, <1>3
<1>5. (m - 1) + 1 = m
  BY <1>2
<1> QED BY <1>2, <1>3, <1>4, <1>5

\* The powers of two that there are in a word of 32 bits and the byte behind it.
LEMMA PowersListed ==
    /\ 2^0 = 1 /\ 2^1 = 2 /\ 2^2 = 4 /\ 2^3 = 8
    /\ 2^4 = 16 /\ 2^5 = 32 /\ 2^6 = 64 /\ 2^7 = 128
    /\ 2^8 = 256 /\ 2^9 = 512 /\ 2^10 = 1024 /\ 2^11 = 2048
    /\ 2^12 = 4096 /\ 2^13 = 8192 /\ 2^14 = 16384 /\ 2^15 = 32768
    /\ 2^16 = 65536 /\ 2^17 = 131072 /\ 2^18 = 262144 /\ 2^19 = 524288
    /\ 2^20 = 1048576 /\ 2^21 = 2097152 /\ 2^22 = 4194304 /\ 2^23 = 8388608
    /\ 2^24 = 16777216 /\ 2^25 = 33554432 /\ 2^26 = 67108864 /\ 2^27 = 134217728
    /\ 2^28 = 268435456 /\ 2^29 = 536870912 /\ 2^30 = 1073741824 /\ 2^31 = 2147483648
    /\ 2^32 = 4294967296 /\ 2^33 = 8589934592 /\ 2^34 = 17179869184 /\ 2^35 = 34359738368
    /\ 2^36 = 68719476736 /\ 2^37 = 137438953472 /\ 2^38 = 274877906944 /\ 2^39 = 549755813888
<1>1. /\ 2^0 = 1 /\ 2^1 = 2 /\ 2^2 = 4 /\ 2^3 = 8
      /\ 2^4 = 16 /\ 2^5 = 32 /\ 2^6 = 64 /\ 2^7 = 128
  OBVIOUS
<1>2. /\ 2^8 = 256 /\ 2^9 = 512 /\ 2^10 = 1024 /\ 2^11 = 2048
      /\ 2^12 = 4096 /\ 2^13 = 8192 /\ 2^14 = 16384 /\ 2^15 = 32768
  OBVIOUS
<1>3. /\ 2^16 = 65536 /\ 2^17 = 131072 /\ 2^18 = 262144 /\ 2^19 = 524288
      /\ 2^20 = 1048576 /\ 2^21 = 2097152 /\ 2^22 = 4194304 /\ 2^23 = 8388608
  OBVIOUS
<1>4. /\ 2^24 = 16777216 /\ 2^25 = 33554432 /\ 2^26 = 67108864 /\ 2^27 = 134217728
      /\ 2^28 = 268435456 /\ 2^29 = 536870912 /\ 2^30 = 1073741824 /\ 2^31 = 2147483648
  OBVIOUS
<1>5. /\ 2^32 = 4294967296 /\ 2^33 = 8589934592 /\ 2^34 = 17179869184 /\ 2^35 = 34359738368
      /\ 2^36 = 68719476736 /\ 2^37 = 137438953472 /\ 2^38 = 274877906944 /\ 2^39 = 549755813888
  OBVIOUS
<1> QED BY <1>1, <1>2, <1>3, <1>4, <1>5

\* The next power is twice as much.
LEMMA Doubled == ASSUME NEW n \in Nat, n < 39 PROVE 2^(n + 1) = 2 * 2^n
<1> DEFINE e(i) == 2^i
<1>1. /\ e(1) = 2 * e(0) /\ e(2) = 2 * e(1) /\ e(3) = 2 * e(2) /\ e(4) = 2 * e(3)
      /\ e(5) = 2 * e(4) /\ e(6) = 2 * e(5) /\ e(7) = 2 * e(6) /\ e(8) = 2 * e(7)
      /\ e(9) = 2 * e(8) /\ e(10) = 2 * e(9) /\ e(11) = 2 * e(10) /\ e(12) = 2 * e(11)
      /\ e(13) = 2 * e(12) /\ e(14) = 2 * e(13) /\ e(15) = 2 * e(14) /\ e(16) = 2 * e(15)
      /\ e(17) = 2 * e(16) /\ e(18) = 2 * e(17) /\ e(19) = 2 * e(18) /\ e(20) = 2 * e(19)
      /\ e(21) = 2 * e(20) /\ e(22) = 2 * e(21) /\ e(23) = 2 * e(22) /\ e(24) = 2 * e(23)
      /\ e(25) = 2 * e(24) /\ e(26) = 2 * e(25) /\ e(27) = 2 * e(26) /\ e(28) = 2 * e(27)
      /\ e(29) = 2 * e(28) /\ e(30) = 2 * e(29) /\ e(31) = 2 * e(30) /\ e(32) = 2 * e(31)
      /\ e(33) = 2 * e(32) /\ e(34) = 2 * e(33) /\ e(35) = 2 * e(34) /\ e(36) = 2 * e(35)
      /\ e(37) = 2 * e(36) /\ e(38) = 2 * e(37) /\ e(39) = 2 * e(38)
  BY PowersListed
<1> HIDE DEF e
<1>2. \/ n = 0 \/ n = 1 \/ n = 2 \/ n = 3 \/ n = 4 \/ n = 5 \/ n = 6 \/ n = 7
      \/ n = 8 \/ n = 9 \/ n = 10 \/ n = 11 \/ n = 12 \/ n = 13 \/ n = 14 \/ n = 15
      \/ n = 16 \/ n = 17 \/ n = 18 \/ n = 19 \/ n = 20 \/ n = 21 \/ n = 22 \/ n = 23
      \/ n = 24 \/ n = 25 \/ n = 26 \/ n = 27 \/ n = 28 \/ n = 29 \/ n = 30 \/ n = 31
      \/ n = 32 \/ n = 33 \/ n = 34 \/ n = 35 \/ n = 36 \/ n = 37 \/ n = 38
  OBVIOUS
<1>3. e(n + 1) = 2 * e(n)
  BY <1>1, <1>2
<1> QED BY <1>3 DEF e

\* The powers are numbers, none of them zero.
LEMMA PowerNumber == ASSUME NEW n \in Nat, n <= 39 PROVE 2^n \in Nat \ {0}
<1> DEFINE S == {i \in 0 .. 39 : 2^i \in Nat \ {0}}
<1>1. 0 \in S
  BY PowersListed
<1>2. ASSUME NEW i \in 0 .. 39 - 1, i \in S PROVE i + 1 \in S
  <2>1. i \in Nat /\ i < 39 /\ i + 1 \in 0 .. 39
    OBVIOUS
  <2>2. 2^(i + 1) = 2 * 2^i
    BY <2>1, Doubled
  <2>3. 2^i \in Nat \ {0}
    BY <1>2
  <2> QED BY <2>1, <2>2, <2>3
<1>3. n \in S
  <2>1. n \in 0 .. 39
    OBVIOUS
  <2> HIDE DEF S
  <2> QED BY <1>1, <1>2, <2>1, FromZero
<1> QED BY <1>3

\* Exponents add up.
LEMMA PowerSum ==
    ASSUME NEW a \in Nat, NEW b \in Nat, a + b <= 39
    PROVE  /\ 2^a \in Nat \ {0} /\ 2^b \in Nat \ {0} /\ 2^(a + b) \in Nat \ {0}
           /\ 2^(a + b) = 2^a * 2^b
<1>0. ASSUME NEW n \in Nat, n <= 39 PROVE 2^n \in Nat \ {0}
  BY <1>0, PowerNumber
<1> DEFINE S == {n \in 0 .. b : 2^(a + n) = 2^a * 2^n}
<1>1. 0 \in S
  <2>1. a + 0 = a /\ 2^a \in Nat
    BY <1>0
  <2> QED BY <2>1, PowersListed
<1>2. ASSUME NEW n \in 0 .. b - 1, n \in S PROVE n + 1 \in S
  <2>1. 2^(n + 1) = 2 * 2^n /\ 2^((a + n) + 1) = 2 * 2^(a + n) /\ 2^(a + n) = 2^a * 2^n
    <3>1. n \in Nat /\ n < 39 /\ a + n \in Nat /\ a + n < 39
      OBVIOUS
    <3>2. 2^(n + 1) = 2 * 2^n /\ 2^((a + n) + 1) = 2 * 2^(a + n)
      BY <3>1, Doubled
    <3> QED BY <1>2, <3>2
  <2> DEFINE p == 2^a
             q == 2^n
  <2>2. p \in Nat /\ q \in Nat
    BY <1>0
  <2> HIDE DEF p, q
  <2>3. 2 * (p * q) = p * (2 * q)
    BY <2>2
  <2>4. (a + n) + 1 = a + (n + 1) /\ n + 1 \in 0 .. b
    OBVIOUS
  <2> QED BY <2>1, <2>3, <2>4 DEF p, q
<1>3. b \in S
  <2> HIDE DEF S
  <2> QED BY <1>1, <1>2, FromZero
<1> QED BY <1>0, <1>3

\* Quotient and remainder are told by what they add up to.
LEMMA DivMod ==
    ASSUME NEW x \in Int, NEW a \in Nat \ {0}
    PROVE  x \div a \in Int /\ x % a \in 0 .. a - 1 /\ x = a * (x \div a) + (x % a)
OBVIOUS

\* A quotient and a remainder that fit are the ones.
LEMMA DivModOf ==
    ASSUME NEW x \in Int, NEW a \in Nat \ {0}, NEW q \in Int, NEW z \in 0 .. a - 1, x = a * q + z
    PROVE  x \div a = q /\ x % a = z
<1> DEFINE p == x \div a
           y == x % a
<1>1. p \in Int /\ y \in 0 .. a - 1 /\ a * p + y = a * q + z
  BY DivMod
<1> HIDE DEF p, y
<1>2. ~(p > q)
  <2> SUFFICES ASSUME p >= q + 1 PROVE FALSE
    BY <1>1
  <2>1. a * p >= a * (q + 1)
    BY <1>1
  <2>2. a * (q + 1) = a * q + a
    OBVIOUS
  <2>3. a * p \in Int /\ a * q \in Int
    BY <1>1
  <2> QED BY <1>1, <2>1, <2>2, <2>3
<1>3. ~(p < q)
  <2> SUFFICES ASSUME q >= p + 1 PROVE FALSE
    BY <1>1
  <2>1. a * q >= a * (p + 1)
    BY <1>1
  <2>2. a * (p + 1) = a * p + a
    BY <1>1
  <2>3. a * p \in Int /\ a * q \in Int
    BY <1>1
  <2> QED BY <1>1, <2>1, <2>2, <2>3
<1>4. p = q
  BY <1>1, <1>2, <1>3
<1>5. y = z
  BY <1>1, <1>4
<1> QED BY <1>4, <1>5 DEF p, y

\* What is beyond a remainder.
LEMMA ModMore ==
    ASSUME NEW x \in Int, NEW a \in Nat \ {0}, NEW k \in Int
    PROVE  (x + a * k) % a = x % a /\ (x + a * k) \div a = (x \div a) + k
<1>1. x \div a \in Int /\ x % a \in 0 .. a - 1 /\ x = a * (x \div a) + (x % a)
  BY DivMod
<1> DEFINE q == x \div a
           z == x % a
<1>2. a * (q + k) = a * q + a * k
  BY <1>1
<1>3. a * q \in Int /\ a * k \in Int /\ q + k \in Int
  BY <1>1
<1>4. x + a * k = a * (q + k) + z
  <2> HIDE DEF q, z
  <2>1. z \in Int /\ x = a * q + z
    BY <1>1 DEF q, z
  <2> QED BY <1>2, <1>3, <2>1
<1>5. x + a * k \in Int /\ z \in 0 .. a - 1
  BY <1>1, <1>3
<1> HIDE DEF q, z
<1>6. (x + a * k) \div a = q + k /\ (x + a * k) % a = z
  BY <1>3, <1>4, <1>5, DivModOf
<1> QED BY <1>6 DEF q, z

\* A remainder and a digit of the quotient.
LEMMA ModTimes ==
    ASSUME NEW x \in Int, NEW a \in Nat \ {0}, NEW b \in Nat \ {0}
    PROVE  /\ x % (a * b) = (x % a) + a * ((x \div a) % b)
           /\ x \div (a * b) = (x \div a) \div b
           /\ a * b \in Nat \ {0}
<1> DEFINE q == x \div a
           z == x % a
           p == q \div b
           y == q % b
<1>1. q \in Int /\ z \in 0 .. a - 1 /\ x = a * q + z
  BY DivMod
<1>2. p \in Int /\ y \in 0 .. b - 1 /\ q = b * p + y
  BY <1>1, DivMod
<1> HIDE DEF q, z, p, y
<1>3. a * b \in Nat \ {0}
  OBVIOUS
<1>4. x = (a * b) * p + (a * y + z)
  <2>1. a * q = a * (b * p) + a * y
    BY <1>2
  <2>2. a * (b * p) = (a * b) * p
    BY <1>2
  <2>3. (a * b) * p \in Int /\ a * y \in Int
    BY <1>2
  <2> QED BY <1>1, <2>1, <2>2, <2>3
<1>5. a * y + z \in 0 .. a * b - 1
  <2>1. a * y >= 0 /\ a * y \in Int
    BY <1>2
  <2>2. a * y <= a * (b - 1)
    BY <1>2
  <2>3. a * (b - 1) = a * b - a
    OBVIOUS
  <2>4. a * b \in Int
    OBVIOUS
  <2> QED BY <1>1, <2>1, <2>2, <2>3, <2>4
<1>6. x % (a * b) = a * y + z /\ x \div (a * b) = p
  BY <1>2, <1>3, <1>4, <1>5, DivModOf
<1>7. a * y + z = z + a * y
  BY <1>1, <1>2
<1> QED BY <1>3, <1>6, <1>7 DEF q, z, p, y

-----------------------------------------------------------------------------
(* Fields of a report                                                      *)

\* So many bits lie in bytes.
Covered(r, k, n) == \A i \in 0 .. n - 1 : r[(k + i) \div ByteBits] \in Byte

\* A byte has eight bits at most, and a word four bytes.
LEMMA ByteWidth ==
    /\ ByteBits \in Nat \ {0} /\ ByteBits <= 8 /\ WordBits = 4 * ByteBits
    /\ \A b \in Byte : b \in Nat
<1>1. ByteBits \in Nat \ {0} /\ ByteBits <= 8 /\ WordBits = 4 * ByteBits
  BY FieldExtractorAssumption DEF WordBits
<1>2. \A b \in Byte : b \in Nat
  BY DEF Byte
<1> QED BY <1>1, <1>2

\* A byte is a number of as many bits.
LEMMA ByteBelow == ASSUME NEW b \in Byte PROVE b \in Nat /\ b < 2^ByteBits
<1>1. 2^ByteBits \in Nat
  BY ByteWidth, PowerNumber
<1> QED BY <1>1 DEF Byte

\* A bit is 0 or 1.
LEMMA BitNumber ==
    ASSUME NEW r, NEW k \in Nat, r[k \div ByteBits] \in Byte
    PROVE  Bit(r, k) \in {0, 1}
<1>1. ByteBits \in Nat \ {0} /\ k % ByteBits \in 0 .. ByteBits - 1 /\ ByteBits <= 8
  BY ByteWidth, DivMod
<1>2. 2^(k % ByteBits) \in Nat \ {0} /\ r[k \div ByteBits] \in Int
  <2>1. k % ByteBits \in Nat /\ k % ByteBits <= 39
    BY <1>1
  <2>2. r[k \div ByteBits] \in Int
    BY ByteWidth
  <2> QED BY <2>1, <2>2, PowerNumber
<1>3. r[k \div ByteBits] \div 2^(k % ByteBits) \in Int
  BY <1>2, DivMod
<1> QED BY <1>3, DivMod DEF Bit

\* One bit more.
LEMMA BinaryStep ==
    ASSUME NEW r, NEW k \in Nat, NEW n \in Nat, n <= 39, Covered(r, k, n + 1)
    PROVE  /\ Binary(r, k, 0) = 0 /\ Binary(r, k, n) \in Int
           /\ Binary(r, k, n + 1) = Binary(r, k, n) + Bit(r, k + n) * 2^n
<1> DEFINE f(m) == [i \in 0 .. m - 1 |-> Bit(r, k + i) * 2^i]
<1>1. ASSUME NEW i \in 0 .. n PROVE Bit(r, k + i) * 2^i \in Int
  <2>1. r[(k + i) \div ByteBits] \in Byte /\ k + i \in Nat
    BY DEF Covered
  <2>2. Bit(r, k + i) \in {0, 1}
    BY <2>1, BitNumber
  <2>3. 2^i \in Nat
    BY PowerNumber
  <2> QED BY <2>2, <2>3
<1>2. Binary(r, k, 0) = 0
  <2>1. DOMAIN f(0) = {}
    OBVIOUS
  <2> HIDE DEF f
  <2>2. SumFunction(f(0)) = 0
    BY <2>1, SumNothing
  <2> QED BY <2>2 DEF f, Binary
<1>3. DOMAIN f(n) = 0 .. n - 1 /\ DOMAIN f(n + 1) = (0 .. n - 1) \cup {n} /\ n \notin 0 .. n - 1
  OBVIOUS
<1>4. \A i \in 0 .. n - 1 : f(n)[i] \in Int /\ f(n + 1)[i] = f(n)[i]
  BY <1>1
<1>5. f(n + 1)[n] = Bit(r, k + n) * 2^n /\ Bit(r, k + n) * 2^n \in Int
  BY <1>1
<1>6. IsFiniteSet(0 .. n - 1)
  BY FS_Interval
<1>7. Binary(r, k, n) = SumFunction(f(n)) /\ Binary(r, k, n + 1) = SumFunction(f(n + 1))
  BY DEF Binary
<1> HIDE DEF f
<1>8. SumFunction(f(n)) \in Int /\ SumFunction(f(n + 1)) = SumFunction(f(n)) + f(n + 1)[n]
  BY <1>3, <1>4, <1>5, <1>6, SumMore
<1> QED BY <1>2, <1>5, <1>7, <1>8

\* Numbers of n bits.
LEMMA BinaryRange ==
    ASSUME NEW r, NEW k \in Nat, NEW n \in Nat, n <= 39, Covered(r, k, n)
    PROVE  Binary(r, k, n) \in 0 .. 2^n - 1
<1> DEFINE S == {m \in 0 .. n : Binary(r, k, m) \in 0 .. 2^m - 1}
<1>1. 0 \in S
  <2>1. Binary(r, k, 0) = 0
    <3>1. DOMAIN [i \in 0 .. 0 - 1 |-> Bit(r, k + i) * 2^i] = {}
      OBVIOUS
    <3> QED BY <3>1, SumNothing DEF Binary
  <2> QED BY <2>1, PowersListed
<1>2. ASSUME NEW m \in 0 .. n - 1, m \in S PROVE m + 1 \in S
  <2>1. Covered(r, k, m + 1) /\ r[(k + m) \div ByteBits] \in Byte
    BY DEF Covered
  <2>2. Binary(r, k, m + 1) = Binary(r, k, m) + Bit(r, k + m) * 2^m
    <3>1. m \in Nat /\ m <= 39
      OBVIOUS
    <3> QED BY <2>1, <3>1, BinaryStep
  <2>3. Bit(r, k + m) = 0 \/ Bit(r, k + m) = 1
    BY <2>1, BitNumber
  <2>4. 2^m \in Nat /\ 2^(m + 1) = 2 * 2^m
    <3>1. m \in Nat /\ m <= 39 /\ m < 39
      OBVIOUS
    <3> QED BY <3>1, PowerNumber, Doubled
  <2>5. Binary(r, k, m) \in 0 .. 2^m - 1 /\ m + 1 \in 0 .. n
    BY <1>2
  <2> QED BY <2>2, <2>3, <2>4, <2>5
<1>3. n \in S
  <2> HIDE DEF S
  <2> QED BY <1>1, <1>2, FromZero
<1> QED BY <1>3

\* A number of bits is its lower bits and its upper ones.
LEMMA BinarySplit ==
    ASSUME NEW r, NEW k \in Nat, NEW a \in Nat, NEW b \in Nat, a + b <= 39, Covered(r, k, a + b)
    PROVE  /\ Binary(r, k, a) \in Int /\ Binary(r, k + a, b) \in Int
           /\ Binary(r, k, a + b) = Binary(r, k, a) + 2^a * Binary(r, k + a, b)
           /\ Covered(r, k, a) /\ Covered(r, k + a, b)
<1>1. Covered(r, k, a) /\ Covered(r, k + a, b)
  <2>1. Covered(r, k, a)
    BY DEF Covered
  <2>2. ASSUME NEW i \in 0 .. b - 1 PROVE r[((k + a) + i) \div ByteBits] \in Byte
    <3>1. a + i \in 0 .. (a + b) - 1 /\ k + (a + i) = (k + a) + i
      OBVIOUS
    <3> QED BY <3>1 DEF Covered
  <2> QED BY <2>1, <2>2 DEF Covered
<1>2. Binary(r, k, a) \in Int /\ Binary(r, k + a, b) \in Int /\ 2^a \in Nat
  <2>1. 2^a \in Nat /\ 2^b \in Nat
    BY PowerNumber
  <2>2. Binary(r, k, a) \in 0 .. 2^a - 1
    BY <1>1, BinaryRange
  <2>3. Binary(r, k + a, b) \in 0 .. 2^b - 1
    <3>1. k + a \in Nat
      OBVIOUS
    <3> QED BY <1>1, <3>1, BinaryRange
  <2> QED BY <2>1, <2>2, <2>3
<1> DEFINE S == {m \in 0 .. b : /\ Binary(r, k + a, m) \in Int
                                /\ Binary(r, k, a + m) = Binary(r, k, a) + 2^a * Binary(r, k + a, m)}
<1>3. 0 \in S
  <2>1. Binary(r, k + a, 0) = 0
    <3>1. DOMAIN [i \in 0 .. 0 - 1 |-> Bit(r, (k + a) + i) * 2^i] = {}
      OBVIOUS
    <3> QED BY <3>1, SumNothing DEF Binary
  <2>2. a + 0 = a
    OBVIOUS
  <2> QED BY <1>2, <2>1, <2>2
<1>4. ASSUME NEW m \in 0 .. b - 1, m \in S PROVE m + 1 \in S
  <2>0. /\ m \in Nat /\ m <= 39 /\ a + m \in Nat /\ a + m <= 39 /\ k + a \in Nat
        /\ a + m \in 0 .. (a + b) - 1 /\ 0 .. ((a + m) + 1) - 1 \subseteq 0 .. (a + b) - 1
        /\ 0 .. (m + 1) - 1 \subseteq 0 .. b - 1
    OBVIOUS
  <2>1. Covered(r, k, (a + m) + 1) /\ Covered(r, k + a, m + 1) /\ r[(k + (a + m)) \div ByteBits] \in Byte
    <3>1. Covered(r, k, (a + m) + 1) /\ r[(k + (a + m)) \div ByteBits] \in Byte
      BY <2>0 DEF Covered
    <3>2. Covered(r, k + a, m + 1)
      BY <1>1, <2>0 DEF Covered
    <3> QED BY <3>1, <3>2
  <2>2. Binary(r, k, (a + m) + 1) = Binary(r, k, a + m) + Bit(r, k + (a + m)) * 2^(a + m)
    BY <2>0, <2>1, BinaryStep
  <2>3. Binary(r, k + a, m + 1) = Binary(r, k + a, m) + Bit(r, (k + a) + m) * 2^m
    BY <2>0, <2>1, BinaryStep
  <2>4. (k + a) + m = k + (a + m) /\ (a + m) + 1 = a + (m + 1) /\ m + 1 \in 0 .. b
    OBVIOUS
  <2>5. Bit(r, k + (a + m)) \in {0, 1}
    BY <2>1, BitNumber
  <2>6. 2^(a + m) = 2^a * 2^m /\ 2^m \in Nat
    BY PowerSum
  <2> DEFINE x == Bit(r, k + (a + m))
             p == 2^a
             q == 2^m
             v == Binary(r, k + a, m)
             u == Binary(r, k, a)
  <2>7. x \in Int /\ p \in Nat /\ q \in Nat /\ v \in Int /\ u \in Int
    BY <1>2, <1>4, <2>5, <2>6
  <2>8. Binary(r, k, a + (m + 1)) = (u + p * v) + x * (p * q) /\ Binary(r, k + a, m + 1) = v + x * q
    BY <1>4, <2>2, <2>3, <2>4, <2>6
  <2> HIDE DEF x, p, q, v, u
  <2>9. (u + p * v) + x * (p * q) = u + p * (v + x * q) /\ v + x * q \in Int
    <3>1. x * (p * q) = p * (x * q)
      BY <2>7
    <3>2. x * q \in Int
      BY <2>7
    <3>3. p * (v + x * q) = p * v + p * (x * q)
      BY <2>7, <3>2
    <3>4. p * v \in Int /\ p * (x * q) \in Int
      BY <2>7, <3>2
    <3> QED BY <2>7, <3>1, <3>2, <3>3, <3>4
  <2> QED BY <2>4, <2>8, <2>9 DEF u, p
<1>5. b \in S
  <2> HIDE DEF S
  <2> QED BY <1>3, <1>4, FromZero
<1> QED BY <1>1, <1>2, <1>5

\* Bits of one byte.
LEMMA InByte ==
    ASSUME NEW r, NEW j \in Nat, r[j] \in Byte,
           NEW s \in 0 .. ByteBits - 1, NEW n \in 0 .. ByteBits - s
    PROVE  /\ Covered(r, ByteBits * j + s, n)
           /\ Binary(r, ByteBits * j + s, n) = (r[j] \div 2^s) % 2^n
<1> DEFINE k == ByteBits * j + s
<1>0. /\ k \in Nat /\ ByteBits \in Nat \ {0} /\ ByteBits <= 8 /\ ByteBits * j \in Nat
      /\ r[j] \in Int
  <2>1. ByteBits \in Nat \ {0} /\ ByteBits <= 8 /\ r[j] \in Int
    BY ByteWidth
  <2>2. ByteBits * j \in Nat
    BY <2>1
  <2> QED BY <2>1, <2>2
<1>1. ASSUME NEW i \in 0 .. n - 1 PROVE (k + i) \div ByteBits = j /\ (k + i) % ByteBits = s + i
  <2>1. k + i = ByteBits * j + (s + i) /\ s + i \in 0 .. ByteBits - 1 /\ k + i \in Int
    BY <1>0
  <2> HIDE DEF k
  <2> DEFINE x == k + i
             z == s + i
  <2>2. j \in Int /\ x \in Int /\ z \in 0 .. ByteBits - 1 /\ x = ByteBits * j + z
    BY <2>1
  <2> HIDE DEF x, z
  <2>3. x \div ByteBits = j /\ x % ByteBits = z
    BY <1>0, <2>2, DivModOf
  <2> QED BY <2>3 DEF x, z
<1>2. Covered(r, k, n)
  <2> HIDE DEF k
  <2> QED BY <1>1 DEF Covered
<1> HIDE DEF k
<1> DEFINE y == r[j] \div 2^s
           S == {m \in 0 .. n : Binary(r, k, m) = y % 2^m}
<1>3. y \in Int /\ 2^s \in Nat \ {0}
  <2>1. 2^s \in Nat \ {0}
    <3>1. s \in Nat /\ s <= 39
      BY <1>0
    <3> QED BY <3>1, PowerNumber
  <2> QED BY <1>0, <2>1, DivMod
<1>4. 0 \in S
  <2>1. Binary(r, k, 0) = 0
    <3>1. DOMAIN [i \in 0 .. 0 - 1 |-> Bit(r, k + i) * 2^i] = {}
      OBVIOUS
    <3> QED BY <3>1, SumNothing DEF Binary
  <2>2. y % 1 = 0
    BY <1>3
  <2> HIDE DEF y
  <2> QED BY <2>1, <2>2, PowersListed
<1>5. ASSUME NEW m \in 0 .. n - 1, m \in S PROVE m + 1 \in S
  <2>1. Covered(r, k, m + 1) /\ m <= 39 /\ m \in Nat /\ s \in Nat /\ s + m <= 39
    <3>1. m <= 39 /\ m \in Nat /\ s \in Nat /\ s + m <= 39 /\ 0 .. (m + 1) - 1 \subseteq 0 .. n - 1
      BY <1>0
    <3> QED BY <1>2, <3>1 DEF Covered
  <2>2. Binary(r, k, m + 1) = Binary(r, k, m) + Bit(r, k + m) * 2^m
    BY <1>0, <2>1, BinaryStep
  <2>3. 2^(s + m) = 2^s * 2^m /\ 2^m \in Nat \ {0}
    BY <2>1, PowerSum
  <2>4. Bit(r, k + m) = (r[j] \div 2^(s + m)) % 2
    BY <1>1 DEF Bit
  <2>5. r[j] \div 2^(s + m) = y \div 2^m
    <3> DEFINE p == 2^s
               q == 2^m
    <3>1. p \in Nat \ {0} /\ q \in Nat \ {0}
      BY <1>3, <2>3
    <3> HIDE DEF p, q
    <3>2. r[j] \div (p * q) = (r[j] \div p) \div q
      BY <1>0, <3>1, ModTimes
    <3> QED BY <2>3, <3>2 DEF p, q
  <2>6. 2^(m + 1) = 2^m * 2
    <3>1. m \in Nat /\ m < 39
      BY <1>0
    <3>2. 2^(m + 1) = 2 * 2^m
      BY <3>1, Doubled
    <3> QED BY <2>3, <3>2
  <2>7. y % (2^m * 2) = (y % 2^m) + 2^m * ((y \div 2^m) % 2)
    <3> DEFINE q == 2^m
    <3>1. q \in Nat \ {0} /\ 2 \in Nat \ {0}
      BY <2>3
    <3> HIDE DEF y, q
    <3>2. y % (q * 2) = (y % q) + q * ((y \div q) % 2)
      BY <1>3, <3>1, ModTimes
    <3> QED BY <3>2 DEF q
  <2> DEFINE z == (y \div 2^m) % 2
             p == 2^m
  <2>8. z \in Int /\ p \in Int
    <3>1. y \div 2^m \in Int
      BY <1>3, <2>3, DivMod
    <3> QED BY <2>3, <3>1
  <2>9. z * p = p * z
    <3> HIDE DEF z, p
    <3> QED BY <2>8
  <2>10. m + 1 \in 0 .. n /\ Binary(r, k, m) = y % 2^m
    BY <1>5
  <2> HIDE DEF y
  <2> QED BY <2>2, <2>4, <2>5, <2>6, <2>7, <2>9, <2>10
<1>6. n \in S
  <2> HIDE DEF S
  <2> QED BY <1>4, <1>5, FromZero
<1> QED BY <1>2, <1>6 DEF k

\* The rest of a byte is what is left of it when it is shifted; a whole one is itself.
LEMMA RestOfByte ==
    ASSUME NEW r, NEW j \in Nat, r[j] \in Byte, NEW s \in 0 .. ByteBits - 1
    PROVE  /\ Covered(r, ByteBits * j + s, ByteBits - s)
           /\ Binary(r, ByteBits * j + s, ByteBits - s) = r[j] \div 2^s
           /\ s = 0 => r[j] \div 2^s = r[j]
<1>0. ByteBits \in Nat \ {0} /\ ByteBits <= 8 /\ r[j] \in Nat /\ r[j] < 2^ByteBits
  BY ByteWidth, ByteBelow
<1>1. /\ Covered(r, ByteBits * j + s, ByteBits - s)
      /\ Binary(r, ByteBits * j + s, ByteBits - s) = (r[j] \div 2^s) % 2^(ByteBits - s)
  BY <1>0, InByte
<1> DEFINE p == 2^s
           q == 2^(ByteBits - s)
           y == r[j] \div p
<1>2. p \in Nat \ {0} /\ q \in Nat \ {0} /\ 2^ByteBits = p * q
  <2>1. s + (ByteBits - s) = ByteBits
    BY <1>0
  <2> QED BY <1>0, <2>1, PowerSum
<1>3. y \in Int /\ r[j] % p \in 0 .. p - 1 /\ r[j] = p * y + (r[j] % p)
  <2>1. r[j] \in Int /\ p \in Nat \ {0}
    BY <1>0, <1>2
  <2> HIDE DEF p
  <2> QED BY <2>1, DivMod
<1> HIDE DEF p, q
<1>4. y >= 0
  <2> HIDE DEF y
  <2> SUFFICES ASSUME y <= -1 PROVE FALSE
    BY <1>3
  <2>1. p * y <= p * (-1) /\ p * (-1) = -p /\ p * y \in Int
    BY <1>2, <1>3
  <2> QED BY <1>0, <1>2, <1>3, <2>1
<1>5. y < q
  <2> HIDE DEF y
  <2> SUFFICES ASSUME y >= q PROVE FALSE
    BY <1>2, <1>3
  <2>1. p * y >= p * q /\ p * y \in Int /\ p * q \in Int
    BY <1>2, <1>3
  <2> QED BY <1>0, <1>2, <1>3, <2>1
<1>6. y % q = y
  <2> HIDE DEF y
  <2>1. y = q * 0 + y /\ y \in 0 .. q - 1
    BY <1>2, <1>3, <1>4, <1>5
  <2>2. 0 \in Int /\ q \in Nat \ {0} /\ y \in Int
    BY <1>2, <1>3
  <2> QED BY <2>1, <2>2, DivModOf
<1>7. s = 0 => y = r[j]
  <2> SUFFICES ASSUME s = 0 PROVE y = r[j]
    OBVIOUS
  <2>1. p = 1
    BY PowersListed DEF p
  <2>2. r[j] \div 1 = r[j]
    BY <1>0
  <2> QED BY <2>1, <2>2
<1> QED BY <1>1, <1>6, <1>7 DEF p, q

\* A byte more.
LEMMA NextByte ==
    ASSUME NEW r, NEW k \in Nat, NEW n \in Nat, NEW j \in Nat, k + n = ByteBits * j,
           n + ByteBits <= 39, Covered(r, k, n), r[j] \in Byte
    PROVE  /\ Covered(r, k, n + ByteBits)
           /\ Binary(r, k, n + ByteBits) = Binary(r, k, n) + r[j] * 2^n
<1>1. ByteBits \in Nat \ {0} /\ 0 \in 0 .. ByteBits - 1 /\ ByteBits - 0 = ByteBits
  BY ByteWidth
<1>2. ByteBits * j + 0 = k + n
  BY <1>1
<1>3. Covered(r, k + n, ByteBits) /\ Binary(r, k + n, ByteBits) = r[j]
  <2>1. /\ Covered(r, ByteBits * j + 0, ByteBits - 0)
        /\ Binary(r, ByteBits * j + 0, ByteBits - 0) = r[j] \div 2^0
        /\ r[j] \div 2^0 = r[j]
    BY <1>1, RestOfByte
  <2> QED BY <1>1, <1>2, <2>1
<1>4. Covered(r, k, n + ByteBits)
  <2> SUFFICES ASSUME NEW i \in 0 .. (n + ByteBits) - 1 PROVE r[(k + i) \div ByteBits] \in Byte
    BY DEF Covered
  <2>1. CASE i < n
    BY <2>1 DEF Covered
  <2>2. CASE i >= n
    <3>1. i - n \in 0 .. ByteBits - 1 /\ (k + n) + (i - n) = k + i
      BY <1>1, <2>2
    <3>2. r[((k + n) + (i - n)) \div ByteBits] \in Byte
      BY <1>3, <3>1 DEF Covered
    <3> QED BY <3>1, <3>2
  <2> QED BY <2>1, <2>2
<1>5. Binary(r, k, n + ByteBits) = Binary(r, k, n) + 2^n * Binary(r, k + n, ByteBits)
  <2>1. k \in Nat /\ n \in Nat /\ ByteBits \in Nat /\ n + ByteBits <= 39
    BY <1>1
  <2>2. /\ Binary(r, k, n) \in Int /\ Binary(r, k + n, ByteBits) \in Int
        /\ Binary(r, k, n + ByteBits) = Binary(r, k, n) + 2^n * Binary(r, k + n, ByteBits)
        /\ Covered(r, k, n) /\ Covered(r, k + n, ByteBits)
    BY <1>4, <2>1, BinarySplit
  <2> QED BY <2>2
<1>6. 2^n * r[j] = r[j] * 2^n
  <2>1. n <= 39
    BY <1>1
  <2>2. 2^n \in Nat /\ r[j] \in Nat
    BY <2>1, PowerNumber, ByteBelow
  <2> QED BY <2>2
<1> QED BY <1>3, <1>4, <1>5, <1>6

\* Bytes that are joined.
LEMMA JoinedBinary ==
    ASSUME NEW r, NEW j \in Nat, NEW n \in 1 .. 4, \A i \in 0 .. n - 1 : r[j + i] \in Byte
    PROVE  Joined(r, j, n) = Binary(r, ByteBits * j, n * ByteBits)
<1> DEFINE k == ByteBits * j
           at(i) == IF i < n THEN r[j + i] * 2^(ByteBits * i) ELSE 0
           Sum(i) == Binary(r, k, i * ByteBits)
<1>0. /\ ByteBits \in Nat \ {0} /\ ByteBits <= 8 /\ k \in Nat
  <2>1. ByteBits \in Nat \ {0} /\ ByteBits <= 8
    BY ByteWidth
  <2> QED BY <2>1
<1>1. ASSUME NEW i \in 0 .. 3, i < n, Covered(r, k, i * ByteBits)
      PROVE  Covered(r, k, (i + 1) * ByteBits) /\ Sum(i + 1) = Sum(i) + at(i)
  <2>1. /\ i * ByteBits \in Nat /\ (i + 1) * ByteBits = i * ByteBits + ByteBits
        /\ i * ByteBits + ByteBits <= 39 /\ k + i * ByteBits = ByteBits * (j + i)
        /\ j + i \in Nat /\ r[j + i] \in Byte /\ i * ByteBits = ByteBits * i
    <3>1. i = 0 \/ i = 1 \/ i = 2 \/ i = 3
      OBVIOUS
    <3>2. r[j + i] \in Byte
      BY <1>1
    <3> QED BY <1>0, <3>1, <3>2
  <2> HIDE DEF k
  <2>2. /\ Covered(r, k, i * ByteBits + ByteBits)
        /\ Binary(r, k, i * ByteBits + ByteBits) = Binary(r, k, i * ByteBits) + r[j + i] * 2^(i * ByteBits)
    BY <1>0, <1>1, <2>1, NextByte
  <2>3. at(i) = r[j + i] * 2^(i * ByteBits)
    BY <1>1, <2>1
  <2> HIDE DEF at
  <2> QED BY <2>1, <2>2, <2>3
<1>2. Covered(r, k, 0 * ByteBits) /\ Sum(0) = 0
  <2>1. 0 * ByteBits = 0 /\ Covered(r, k, 0)
    BY <1>0 DEF Covered
  <2>2. Binary(r, k, 0) = 0
    <3>1. DOMAIN [i \in 0 .. 0 - 1 |-> Bit(r, k + i) * 2^i] = {}
      OBVIOUS
    <3> QED BY <3>1, SumNothing DEF Binary
  <2> QED BY <2>1, <2>2
<1>3. Joined(r, j, n) = at(0) + at(1) + at(2) + at(3)
  BY DEF Joined
<1>4. ASSUME NEW i \in 0 .. 3 PROVE at(i) \in Int /\ (i >= n => at(i) = 0)
  <2>1. CASE i < n
    <3>1. ByteBits * i \in Nat /\ ByteBits * i <= 39
      <4>1. i = 0 \/ i = 1 \/ i = 2 \/ i = 3
        OBVIOUS
      <4> QED BY <1>0, <4>1
    <3>2. 2^(ByteBits * i) \in Nat /\ r[j + i] \in Nat
      <4>1. r[j + i] \in Byte
        BY <2>1
      <4> QED BY <3>1, <4>1, PowerNumber, ByteBelow
    <3> QED BY <2>1, <3>2
  <2>2. CASE ~(i < n)
    BY <2>2
  <2> QED BY <2>1, <2>2
<1> HIDE DEF at, k, Sum
<1>5. Covered(r, k, 1 * ByteBits) /\ Sum(1) = at(0)
  <2>1. 0 \in 0 .. 3 /\ 0 < n /\ 0 + 1 = 1
    OBVIOUS
  <2> QED BY <1>1, <1>2, <1>4, <2>1
<1>6. n >= 2 => Covered(r, k, 2 * ByteBits) /\ Sum(2) = at(0) + at(1)
  <2>1. 1 \in 0 .. 3 /\ 1 + 1 = 2
    OBVIOUS
  <2> QED BY <1>1, <1>5, <2>1
<1>7. n >= 3 => Covered(r, k, 3 * ByteBits) /\ Sum(3) = at(0) + at(1) + at(2)
  <2>1. 2 \in 0 .. 3 /\ 2 + 1 = 3
    OBVIOUS
  <2> QED BY <1>1, <1>6, <2>1
<1>8. n >= 4 => Sum(4) = at(0) + at(1) + at(2) + at(3)
  <2>1. 3 \in 0 .. 3 /\ 3 + 1 = 4
    OBVIOUS
  <2> QED BY <1>1, <1>7, <2>1
<1>9. Joined(r, j, n) = Sum(n)
  <2>1. CASE n = 1
    BY <1>3, <1>4, <1>5, <2>1
  <2>2. CASE n = 2
    BY <1>3, <1>4, <1>6, <2>2
  <2>3. CASE n = 3
    BY <1>3, <1>4, <1>7, <2>3
  <2>4. CASE n = 4
    BY <1>3, <1>4, <1>8, <2>4
  <2> QED BY <2>1, <2>2, <2>3, <2>4
<1> QED BY <1>9 DEF Sum, k

\* A number of so many bits as two's complement.
LEMMA AsSignedOf ==
    ASSUME NEW b \in 1 .. 39, NEW v \in 0 .. 2^b - 1
    PROVE  /\ 2^b = 2 * 2^(b - 1) /\ 2^(b - 1) \in Nat \ {0}
           /\ AsSigned(v, b) = IF v >= 2^(b - 1) THEN v - 2^b ELSE v
<1>1. b - 1 \in Nat /\ b - 1 <= 39 /\ b - 1 < 39 /\ (b - 1) + 1 = b
  OBVIOUS
<1>2. 2^b = 2 * 2^(b - 1) /\ 2^(b - 1) \in Nat \ {0}
  <2>1. 2^((b - 1) + 1) = 2 * 2^(b - 1)
    BY <1>1, Doubled
  <2> QED BY <1>1, <2>1, PowerNumber
<1> DEFINE p == 2^b
<1>3. p \in Nat \ {0} /\ v \in 0 .. p - 1
  BY <1>2
<1>4. v % p = v
  <2> HIDE DEF p
  <2> QED BY <1>3
<1> QED BY <1>2, <1>4 DEF AsSigned

\* What lies beyond a word says nothing about the lower bits.
LEMMA WordKeeps ==
    ASSUME NEW x \in Int, NEW n \in 0 .. WordBits
    PROVE  \E c \in Int : ToWord(x) = x + 2^n * c
<1> DEFINE p == 2^n
           q == 2^(WordBits - n)
           y == x \div (p * q)
<1>1. WordBits \in Nat /\ WordBits <= 32
  BY ByteWidth
<1>2. p \in Nat \ {0} /\ q \in Nat \ {0} /\ 2^WordBits = p * q
  <2>1. n \in Nat /\ WordBits - n \in Nat /\ n + (WordBits - n) = WordBits
    BY <1>1
  <2>2. n + (WordBits - n) <= 39
    BY <1>1
  <2> QED BY <2>1, <2>2, PowerSum
<1> HIDE DEF p, q
<1>3. y \in Int /\ x % (p * q) \in Int /\ x = (p * q) * y + (x % (p * q))
  <2> DEFINE m == p * q
  <2>1. m \in Nat \ {0}
    BY <1>2
  <2> HIDE DEF m
  <2>2. x \div m \in Int /\ x % m \in Int /\ x = m * (x \div m) + (x % m)
    BY <2>1, DivMod
  <2> QED BY <2>2 DEF m
<1>4. (p * q) * y = -(p * (-(q * y)))
  <2> HIDE DEF y
  <2> QED BY <1>2, <1>3
<1>5. -(q * y) \in Int
  <2> HIDE DEF y
  <2> QED BY <1>2, <1>3
<1>6. p * (-(q * y)) \in Int
  <2> DEFINE z == -(q * y)
  <2>1. z \in Int
    BY <1>5
  <2> HIDE DEF z
  <2>2. p * z \in Int
    BY <1>2, <2>1
  <2> QED BY <2>2 DEF z
<1>7. x % (p * q) = x + p * (-(q * y))
  BY <1>3, <1>4, <1>6
<1> QED BY <1>2, <1>5, <1>7 DEF ToWord, p

-----------------------------------------------------------------------------
(* The extractor                                                           *)

\* What a number is as two's complement depends on its lower bits only, and one of those
\* that there are is itself.
LEMMA AsSignedWord ==
    ASSUME NEW x \in Int
    PROVE  /\ 2^WordBits = 2 * 2^(WordBits - 1) /\ 2^(WordBits - 1) \in Nat \ {0}
           /\ AsSigned(ToWord(x), WordBits) = AsSigned(x, WordBits)
           /\ -(2^(WordBits - 1)) <= x /\ x < 2^(WordBits - 1) => AsSigned(x, WordBits) = x
<1>1. WordBits \in 1 .. 39
  BY ByteWidth
<1>2. 2^WordBits = 2 * 2^(WordBits - 1) /\ 2^(WordBits - 1) \in Nat \ {0}
  <2>1. 0 \in 0 .. 2^WordBits - 1
    <3>1. 2^WordBits \in Nat \ {0}
      BY <1>1, PowerNumber
    <3> QED BY <3>1
  <2> QED BY <1>1, <2>1, AsSignedOf
<1> DEFINE h == 2^(WordBits - 1)
           p == 2^WordBits
<1>3. p = 2 * h /\ h \in Nat \ {0}
  BY <1>2
<1>4. (x % p) % p = x % p
  <2> HIDE DEF h, p
  <2>1. p \in Nat \ {0}
    BY <1>3
  <2>2. x % p \in 0 .. p - 1
    BY <2>1, DivMod
  <2> QED BY <2>1, <2>2
<1>5. AsSigned(ToWord(x), WordBits) = AsSigned(x, WordBits)
  BY <1>4 DEF AsSigned, ToWord
<1>6. ASSUME -h <= x, x < h PROVE (IF x % p >= h THEN (x % p) - p ELSE x % p) = x
  <2> HIDE DEF h, p
  <2>1. CASE x >= 0
    <3>1. x % p = x
      BY <1>3, <1>6, <2>1
    <3> QED BY <1>6, <3>1, <1>3
  <2>2. CASE x < 0
    <3>1. x + p \in 0 .. p - 1 /\ x = p * (-1) + (x + p) /\ p \in Nat \ {0}
      BY <1>3, <1>6, <2>2
    <3>2. x % p = x + p
      BY <3>1, DivModOf
    <3> QED BY <1>3, <1>6, <3>2
  <2> QED BY <2>1, <2>2
<1>7. -h <= x /\ x < h => AsSigned(x, WordBits) = x
  BY <1>6 DEF AsSigned
<1> QED BY <1>2, <1>5, <1>7

\* The bytes that n bits from the k-th on lie in.
FieldBytes(k, n) == k \div ByteBits .. (k + n - 1) \div ByteBits

\* The bits of a field are covered where its bytes are there.
LEMMA BytesCovered ==
    ASSUME NEW r, NEW k \in Nat, NEW n \in Nat \ {0}, \A i \in FieldBytes(k, n) : r[i] \in Byte
    PROVE  Covered(r, k, n)
<1> SUFFICES ASSUME NEW i \in 0 .. n - 1 PROVE (k + i) \div ByteBits \in FieldBytes(k, n)
  BY DEF Covered
<1>1. CASE ByteBits = 2
  BY <1>1 DEF FieldBytes
<1>2. CASE ByteBits = 4
  BY <1>2 DEF FieldBytes
<1>3. CASE ByteBits = 8
  BY <1>3 DEF FieldBytes
<1> QED BY <1>1, <1>2, <1>3, FieldExtractorAssumption

\* The powers of whole bytes.
LEMMA BytePowers ==
    /\ ByteBits \in 2 .. 8
    /\ 2^ByteBits = 2 * 2^(ByteBits - 1)
    /\ 2^(2 * ByteBits) = 2^ByteBits * 2^ByteBits
    /\ 2^(3 * ByteBits) = 2^ByteBits * 2^(2 * ByteBits)
    /\ 2^(3 * ByteBits) = 2 * 2^(3 * ByteBits - 1)
    /\ 2^(3 * ByteBits - 1) = 2^(ByteBits - 1) * 2^(2 * ByteBits)
    /\ 2 * 2^(3 * ByteBits) <= 2^WordBits
    /\ \A n \in {2^ByteBits, 2^(ByteBits - 1), 2^(2 * ByteBits), 2^(3 * ByteBits),
                 2^(3 * ByteBits - 1), 2^WordBits} : n \in Nat \ {0}
<1>1. CASE ByteBits = 2
  BY <1>1, PowersListed DEF WordBits
<1>2. CASE ByteBits = 4
  BY <1>2, PowersListed DEF WordBits
<1>3. CASE ByteBits = 8
  BY <1>3, PowersListed DEF WordBits
<1> QED BY <1>1, <1>2, <1>3, FieldExtractorAssumption

\* Three bytes with the highest extended by itself are extended as a whole.
LEMMA ThreeBytes ==
    ASSUME NEW r, NEW j \in Nat, \A i \in 0 .. 2 : r[j + i] \in Byte
    PROVE  AsSigned(Joined(r, j, 2) + ToWord(AsSigned(r[j + 2], ByteBits) * 2^(2 * ByteBits)), WordBits)
               = AsSigned(Joined(r, j, 3), 3 * ByteBits)
<1> DEFINE b == r[j + 2]
           h == 2^(ByteBits - 1)
           q == 2^(2 * ByteBits)
           p == 2^ByteBits
           A == 2^(3 * ByteBits - 1)
           M == 2^WordBits
           J == Joined(r, j, 2)
           c == b * q
<1>1. /\ p = 2 * h /\ A = h * q /\ 2^(3 * ByteBits) = 2 * A /\ 4 * A <= M
      /\ p \in Nat \ {0} /\ h \in Nat \ {0} /\ q \in Nat \ {0} /\ A \in Nat \ {0} /\ M \in Nat \ {0}
      /\ ByteBits \in 2 .. 8
  BY BytePowers
<1>2. b \in Nat /\ b < p
  <2>1. r[j + 2] \in Byte
    OBVIOUS
  <2> QED BY <2>1, ByteBelow
<1>3. J \in 0 .. q - 1
  <2>1. \A i \in 0 .. 2 - 1 : r[j + i] \in Byte
    OBVIOUS
  <2>2. J = Binary(r, ByteBits * j, 2 * ByteBits)
    BY <2>1, JoinedBinary
  <2>3. Covered(r, ByteBits * j, 2 * ByteBits)
    <3>1. \A i \in FieldBytes(ByteBits * j, 2 * ByteBits) : r[i] \in Byte
      <4>1. \A i \in FieldBytes(ByteBits * j, 2 * ByteBits) : i = j + 0 \/ i = j + 1
        <5>1. CASE ByteBits = 2
          BY <5>1 DEF FieldBytes
        <5>2. CASE ByteBits = 4
          BY <5>2 DEF FieldBytes
        <5>3. CASE ByteBits = 8
          BY <5>3 DEF FieldBytes
        <5> QED BY <5>1, <5>2, <5>3, FieldExtractorAssumption
      <4>2. r[j + 0] \in Byte /\ r[j + 1] \in Byte
        BY <2>1
      <4> QED BY <4>1, <4>2
    <3>2. ByteBits * j \in Nat /\ 2 * ByteBits \in Nat \ {0}
      BY <1>1
    <3> QED BY <3>1, <3>2, BytesCovered
  <2>4. ByteBits * j \in Nat /\ 2 * ByteBits \in Nat /\ 2 * ByteBits <= 39
    BY <1>1
  <2> QED BY <2>2, <2>3, <2>4, BinaryRange
<1>4. Joined(r, j, 3) = J + c
  <2>1. r[j] \in Nat /\ r[j + 0] = r[j] /\ r[j + 1] \in Nat /\ r[j + 2] \in Nat
    <3>1. r[j + 0] \in Byte /\ r[j + 1] \in Byte /\ r[j + 2] \in Byte /\ j + 0 = j
      OBVIOUS
    <3> QED BY <3>1, ByteBelow
  <2>2. /\ 2^(ByteBits * 0) \in Nat /\ 2^(ByteBits * 1) \in Nat /\ 2^(ByteBits * 2) \in Nat
        /\ 2^(ByteBits * 2) = q
    <3>1. /\ ByteBits * 0 \in Nat /\ ByteBits * 1 \in Nat /\ ByteBits * 2 \in Nat
          /\ ByteBits * 2 = 2 * ByteBits /\ ByteBits * 0 <= 39 /\ ByteBits * 1 <= 39
          /\ ByteBits * 2 <= 39
      BY <1>1
    <3> QED BY <3>1, PowerNumber
  <2> DEFINE a0 == r[j + 0] * 2^(ByteBits * 0)
             a1 == r[j + 1] * 2^(ByteBits * 1)
  <2>3. a0 \in Int /\ a1 \in Int /\ c \in Int
    BY <1>1, <2>1, <2>2
  <2>4. Joined(r, j, 3) = a0 + a1 + r[j + 2] * 2^(ByteBits * 2) + 0
    BY DEF Joined
  <2>5. J = a0 + a1 + 0 + 0
    BY DEF Joined
  <2>6. r[j + 2] * 2^(ByteBits * 2) = c
    BY <2>2
  <2> HIDE DEF a0, a1, c, J
  <2> QED BY <2>3, <2>4, <2>5, <2>6
<1>5. /\ c \in Nat
      /\ b < h => c + q <= A
      /\ b >= h => A <= c /\ c + q <= 2 * A
  <2> HIDE DEF b, h, q, p, A, M
  <2>1. b < h => (b + 1) * q <= h * q
    BY <1>1, <1>2
  <2>2. b >= h => h * q <= b * q
    BY <1>1, <1>2
  <2>3. (b + 1) * q <= (2 * h) * q
    BY <1>1, <1>2
  <2>4. (b + 1) * q = b * q + q /\ (2 * h) * q = 2 * (h * q) /\ b * q \in Nat
    BY <1>1, <1>2
  <2> QED BY <1>1, <2>1, <2>2, <2>3, <2>4
<1>6. AsSigned(b, ByteBits) = IF b >= h THEN b - p ELSE b
  <2>1. b \in 0 .. 2^ByteBits - 1 /\ ByteBits \in 1 .. 39
    BY <1>1, <1>2
  <2> HIDE DEF b
  <2> QED BY <2>1, AsSignedOf
<1>7. AsSigned(b, ByteBits) * q = IF b >= h THEN c - 2 * A ELSE c
  <2> HIDE DEF b, h, q, p, A, M
  <2>1. (b - p) * q = b * q - (2 * h) * q
    BY <1>1, <1>2
  <2>2. (2 * h) * q = 2 * (h * q)
    BY <1>1
  <2> QED BY <1>1, <1>6, <2>1, <2>2
<1>8. AsSigned(J + c, 3 * ByteBits) = IF J + c >= A THEN (J + c) - 2 * A ELSE J + c
  <2> DEFINE v == J + c
  <2>1. v \in 0 .. 2^(3 * ByteBits) - 1
    <3> HIDE DEF b, h, q, p, A, M, J, c
    <3> QED BY <1>1, <1>2, <1>3, <1>5
  <2>2. 3 * ByteBits \in 1 .. 39
    BY <1>1
  <2> HIDE DEF v
  <2>3. AsSigned(v, 3 * ByteBits) = IF v >= A THEN v - 2^(3 * ByteBits) ELSE v
    BY <2>1, <2>2, AsSignedOf
  <2>4. 2^(3 * ByteBits) = 2 * A
    BY <1>1
  <2>5. AsSigned(v, 3 * ByteBits) = IF v >= A THEN v - 2 * A ELSE v
    BY <2>3, <2>4, Zenon
  <2> QED BY <2>5 DEF v
<1>9. J + c >= A <=> b >= h
  <2> HIDE DEF b, h, q, p, A, M, J, c
  <2> QED BY <1>1, <1>2, <1>3, <1>5
<1> DEFINE x == IF b >= h THEN (J + c) - 2 * A ELSE J + c
           t == IF b >= h THEN c - 2 * A ELSE c
<1>10. AsSigned(J + ToWord(t), WordBits) = AsSigned(x, WordBits)
  <2>1. ToWord(t) = IF b >= h THEN t + M ELSE t
    <3>2. /\ b < h => t \in 0 .. M - 1
          /\ b >= h => t + M \in 0 .. M - 1 /\ t = M * (-1) + (t + M)
      <4> HIDE DEF b, h, q, p, A, M, J, c
      <4> QED BY <1>1, <1>2, <1>3, <1>5
    <3>3. t \in Int
      <4> HIDE DEF b, h, q, p, A, M, J, c
      <4> QED BY <1>1, <1>2, <1>3, <1>5
    <3>4. t % M = IF b >= h THEN t + M ELSE t
      <4> HIDE DEF b, h, q, p, A, M, J, c, t
      <4>1. CASE b >= h
        <5>1. t \in Int /\ M \in Nat \ {0} /\ -1 \in Int /\ t + M \in 0 .. M - 1
              /\ t = M * (-1) + (t + M)
          BY <1>1, <3>2, <3>3, <4>1
        <5>2. t \div M = -1 /\ t % M = t + M
          BY <5>1, DivModOf
        <5> QED BY <4>1, <5>2
      <4>2. CASE b < h
        BY <1>1, <3>2, <3>3, <4>2
      <4> QED BY <1>1, <1>2, <4>1, <4>2
    <3> QED BY <3>4 DEF ToWord
  <2>2. x \in Int /\ J + ToWord(t) = IF b >= h THEN x + M ELSE x
    <3> HIDE DEF b, h, q, p, A, M, J, c
    <3> QED BY <1>1, <1>2, <1>3, <1>5, <2>1
  <2>3. AsSigned(x + M, WordBits) = AsSigned(x, WordBits)
    <3>1. (x + M) % M = x % M
      <4> HIDE DEF x, M
      <4>0. x \in Int /\ M \in Nat \ {0} /\ 1 \in Int
        BY <1>1, <2>2
      <4>1. (x + M * 1) % M = x % M /\ (x + M * 1) \div M = (x \div M) + 1
        BY <4>0, ModMore, Zenon
      <4>2. M * 1 = M
        BY <1>1
      <4> QED BY <4>1, <4>2
    <3> QED BY <3>1 DEF AsSigned
  <2> QED BY <2>2, <2>3
<1>11. AsSigned(x, WordBits) = x
  <2>1. 2^WordBits = 2 * 2^(WordBits - 1) /\ 2^(WordBits - 1) \in Nat \ {0}
    BY AsSignedWord
  <2>2. x \in Int /\ -(2^(WordBits - 1)) <= x /\ x < 2^(WordBits - 1)
    <3> DEFINE H == 2^(WordBits - 1)
    <3>1. M = 2 * H /\ H \in Nat
      BY <2>1
    <3> HIDE DEF b, h, q, p, A, M, J, c, H
    <3>2. x \in Int /\ -H <= x /\ x < H
      BY <1>1, <1>2, <1>3, <1>5, <3>1
    <3> QED BY <3>2 DEF H
  <2> QED BY <2>2, AsSignedWord
<1>12. x = AsSigned(Joined(r, j, 3), 3 * ByteBits)
  BY <1>4, <1>8, <1>9
<1>13. t = AsSigned(r[j + 2], ByteBits) * 2^(2 * ByteBits)
  BY <1>7
<1> HIDE DEF x, t
<1> QED BY <1>10, <1>11, <1>12, <1>13

\* Whole bytes are the number that their bits are.
LEMMA AlignedRead ==
    ASSUME NEW r, NEW k \in Nat, NEW n \in 1 .. WordBits, NEW relative \in BOOLEAN,
           k % ByteBits = 0, n % ByteBits = 0, \A i \in FieldBytes(k, n) : r[i] \in Byte
    PROVE  Extract(Configured(k, n, relative), r)
               = AsSigned(Binary(r, k, n), IF relative THEN n ELSE WordBits)
<1> DEFINE f == Configured(k, n, relative)
           j == k \div ByteBits
           size == n \div ByteBits
<1>1. /\ f.byte_aligned /\ f.signed = relative /\ f.offset = k /\ f.length = n
  BY DEF Configured
<1>2. j \in Nat /\ k = ByteBits * j /\ size \in 1 .. 4 /\ n = size * ByteBits
      /\ \A i \in 0 .. size - 1 : j + i \in FieldBytes(k, n)
  <2>1. CASE ByteBits = 2
    BY <2>1 DEF FieldBytes, WordBits
  <2>2. CASE ByteBits = 4
    BY <2>2 DEF FieldBytes, WordBits
  <2>3. CASE ByteBits = 8
    BY <2>3 DEF FieldBytes, WordBits
  <2> QED BY <2>1, <2>2, <2>3, FieldExtractorAssumption
<1>3. \A i \in 0 .. size - 1 : r[j + i] \in Byte
  BY <1>2
<1>4. f.offset \div ByteBits = j /\ f.length \div ByteBits = size
  BY <1>1
<1> HIDE DEF f, j, size
<1>5. Joined(r, j, size) = Binary(r, k, n)
  BY <1>2, <1>3, JoinedBinary
<1>6. CASE ~relative
  <2>1. (IF size \in 1 .. 3 THEN size ELSE 4) = size
    BY <1>2
  <2> QED BY <1>1, <1>4, <1>5, <1>6, <2>1 DEF Extract, AlignedUnsigned, f
<1>7. CASE relative
  <2>1. Extract(f, r) = AlignedSigned(f, r)
    BY <1>1, <1>7 DEF Extract
  <2>2. CASE size \in {1, 2}
    <3>1. AlignedSigned(f, r) = AsSigned(Joined(r, j, size), size * ByteBits)
      BY <1>4, <2>2 DEF AlignedSigned
    <3> QED BY <1>2, <1>5, <1>7, <2>1, <3>1 DEF f
  <2>3. CASE size = 3
    <3>1. AlignedSigned(f, r) =
              AsSigned(Joined(r, j, 2) + ToWord(AsSigned(r[j + 2], ByteBits) * 2^(2 * ByteBits)),
                       WordBits)
      BY <1>4, <2>3 DEF AlignedSigned
    <3>2. \A i \in 0 .. 2 : r[j + i] \in Byte
      <4>1. size - 1 = 2
        BY <2>3
      <4> QED BY <1>3, <4>1
    <3>3. AlignedSigned(f, r) = AsSigned(Joined(r, j, 3), 3 * ByteBits)
      BY <1>2, <3>1, <3>2, ThreeBytes
    <3> QED BY <1>2, <1>5, <1>7, <2>1, <2>3, <3>3 DEF f
  <2>4. CASE size = 4
    <3>1. AlignedSigned(f, r) = AsSigned(Joined(r, j, 4), WordBits)
      BY <1>4, <2>4 DEF AlignedSigned
    <3>2. n = WordBits
      BY <1>2, <2>4 DEF WordBits
    <3> QED BY <1>5, <1>7, <2>1, <2>4, <3>1, <3>2 DEF f
  <2> QED BY <1>2, <2>2, <2>3, <2>4
<1> QED BY <1>6, <1>7

\* Where an unaligned field lies.
LEMMA SpanBytes ==
    ASSUME NEW k \in Nat, NEW n \in 1 .. WordBits - 1, NEW relative
    PROVE  LET f == Configured(k, n, relative)
               s == k % ByteBits
               j == k \div ByteBits
           IN  /\ LimitedSize(f) = n /\ f.offset = k
               /\ ByteBits \in 2 .. 8
               /\ s \in 0 .. ByteBits - 1 /\ j \in Nat /\ k = ByteBits * j + s
               /\ Span(f) \in 1 .. 5 /\ ByteBits * Span(f) - s \in n .. 39
               /\ \A i \in 0 .. Span(f) - 1 : j + i \in FieldBytes(k, n)
<1> DEFINE f == Configured(k, n, relative)
           s == k % ByteBits
           j == k \div ByteBits
           span == (s + n + ByteBits - 1) \div ByteBits
<1>1. f.offset = k /\ f.length = n
  BY DEF Configured
<1>2. LimitedSize(f) = n
  <2>1. WordBits \in Nat
    BY ByteWidth
  <2> QED BY <1>1, <2>1 DEF LimitedSize
<1>3. Span(f) = span
  BY <1>1, <1>2 DEF Span
<1>4. /\ ByteBits \in 2 .. 8
      /\ s \in 0 .. ByteBits - 1 /\ j \in Nat /\ k = ByteBits * j + s
      /\ span \in 1 .. 5 /\ ByteBits * span - s \in n .. 39
      /\ \A i \in 0 .. span - 1 : j + i \in FieldBytes(k, n)
  <2>1. CASE ByteBits = 2
    BY <2>1 DEF FieldBytes, WordBits
  <2>2. CASE ByteBits = 4
    BY <2>2 DEF FieldBytes, WordBits
  <2>3. CASE ByteBits = 8
    BY <2>3 DEF FieldBytes, WordBits
  <2> QED BY <2>1, <2>2, <2>3, FieldExtractorAssumption
<1> HIDE DEF f, span
<1> QED BY <1>1, <1>2, <1>3, <1>4 DEF f

\* The lower bits of the bytes that are put together are those of the field.
LEMMA ShiftedRead ==
    ASSUME NEW r, NEW k \in Nat, NEW n \in 1 .. WordBits - 1, NEW relative,
           \A i \in FieldBytes(k, n) : r[i] \in Byte
    PROVE  Shifted(Configured(k, n, relative), r) % 2^n = Binary(r, k, n)
<1> DEFINE f == Configured(k, n, relative)
           s == k % ByteBits
           j == k \div ByteBits
           N == Span(f)
           t(i) == r[j + i] * 2^((ByteBits * i) - s)
           at(i) == IF i >= N THEN 0 ELSE IF i = 0 THEN r[j] \div 2^s ELSE ToWord(t(i))
           Z(i) == Binary(r, k, (ByteBits * i) - s)
<1>1. /\ f.offset = k /\ LimitedSize(f) = n /\ ByteBits \in 2 .. 8
      /\ s \in 0 .. ByteBits - 1 /\ j \in Nat /\ k = ByteBits * j + s
      /\ N \in 1 .. 5 /\ ByteBits * N - s \in n .. 39
      /\ \A i \in 0 .. N - 1 : r[j + i] \in Byte
  BY SpanBytes
<1>2. Shifted(f, r) = at(0) + at(1) + at(2) + at(3) + at(4)
  BY <1>1 DEF Shifted
<1> HIDE DEF f, s, j, N
<1>3. /\ Covered(r, k, (ByteBits * 1) - s) /\ Z(1) = r[j] \div 2^s /\ at(0) = Z(1)
      /\ at(0) \in Int
  <2>1. r[j] \in Byte
    <3>1. r[j + 0] \in Byte /\ j + 0 = j
      BY <1>1
    <3> QED BY <3>1
  <2>2. /\ Covered(r, ByteBits * j + s, ByteBits - s)
        /\ Binary(r, ByteBits * j + s, ByteBits - s) = r[j] \div 2^s
        /\ s = 0 => r[j] \div 2^s = r[j]
    BY <1>1, <2>1, RestOfByte
  <2>3. ByteBits * 1 = ByteBits /\ ~(0 >= N)
    BY <1>1
  <2>4. r[j] \div 2^s \in Int
    <3>1. r[j] \in Int
      BY <2>1, ByteBelow
    <3>2. 2^s \in Nat \ {0}
      <4>1. s \in Nat /\ s <= 39
        BY <1>1
      <4> QED BY <4>1, PowerNumber
    <3> QED BY <3>1, <3>2, DivMod
  <2> QED BY <1>1, <2>2, <2>3, <2>4
<1>4. ASSUME NEW i \in 1 .. 4, i < N, Covered(r, k, (ByteBits * i) - s)
      PROVE  Covered(r, k, (ByteBits * (i + 1)) - s) /\ Z(i + 1) = Z(i) + t(i)
  <2> DEFINE m == (ByteBits * i) - s
  <2>1. /\ m \in Nat /\ m + ByteBits <= 39 /\ k + m = ByteBits * (j + i)
        /\ (ByteBits * (i + 1)) - s = m + ByteBits /\ j + i \in Nat
    <3>1. i = 1 \/ i = 2 \/ i = 3 \/ i = 4
      OBVIOUS
    <3>2. N = 1 \/ N = 2 \/ N = 3 \/ N = 4 \/ N = 5
      BY <1>1
    <3> QED BY <1>1, <1>4, <3>1, <3>2
  <2>2. r[j + i] \in Byte
    <3>1. i \in 0 .. N - 1
      BY <1>1, <1>4
    <3> QED BY <1>1, <3>1
  <2>3. Covered(r, k, m)
    BY <1>4
  <2> HIDE DEF m
  <2>4. /\ Covered(r, k, m + ByteBits)
        /\ Binary(r, k, m + ByteBits) = Binary(r, k, m) + r[j + i] * 2^m
    BY <2>1, <2>2, <2>3, NextByte
  <2> QED BY <2>1, <2>4 DEF m
<1> DEFINE u(i) == IF i >= N THEN 0 ELSE t(i)
<1>5. ASSUME NEW i \in 1 .. 4
      PROVE  u(i) \in Int /\ \E c \in Int : at(i) = u(i) + 2^n * c
  <2>0. 2^n \in Nat
    <3>1. n \in Nat /\ n <= 39
      BY ByteWidth
    <3> QED BY <3>1, PowerNumber
  <2>1. CASE i >= N
    <3>1. 0 = 0 + 2^n * 0 /\ 0 \in Int
      BY <2>0
    <3>2. at(i) = 0 /\ u(i) = 0
      BY <2>1
    <3> HIDE DEF at, u
    <3>3. at(i) = u(i) + 2^n * 0 /\ u(i) \in Int
      BY <3>1, <3>2, Zenon
    <3> QED BY <3>1, <3>3, Zenon
  <2>2. CASE ~(i >= N)
    <3>1. t(i) \in Int
      <4>1. i \in 0 .. N - 1
        BY <1>1, <2>2
      <4>2. r[j + i] \in Nat
        BY <1>1, <4>1, ByteBelow
      <4>3. (ByteBits * i) - s \in Nat /\ (ByteBits * i) - s <= 39
        <5>1. i = 1 \/ i = 2 \/ i = 3 \/ i = 4
          OBVIOUS
        <5> QED BY <1>1, <5>1
      <4>4. 2^((ByteBits * i) - s) \in Nat
        BY <4>3, PowerNumber
      <4> QED BY <4>2, <4>4
    <3> HIDE DEF t
    <3>2. n \in 0 .. WordBits
      BY ByteWidth
    <3>3. PICK c \in Int : ToWord(t(i)) = t(i) + 2^n * c
      BY <3>1, <3>2, WordKeeps
    <3>4. at(i) = ToWord(t(i)) /\ u(i) = t(i)
      BY <2>2
    <3> HIDE DEF at, u
    <3> QED BY <3>1, <3>3, <3>4
  <2> QED BY <2>1, <2>2
<1> HIDE DEF t, at, Z
<1>6. N >= 2 => Covered(r, k, (ByteBits * 2) - s) /\ Z(2) = at(0) + u(1)
  <2>1. 1 \in 1 .. 4 /\ 1 + 1 = 2 /\ (N >= 2 => 1 < N /\ ~(1 >= N))
    BY <1>1
  <2> QED BY <1>3, <1>4, <2>1
<1>7. N >= 3 => Covered(r, k, (ByteBits * 3) - s) /\ Z(3) = at(0) + u(1) + u(2)
  <2>1. 2 \in 1 .. 4 /\ 2 + 1 = 3 /\ (N >= 3 => 2 < N /\ ~(2 >= N) /\ N >= 2)
    BY <1>1
  <2> QED BY <1>6, <1>4, <2>1
<1>8. N >= 4 => Covered(r, k, (ByteBits * 4) - s) /\ Z(4) = at(0) + u(1) + u(2) + u(3)
  <2>1. 3 \in 1 .. 4 /\ 3 + 1 = 4 /\ (N >= 4 => 3 < N /\ ~(3 >= N) /\ N >= 3)
    BY <1>1
  <2> QED BY <1>7, <1>4, <2>1
<1>9. N >= 5 => Covered(r, k, (ByteBits * 5) - s) /\ Z(5) = at(0) + u(1) + u(2) + u(3) + u(4)
  <2>1. 4 \in 1 .. 4 /\ 4 + 1 = 5 /\ (N >= 5 => 4 < N /\ ~(4 >= N) /\ N >= 4)
    BY <1>1
  <2> QED BY <1>8, <1>4, <2>1
<1>10. \A i \in 1 .. 4 : i >= N => u(i) = 0
  OBVIOUS
<1>11. \A i \in 1 .. 4 : u(i) \in Int
  BY <1>5
<1> HIDE DEF u
<1>12. Covered(r, k, (ByteBits * N) - s) /\ Z(N) = at(0) + u(1) + u(2) + u(3) + u(4)
  <2>0. /\ u(1) \in Int /\ u(2) \in Int /\ u(3) \in Int /\ u(4) \in Int /\ at(0) \in Int
        /\ 1 >= N => u(1) = 0
        /\ 2 >= N => u(2) = 0
        /\ 3 >= N => u(3) = 0
        /\ 4 >= N => u(4) = 0
    BY <1>3, <1>10, <1>11
  <2>1. CASE N = 1
    BY <1>3, <2>0, <2>1
  <2>2. CASE N = 2
    BY <1>6, <2>0, <2>2
  <2>3. CASE N = 3
    BY <1>7, <2>0, <2>3
  <2>4. CASE N = 4
    BY <1>8, <2>0, <2>4
  <2>5. CASE N = 5
    BY <1>9, <2>0, <2>5
  <2> QED BY <1>1, <2>1, <2>2, <2>3, <2>4, <2>5
<1> DEFINE p == 2^n
           rest == Binary(r, k + n, ((ByteBits * N) - s) - n)
<1>13. p \in Nat \ {0} /\ Binary(r, k, n) \in 0 .. p - 1 /\ rest \in Int
       /\ Z(N) = Binary(r, k, n) + p * rest
  <2> DEFINE b == ((ByteBits * N) - s) - n
  <2>1. /\ n \in Nat /\ n <= 39 /\ b \in Nat /\ n + b = (ByteBits * N) - s /\ n + b <= 39
    <3>1. N = 1 \/ N = 2 \/ N = 3 \/ N = 4 \/ N = 5
      BY <1>1
    <3> QED BY <1>1, <3>1, ByteWidth
  <2> HIDE DEF b
  <2>2. /\ Binary(r, k, n) \in Int /\ Binary(r, k + n, b) \in Int
        /\ Binary(r, k, n + b) = Binary(r, k, n) + 2^n * Binary(r, k + n, b)
        /\ Covered(r, k, n) /\ Covered(r, k + n, b)
    BY <1>12, <2>1, BinarySplit
  <2>3. Binary(r, k, n) \in 0 .. 2^n - 1
    BY <2>1, <2>2, BinaryRange
  <2>4. 2^n \in Nat \ {0}
    BY <2>1, PowerNumber
  <2> QED BY <2>1, <2>2, <2>3, <2>4 DEF b, Z
<1>14. PICK c1 \in Int : at(1) = u(1) + p * c1
  <2>1. 1 \in 1 .. 4
    OBVIOUS
  <2> QED BY <1>5, <2>1, Zenon
<1>15. PICK c2 \in Int : at(2) = u(2) + p * c2
  <2>1. 2 \in 1 .. 4
    OBVIOUS
  <2> QED BY <1>5, <2>1, Zenon
<1>16. PICK c3 \in Int : at(3) = u(3) + p * c3
  <2>1. 3 \in 1 .. 4
    OBVIOUS
  <2> QED BY <1>5, <2>1, Zenon
<1>17. PICK c4 \in Int : at(4) = u(4) + p * c4
  <2>1. 4 \in 1 .. 4
    OBVIOUS
  <2> QED BY <1>5, <2>1, Zenon
<1> HIDE DEF p, rest
<1> DEFINE v == Binary(r, k, n)
           q == rest + c1 + c2 + c3 + c4
<1>18. q \in Int /\ v \in 0 .. p - 1
  BY <1>13
<1>19. p * q = p * rest + p * c1 + p * c2 + p * c3 + p * c4
  BY <1>13
<1>20. Shifted(f, r) = p * q + v
  <2>1. /\ p * rest \in Int /\ p * c1 \in Int /\ p * c2 \in Int /\ p * c3 \in Int
        /\ p * c4 \in Int /\ v \in Int
    BY <1>13
  <2> HIDE DEF q, v
  <2>2. u(1) \in Int /\ u(2) \in Int /\ u(3) \in Int /\ u(4) \in Int /\ at(0) \in Int
    BY <1>3, <1>11
  <2>3. at(0) + u(1) + u(2) + u(3) + u(4) = v + p * rest
    BY <1>12, <1>13 DEF v
  <2> QED BY <1>2, <1>14, <1>15, <1>16, <1>17, <1>19, <2>1, <2>2, <2>3
<1> HIDE DEF q, v
<1>21. Shifted(f, r) \in Int
  BY <1>13, <1>18, <1>20
<1>22. Shifted(f, r) \div p = q /\ Shifted(f, r) % p = v
  BY <1>13, <1>18, <1>20, <1>21, DivModOf
<1> QED BY <1>22 DEF p, v, f

\* Turning the highest bit and taking it away again extends it.
LEMMA TurnedBack ==
    ASSUME NEW n \in 1 .. WordBits - 1, NEW v \in 0 .. 2^n - 1, NEW relative \in BOOLEAN
    PROVE  LET mask == IF relative THEN 2^(n - 1) ELSE 0
               turned == IF v >= mask THEN v - mask ELSE v + mask
           IN  AsSigned(ToWord(turned - mask), WordBits)
                   = AsSigned(v, IF relative THEN n ELSE WordBits)
<1> DEFINE h == 2^(n - 1)
           mask == IF relative THEN h ELSE 0
           turned == IF v >= mask THEN v - mask ELSE v + mask
           x == turned - mask
           H == 2^(WordBits - 1)
<1>1. 2^n = 2 * h /\ h \in Nat \ {0} /\ AsSigned(v, n) = IF v >= h THEN v - 2^n ELSE v
  <2>1. n \in 1 .. 39
    BY ByteWidth
  <2> QED BY <2>1, AsSignedOf
<1>2. v \in Nat /\ v < 2 * h
  <2> HIDE DEF h
  <2> QED BY <1>1
<1>3. x = IF relative THEN (IF v >= h THEN v - 2 * h ELSE v) ELSE v
  <2> HIDE DEF h
  <2> QED BY <1>1, <1>2
<1>4. x \in Int /\ AsSigned(ToWord(x), WordBits) = AsSigned(x, WordBits)
  <2>1. x \in Int
    <3> HIDE DEF x, h
    <3> QED BY <1>1, <1>2, <1>3
  <2> HIDE DEF x
  <2> QED BY <2>1, AsSignedWord
<1>5. ASSUME relative PROVE AsSigned(x, WordBits) = AsSigned(v, n)
  <2>1. h <= H /\ H \in Nat
    <3>1. n - 1 \in Nat /\ (WordBits - 1) - (n - 1) \in Nat
          /\ (n - 1) + ((WordBits - 1) - (n - 1)) = WordBits - 1 /\ WordBits - 1 <= 39
      BY ByteWidth
    <3> DEFINE a == n - 1
               b == (WordBits - 1) - (n - 1)
    <3>2. /\ 2^a \in Nat \ {0} /\ 2^b \in Nat \ {0} /\ 2^(a + b) \in Nat \ {0}
          /\ 2^(a + b) = 2^a * 2^b
      <4> HIDE DEF a, b
      <4>1. a \in Nat /\ b \in Nat /\ a + b <= 39
        BY <3>1 DEF a, b
      <4> QED BY <4>1, PowerSum
    <3> DEFINE y == 2^b
    <3>3. H = h * y /\ y \in Nat \ {0} /\ h \in Nat
      BY <3>1, <3>2
    <3> HIDE DEF h, H, y
    <3> QED BY <3>3
  <2>2. x \in Int /\ -H <= x /\ x < H
    <3> HIDE DEF x, h, H
    <3> QED BY <1>1, <1>2, <1>3, <1>5, <2>1
  <2>3. AsSigned(x, WordBits) = x
    <3> HIDE DEF x
    <3> QED BY <2>2, AsSignedWord
  <2>4. AsSigned(v, n) = x
    <3> HIDE DEF x, h
    <3> QED BY <1>1, <1>3, <1>5
  <2> QED BY <2>3, <2>4
<1>6. ~relative => x = v
  BY <1>3
<1> HIDE DEF x
<1>7. AsSigned(ToWord(x), WordBits) = AsSigned(v, IF relative THEN n ELSE WordBits)
  BY <1>4, <1>5, <1>6
<1> QED BY <1>7 DEF x

\* FieldRead: by either method of the extractor, wherever a field begins and however long it
\* is, what is read is the number that its bits are in binary, in two's complement if it is
\* signed (FieldExtractor::extract).
THEOREM FieldRead ==
    ASSUME NEW r, NEW k \in Nat, NEW n \in 1 .. WordBits, NEW relative \in BOOLEAN,
           n = WordBits => k % ByteBits = 0,
           \A i \in k \div ByteBits .. (k + n - 1) \div ByteBits : r[i] \in Byte
    PROVE  /\ Binary(r, k, n) \in 0 .. 2^n - 1
           /\ Extract(Configured(k, n, relative), r)
                  = AsSigned(Binary(r, k, n), IF relative THEN n ELSE WordBits)
<1> DEFINE f == Configured(k, n, relative)
<1>1. \A i \in FieldBytes(k, n) : r[i] \in Byte
  BY DEF FieldBytes
<1>2. n \in Nat \ {0} /\ n <= 39 /\ WordBits \in Nat
  BY ByteWidth
<1>3. Binary(r, k, n) \in 0 .. 2^n - 1
  <2>1. Covered(r, k, n)
    BY <1>1, <1>2, BytesCovered
  <2> QED BY <1>2, <2>1, BinaryRange
<1>4. CASE k % ByteBits = 0 /\ n % ByteBits = 0
  BY <1>1, <1>3, <1>4, AlignedRead
<1>5. CASE ~(k % ByteBits = 0 /\ n % ByteBits = 0)
  <2>1. n \in 1 .. WordBits - 1
    <3>1. n # WordBits
      <4>1. WordBits % ByteBits = 0
        BY FieldExtractorAssumption DEF WordBits
      <4> QED BY <1>5, <4>1
    <3> QED BY <1>2, <3>1
  <2>2. ~f.byte_aligned /\ f.signed = relative
    BY <1>5 DEF Configured
  <2>3. LimitedSize(f) = n
    BY <2>1, SpanBytes
  <2>4. Shifted(f, r) % 2^n = Binary(r, k, n)
    BY <1>1, <2>1, ShiftedRead
  <2> DEFINE v == Binary(r, k, n)
             mask == IF relative THEN 2^(n - 1) ELSE 0
             turned == IF v >= mask THEN v - mask ELSE v + mask
  <2>5. Extract(f, r) = AsSigned(ToWord(turned - mask), WordBits)
    <3> HIDE DEF f
    <3> QED BY <2>2, <2>3, <2>4 DEF Extract, Unaligned
  <2>6. AsSigned(ToWord(turned - mask), WordBits) = AsSigned(v, IF relative THEN n ELSE WordBits)
    BY <1>3, <2>1, TurnedBack
  <2> QED BY <1>3, <2>5, <2>6
<1> QED BY <1>4, <1>5

-----------------------------------------------------------------------------
(* The report of a mouse                                                   *)

\* The largest of some numbers up to a bound is one of them.
LEMMA Largest ==
    ASSUME NEW b \in Nat, NEW S, S \subseteq 0 .. b, S # {}
    PROVE  Max(S) \in S /\ \A j \in S : j <= Max(S)
<1> DEFINE T == {b - j : j \in S}
<1>1. T \subseteq Nat /\ T # {}
  <2>1. \A j \in S : b - j \in Nat
    OBVIOUS
  <2> QED BY <2>1
<1> HIDE DEF T
<1>2. PICK m \in T : \A k \in T : m <= k
  BY <1>1, Least
<1> USE DEF T
<1>3. PICK x \in S : m = b - x
  BY <1>2
<1>4. \A j \in S : x >= j
  <2> SUFFICES ASSUME NEW j \in S PROVE x >= j
    OBVIOUS
  <2>1. b - j \in T
    OBVIOUS
  <2>2. m <= b - j
    BY <1>2, <2>1
  <2>3. x \in Int /\ j \in Int /\ b \in Int
    OBVIOUS
  <2> QED BY <1>3, <2>2, <2>3
<1>5. Max(S) \in S /\ \A j \in S : Max(S) >= j
  BY <1>3, <1>4 DEF Max
<1> QED BY <1>5

\* The value of an item is a number, and the item is one before.
LEMMA LatestNumber ==
    ASSUME NEW d \in Seq(Item), NEW i \in 1 .. Len(d) + 1, NEW item
    PROVE  /\ Latest(d, i, item) \in Nat
           /\ Before(d, i, {item}) # {} => Max(Before(d, i, {item})) \in Before(d, i, {item})
<1>1. CASE Before(d, i, {item}) = {}
  BY <1>1 DEF Latest
<1>2. CASE Before(d, i, {item}) # {}
  <2>1. Before(d, i, {item}) \subseteq 0 .. Len(d) /\ Len(d) \in Nat
    BY DEF Before
  <2>2. Max(Before(d, i, {item})) \in Before(d, i, {item})
    BY <1>2, <2>1, Largest
  <2>3. \A j \in Before(d, i, {item}) : d[j].data \in Nat
    <3> SUFFICES ASSUME NEW j \in Before(d, i, {item}) PROVE d[j].data \in Nat
      OBVIOUS
    <3>1. j \in 1 .. Len(d)
      BY DEF Before
    <3>2. d[j] \in Item
      BY <3>1
    <3> QED BY <3>2 DEF Item
  <2> QED BY <1>2, <2>2, <2>3 DEF Latest
<1> QED BY <1>1, <1>2

\* The application collection changes only with the next one of depth 0.
LEMMA ApplicationStep ==
    ASSUME NEW d, Nested(d), NEW i \in 1 .. Len(d), DepthAt(d, i + 1) > 0
    PROVE  IF d[i].item = "collection" /\ DepthAt(d, i) = 0
           THEN Application(d, i + 1) = Latest(d, i, "usage")
           ELSE DepthAt(d, i) > 0 /\ Application(d, i + 1) = Application(d, i)
<1>0. Len(d) \in Nat /\ i \in Nat \ {0} /\ DepthAt(d, i) \in 0 .. 255
  BY DEF Nested
<1>1. Application(d, i + 1) = IF d[i].item = "collection" /\ DepthAt(d, i) = 0
                              THEN Latest(d, i, "usage") ELSE Application(d, i)
  BY <1>0, CollectionStep DEF Application
<1>2. CASE d[i].item = "collection"
  <2>1. DepthAt(d, i) = 0 \/ DepthAt(d, i) > 0
    <3> DEFINE x == DepthAt(d, i)
    <3>1. x \in 0 .. 255
      BY <1>0
    <3> HIDE DEF x
    <3>2. x = 0 \/ x > 0
      BY <3>1
    <3> QED BY <3>2 DEF x
  <2> QED BY <1>1, <1>2, <2>1
<1>3. CASE d[i].item # "collection"
  <2>1. DepthAt(d, i) > 0
    BY <1>0, <1>3, DepthStep
  <2> QED BY <1>1, <1>3, <2>1
<1> QED BY <1>2, <1>3

\* What begins the report of a mouse.
MouseCollection(d, k) ==
    /\ k \in 1 .. Len(d) /\ d[k].item = "collection" /\ DepthAt(d, k) = 0
    /\ Latest(d, k, "usage") = Desktop.mouse

\* What is in a mouse's collection is behind its beginning.
LEMMA InMouse ==
    ASSUME NEW d, Nested(d), NEW i \in 1 .. Len(d) + 1,
           DepthAt(d, i) > 0, Application(d, i) = Desktop.mouse
    PROVE  \E k \in 1 .. i - 1 : MouseCollection(d, k)
<1> DEFINE S == {n \in 0 .. Len(d) : DepthAt(d, n + 1) > 0 /\ Application(d, n + 1) = Desktop.mouse
                                         => \E k \in 1 .. n : MouseCollection(d, k)}
<1>0. Len(d) \in Nat
  BY DEF Nested
<1>1. 0 \in S
  <2>1. DepthAt(d, 0 + 1) = 0
    BY BeforeFirst
  <2> QED BY <1>0, <2>1
<1>2. ASSUME NEW n \in 0 .. Len(d) - 1, n \in S PROVE n + 1 \in S
  <2> SUFFICES ASSUME DepthAt(d, (n + 1) + 1) > 0, Application(d, (n + 1) + 1) = Desktop.mouse
               PROVE  \E k \in 1 .. n + 1 : MouseCollection(d, k)
    BY <1>0
  <2>1. n + 1 \in 1 .. Len(d)
    BY <1>0
  <2>2. CASE d[n + 1].item = "collection" /\ DepthAt(d, n + 1) = 0
    <3>1. MouseCollection(d, n + 1)
      BY <2>1, <2>2, ApplicationStep DEF MouseCollection
    <3> QED BY <2>1, <3>1
  <2>3. CASE ~(d[n + 1].item = "collection" /\ DepthAt(d, n + 1) = 0)
    <3>1. DepthAt(d, n + 1) > 0 /\ Application(d, n + 1) = Application(d, (n + 1) + 1)
      BY <2>1, <2>3, ApplicationStep
    <3>2. PICK k \in 1 .. n : MouseCollection(d, k)
      BY <1>2, <3>1
    <3> QED BY <3>2
  <2> QED BY <2>2, <2>3
<1>3. \A n \in 0 .. Len(d) : n \in S
  <2> HIDE DEF S
  <2> QED BY <1>0, <1>1, <1>2, FromZero
<1>4. i - 1 \in 0 .. Len(d) /\ (i - 1) + 1 = i
  BY <1>0
<1>5. i - 1 \in S
  BY <1>3, <1>4
<1> QED BY <1>4, <1>5

\* The items of the mouse's report that are behind the parser when item i is next.
Seen(d, i, items) == {j \in MouseItems(d, items) : j < i}

\* Where its next input begins then.
Offset(d, i) == (IF Seen(d, i, {"report_id"}) = {} THEN 0 ELSE ByteBits)
                    + SumFunction([j \in Seen(d, i, Input) |-> Bits(d, j)])

\* One item later there is that item more, if it is of the report.
LEMMA SeenStep ==
    ASSUME NEW d, Nested(d), NEW i \in 1 .. Len(d), NEW items
    PROVE  /\ Seen(d, i + 1, items) = IF i \in MouseItems(d, items) THEN Seen(d, i, items) \cup {i}
                                      ELSE Seen(d, i, items)
           /\ i \notin Seen(d, i, items)
           /\ IsFiniteSet(Seen(d, i, items))
<1>1. Len(d) \in Nat
  BY DEF Nested
<1>2. MouseItems(d, items) \subseteq 1 .. Len(d)
  BY DEF MouseItems
<1>3. IsFiniteSet(Seen(d, i, items))
  <2>1. Seen(d, i, items) \in SUBSET (1 .. Len(d))
    BY <1>2 DEF Seen
  <2>2. IsFiniteSet(1 .. Len(d))
    BY <1>1, FS_Interval
  <2> QED BY <2>1, <2>2, FS_Subset
<1>4. \A j \in MouseItems(d, items) : j < i + 1 <=> j < i \/ j = i
  BY <1>1, <1>2
<1> QED BY <1>1, <1>3, <1>4 DEF Seen

\* Nothing of a mouse's report is before its collection.
LEMMA SeenNone ==
    ASSUME NEW d, Nested(d), Regular(d), NEW i, MouseCollection(d, i)
    PROVE  /\ Seen(d, i + 1, Input) = {} /\ Seen(d, i + 1, {"report_id"}) = {}
           /\ Offset(d, i + 1) = 0
<1>0. Len(d) \in Nat /\ i \in 1 .. Len(d)
  BY DEF Nested, MouseCollection
<1>1. ASSUME NEW items \in {Input, {"report_id"}} PROVE Seen(d, i + 1, items) = {}
  <2> SUFFICES ASSUME NEW j \in Seen(d, i + 1, items) PROVE FALSE
    OBVIOUS
  <2>1. j \in 1 .. Len(d) /\ j <= i /\ d[j].item \in Input \cup {"report_id"}
        /\ Application(d, j) = Desktop.mouse
    BY <1>0, <1>1 DEF Seen, MouseItems
  <2>2. DepthAt(d, j) > 0
    BY <2>1 DEF Regular
  <2>3. j \in 1 .. Len(d) + 1
    BY <1>0, <2>1
  <2>4. PICK k \in 1 .. j - 1 : MouseCollection(d, k)
    BY <2>1, <2>2, <2>3, InMouse
  <2>5. k = i
    BY <1>0, <2>4 DEF Regular, MouseCollection
  <2> QED BY <1>0, <2>1, <2>4, <2>5
<1>2. Seen(d, i + 1, Input) = {} /\ Seen(d, i + 1, {"report_id"}) = {}
  BY <1>1
<1>3. SumFunction([j \in Seen(d, i + 1, Input) |-> Bits(d, j)]) = 0
  BY <1>2, SumNothing
<1> QED BY <1>2, <1>3 DEF Offset

\* An input has a number of bits.
LEMMA BitsNumber ==
    ASSUME NEW d, Nested(d), NEW i \in 1 .. Len(d)
    PROVE  Bits(d, i) \in Nat
<1>1. d \in Seq(Item) /\ i \in 1 .. Len(d) + 1
  <2>1. d \in Seq(Item) /\ Len(d) \in Nat
    BY DEF Nested
  <2> QED BY <2>1
<1>2. Latest(d, i, "report_size") \in Nat /\ Latest(d, i, "report_count") \in Nat
  BY <1>1, LatestNumber
<1> QED BY <1>2 DEF Bits

\* An input is as much further as it has bits.
LEMMA OffsetInput ==
    ASSUME NEW d, Nested(d), NEW i \in MouseItems(d, Input)
    PROVE  Offset(d, i + 1) = Offset(d, i) + Bits(d, i)
<1>0. i \in 1 .. Len(d) /\ d[i].item # "report_id"
  BY DEF MouseItems, Input
<1> DEFINE f == [j \in Seen(d, i, Input) |-> Bits(d, j)]
           g == [j \in Seen(d, i + 1, Input) |-> Bits(d, j)]
           id == IF Seen(d, i, {"report_id"}) = {} THEN 0 ELSE ByteBits
<1>1. /\ Seen(d, i + 1, Input) = Seen(d, i, Input) \cup {i}
      /\ i \notin Seen(d, i, Input)
      /\ IsFiniteSet(Seen(d, i, Input))
  BY <1>0, SeenStep
<1>2. Seen(d, i + 1, {"report_id"}) = Seen(d, i, {"report_id"})
  <2>1. i \notin MouseItems(d, {"report_id"})
    BY <1>0 DEF MouseItems
  <2> QED BY <1>0, <2>1, SeenStep
<1>3. \A j \in Seen(d, i + 1, Input) : Bits(d, j) \in Int
  <2>1. \A j \in Seen(d, i + 1, Input) : j \in 1 .. Len(d)
    BY DEF Seen, MouseItems
  <2>2. \A n \in Nat : n \in Int
    OBVIOUS
  <2> QED BY <2>1, <2>2, BitsNumber, Zenon
<1>4. DOMAIN f = Seen(d, i, Input) /\ DOMAIN g = DOMAIN f \cup {i}
  BY <1>1
<1>5. /\ \A j \in DOMAIN f : f[j] \in Int /\ g[j] = f[j]
      /\ g[i] = Bits(d, i) /\ g[i] \in Int
  BY <1>1, <1>3
<1> HIDE DEF f, g
<1>6. SumFunction(f) \in Int /\ SumFunction(g) = SumFunction(f) + g[i]
  BY <1>1, <1>4, <1>5, SumMore
<1>7. Offset(d, i) = id + SumFunction(f) /\ Offset(d, i + 1) = id + SumFunction(g)
  BY <1>2 DEF Offset, f, g
<1>8. id \in Int
  BY ByteWidth
<1> HIDE DEF id
<1> QED BY <1>5, <1>6, <1>7, <1>8

\* Any other item leaves it, but for the report's ID.
LEMMA OffsetOther ==
    ASSUME NEW d, Nested(d), NEW i \in 1 .. Len(d), d[i].item \notin Input \cup {"report_id"}
    PROVE  Offset(d, i + 1) = Offset(d, i)
<1>1. i \notin MouseItems(d, Input) /\ i \notin MouseItems(d, {"report_id"})
  BY DEF MouseItems
<1>2. /\ Seen(d, i + 1, Input) = Seen(d, i, Input)
      /\ Seen(d, i + 1, {"report_id"}) = Seen(d, i, {"report_id"})
  BY <1>1, SeenStep
<1> QED BY <1>2 DEF Offset

\* The one mouse input that there is tells of the report's ID.
LEMMA OneId ==
    ASSUME NEW d, Nested(d), Regular(d), NEW i \in MouseItems(d, Input)
    PROVE  /\ MouseItems(d, {"report_id"}) = Seen(d, i, {"report_id"})
           /\ \E m : MouseItems(d, {"report_id"}) \subseteq {m}
           /\ MouseItems(d, {"report_id"}) = {} <=> Latest(d, i, "report_id") = 0
           /\ \A m \in MouseItems(d, {"report_id"}) : Latest(d, i, "report_id") = d[m].data
<1> DEFINE B == Before(d, i, {"report_id"})
           M == MouseItems(d, {"report_id"})
<1>0. i \in 1 .. Len(d) /\ Len(d) \in Nat /\ d \in Seq(Item)
  BY DEF MouseItems, Nested
<1>1. M = IF Latest(d, i, "report_id") = 0 THEN {} ELSE {Max(B)}
  BY DEF Regular
<1>2. CASE Latest(d, i, "report_id") = 0
  BY <1>1, <1>2 DEF Seen
<1>3. CASE Latest(d, i, "report_id") # 0
  <2>1. B # {} /\ Latest(d, i, "report_id") = d[Max(B)].data
    BY <1>3 DEF Latest
  <2>2. i \in 1 .. Len(d) + 1
    BY <1>0
  <2>3. Max(B) \in B
    BY <1>0, <2>1, <2>2, LatestNumber
  <2>4. Max(B) < i
    BY <1>0, <2>3 DEF Before
  <2>5. M = {Max(B)}
    BY <1>1, <1>3
  <2>6. Seen(d, i, {"report_id"}) = {Max(B)}
    BY <2>4, <2>5 DEF Seen
  <2> HIDE DEF B, M
  <2>7. M = Seen(d, i, {"report_id"}) /\ M \subseteq {Max(B)} /\ M # {}
    BY <2>5, <2>6
  <2> QED BY <1>3, <2>1, <2>5, <2>7 DEF M
<1> QED BY <1>2, <1>3

\* An input of the mouse begins where the inputs before it end, behind the ID.
LEMMA InputPosition ==
    ASSUME NEW d, Nested(d), Regular(d), NEW i \in MouseItems(d, Input)
    PROVE  Position(d, i) = Offset(d, i)
<1> DEFINE id == Latest(d, i, "report_id")
<1>0. i \in 1 .. Len(d) /\ Len(d) \in Nat
  BY DEF MouseItems, Nested
<1>1. {j \in Before(d, i, Input) : Latest(d, j, "report_id") = id} = Seen(d, i, Input)
  <2>1. \A j \in Before(d, i, Input) : Latest(d, j, "report_id") = id <=> j \in MouseItems(d, Input)
    BY DEF Regular
  <2>2. \A j \in MouseItems(d, Input) : j < i <=> j \in Before(d, i, Input)
    BY <1>0 DEF MouseItems, Before
  <2> QED BY <2>1, <2>2 DEF Seen, Before
<1>2. id = 0 <=> Seen(d, i, {"report_id"}) = {}
  BY OneId
<1> QED BY <1>1, <1>2 DEF Position, Offset

\* The mouse's report has one ID at most.
LEMMA IdSeen ==
    ASSUME NEW d, Nested(d), Regular(d), NEW i \in MouseItems(d, {"report_id"})
    PROVE  Seen(d, i, {"report_id"}) = {} /\ Seen(d, i + 1, {"report_id"}) = {i}
<1>1. PICK j : j \in MouseInputs(d, "relative")
  BY DEF Regular
<1>2. j \in MouseItems(d, Input)
  BY <1>1 DEF MouseInputs, MouseItems, Input
<1>3. PICK m : MouseItems(d, {"report_id"}) \subseteq {m}
  BY <1>2, OneId
<1>4. i \in 1 .. Len(d)
  BY DEF MouseItems
<1>5. i \notin Seen(d, i, {"report_id"})
  BY <1>4, SeenStep
<1>6. Seen(d, i, {"report_id"}) = {}
  BY <1>3, <1>5 DEF Seen
<1> QED BY <1>4, <1>6, SeenStep

\* It takes a byte.
LEMMA OffsetId ==
    ASSUME NEW d, Nested(d), Regular(d), NEW i \in MouseItems(d, {"report_id"})
    PROVE  Offset(d, i + 1) = Offset(d, i) + ByteBits
<1> DEFINE sum == SumFunction([j \in Seen(d, i, Input) |-> Bits(d, j)])
<1>1. i \in 1 .. Len(d) /\ i \notin MouseItems(d, Input)
  BY DEF MouseItems, Input
<1>2. Seen(d, i + 1, Input) = Seen(d, i, Input)
  BY <1>1, SeenStep
<1>3. sum \in Int
  <2> DEFINE f == [j \in Seen(d, i, Input) |-> Bits(d, j)]
  <2>1. IsFiniteSet(DOMAIN f)
    BY <1>1, SeenStep
  <2>2. \A j \in DOMAIN f : f[j] \in Int
    <3>1. \A j \in Seen(d, i, Input) : j \in 1 .. Len(d)
      BY DEF Seen, MouseItems
    <3>2. \A n \in Nat : n \in Int
      OBVIOUS
    <3>3. \A j \in Seen(d, i, Input) : Bits(d, j) \in Int
      BY <3>1, <3>2, BitsNumber, Zenon
    <3> QED BY <3>3
  <2> HIDE DEF f
  <2>3. SumFunctionOnSet(f, DOMAIN f) \in Int
    BY <2>1, <2>2, SumRecursion
  <2> QED BY <2>3 DEF SumFunction, f
<1>4. Offset(d, i) = 0 + sum /\ Offset(d, i + 1) = ByteBits + sum
  BY <1>2, IdSeen DEF Offset
<1>5. ByteBits \in Int
  BY ByteWidth
<1> HIDE DEF sum
<1> QED BY <1>3, <1>4, <1>5

\* What expected_report_id is when item i is next.
Expected(d, i) ==
    LET ids == Seen(d, i, {"report_id"}) IN IF ids = {} THEN 0 ELSE d[CHOOSE m \in ids : TRUE].data

\* An item changes it only if it is the ID of the mouse's report.
LEMMA ExpectedStep ==
    ASSUME NEW d, Nested(d), Regular(d), NEW i \in 1 .. Len(d)
    PROVE  Expected(d, i + 1) =
               IF d[i].item = "report_id" /\ Application(d, i) = Desktop.mouse THEN d[i].data
               ELSE Expected(d, i)
<1>1. i \in MouseItems(d, {"report_id"}) <=>
          d[i].item = "report_id" /\ Application(d, i) = Desktop.mouse
  BY DEF MouseItems
<1>2. CASE i \in MouseItems(d, {"report_id"})
  <2>1. Seen(d, i + 1, {"report_id"}) = {i}
    BY <1>2, IdSeen
  <2>2. (CHOOSE m \in {i} : TRUE) = i
    OBVIOUS
  <2> QED BY <1>1, <1>2, <2>1, <2>2 DEF Expected
<1>3. CASE i \notin MouseItems(d, {"report_id"})
  <2> DEFINE value(ids) == IF ids = {} THEN 0 ELSE d[CHOOSE m \in ids : TRUE].data
             now_seen == Seen(d, i, {"report_id"})
             next_seen == Seen(d, i + 1, {"report_id"})
  <2>1. /\ next_seen = IF i \in MouseItems(d, {"report_id"}) THEN now_seen \cup {i} ELSE now_seen
        /\ i \notin now_seen
        /\ IsFiniteSet(now_seen)
    BY SeenStep
  <2>2. Expected(d, i) = value(now_seen) /\ Expected(d, i + 1) = value(next_seen)
    BY DEF Expected
  <2> HIDE DEF value, now_seen, next_seen
  <2>3. next_seen = now_seen
    BY <1>3, <2>1, Zenon
  <2>4. Expected(d, i + 1) = Expected(d, i)
    BY <2>2, <2>3, Zenon
  <2> QED BY <1>1, <1>3, <2>4
<1> QED BY <1>2, <1>3

\* In the end it is the ID of the report.
LEMMA ExpectedLast ==
    ASSUME NEW d, Nested(d), Regular(d)
    PROVE  Expected(d, Len(d) + 1) = Latest(d, Max(MouseInputs(d, "relative")), "report_id")
<1> DEFINE S == MouseInputs(d, "relative")
           i == Max(S)
<1>0. Len(d) \in Nat
  BY DEF Nested
<1>1. i \in S
  <2>1. S \subseteq 0 .. Len(d) /\ S # {}
    BY DEF MouseInputs, Regular
  <2> HIDE DEF S
  <2> QED BY <1>0, <2>1, Largest
<1> HIDE DEF i
<1>2. i \in MouseItems(d, Input)
  BY <1>1 DEF MouseInputs, MouseItems, Input
<1>3. Seen(d, Len(d) + 1, {"report_id"}) = MouseItems(d, {"report_id"})
  <2>1. \A j \in 1 .. Len(d) : j < Len(d) + 1
    BY <1>0
  <2> QED BY <2>1 DEF Seen, MouseItems
<1>4. Expected(d, Len(d) + 1) = Latest(d, i, "report_id")
  <2>1. CASE MouseItems(d, {"report_id"}) = {}
    BY <1>2, <1>3, <2>1, OneId DEF Expected
  <2>2. CASE MouseItems(d, {"report_id"}) # {}
    <3>1. (CHOOSE m \in MouseItems(d, {"report_id"}) : TRUE) \in MouseItems(d, {"report_id"})
      BY <2>2
    <3> QED BY <1>2, <1>3, <2>2, <3>1, OneId DEF Expected
  <2> QED BY <2>1, <2>2
<1> QED BY <1>4 DEF i

\* Which usage of an input a usage is.
Rank(d, i, u) == 1 + Cardinality({k \in UsagesOf(d, i) : k < u})

\* What is in usages_level2 when item i is next.
UsagesKnown(d, i, s) ==
    DepthAt(d, i) = 2 =>
        /\ \A u \in UsagesOf(d, i) : Rank(d, i, u) \in 1 .. Len(s) /\ s[Rank(d, i, u)] = d[u].data % 256
        /\ \A p \in 1 .. Len(s) : \E u \in UsagesOf(d, i) : Rank(d, i, u) = p

\* A usage is appended behind those before it, and a main item leaves none.
LEMMA UsagesKnownStep ==
    ASSUME NEW d, Nested(d), NEW i \in 1 .. Len(d), NEW s \in Seq(Nat),
           LengthKnown(d, i, Len(s)), UsagesKnown(d, i, s), NEW t,
           t = IF d[i].item = "relative" THEN <<>>
               ELSE IF d[i].item = "usage" /\ DepthAt(d, i) = 2 THEN Append(s, d[i].data % 256)
               ELSE s
    PROVE  UsagesKnown(d, i + 1, t)
<1>0. Len(d) \in Nat /\ i \in Nat \ {0} /\ DepthAt(d, i) \in Int /\ d[i].data \in Nat
  <2>1. d \in Seq(Item) /\ i \in Nat \ {0}
    BY DEF Nested
  <2>2. d[i] \in Item
    BY <2>1
  <2> QED BY <2>1, <2>2, DepthStep DEF Item
<1>1. Cardinality({}) = 0
  BY FS_EmptySet
<1>2. CASE d[i].item \in MainItem
  <2>1. UsagesOf(d, i + 1) = {}
    BY <1>0, <1>2, UsagesStep
  <2>2. d[i].item # "relative" => Len(s) = 0
    BY <1>1, <1>2 DEF Nested, LengthKnown
  <2>3. Len(t) = 0
    <3>1. Len(<<>>) = 0
      OBVIOUS
    <3>2. t = <<>> \/ (t = s /\ Len(s) = 0)
      BY <1>2, <2>2 DEF MainItem, Input
    <3> QED BY <3>1, <3>2
  <2> QED BY <2>1, <2>3 DEF UsagesKnown
<1>3. CASE d[i].item = "usage"
  <2>1. DepthAt(d, i + 1) = DepthAt(d, i)
    BY <1>0, <1>3, DepthStep
  <2> SUFFICES ASSUME DepthAt(d, i) = 2
               PROVE  /\ \A u \in UsagesOf(d, i + 1) :
                             Rank(d, i + 1, u) \in 1 .. Len(t) /\ t[Rank(d, i + 1, u)] = d[u].data % 256
                      /\ \A p \in 1 .. Len(t) : \E u \in UsagesOf(d, i + 1) : Rank(d, i + 1, u) = p
    BY <2>1 DEF UsagesKnown
  <2> DEFINE e == d[i].data % 256
  <2>2. /\ t = Append(s, e) /\ e \in Nat /\ Len(s) \in Nat
        /\ Len(s) = Cardinality(UsagesOf(d, i))
    BY <1>0, <1>3 DEF LengthKnown
  <2> HIDE DEF e
  <2>3. Len(t) = Len(s) + 1 /\ t[Len(s) + 1] = e /\ \A p \in 1 .. Len(s) : t[p] = s[p]
    BY <2>2
  <2>4. UsagesOf(d, i + 1) = UsagesOf(d, i) \cup {i} /\ \A u \in UsagesOf(d, i) : u \in Nat /\ u < i
    <3>1. /\ Before(d, i + 1, MainItem) = Before(d, i, MainItem)
          /\ Before(d, i + 1, {"usage"}) = Before(d, i, {"usage"}) \cup {i}
          /\ \A j \in Before(d, i, MainItem) : j \in 1 .. i
          /\ \A j \in Before(d, i, {"usage"}) : j \in Nat /\ j < i
      BY <1>0, <1>3, BeforeStep DEF Before, MainItem, Input
    <3> QED BY <3>1 DEF UsagesOf
  <2>5. \A u \in UsagesOf(d, i) : Rank(d, i + 1, u) = Rank(d, i, u)
    <3> SUFFICES ASSUME NEW u \in UsagesOf(d, i) PROVE Rank(d, i + 1, u) = Rank(d, i, u)
      OBVIOUS
    <3>1. {k \in UsagesOf(d, i + 1) : k < u} = {k \in UsagesOf(d, i) : k < u}
      BY <1>0, <2>4
    <3> QED BY <3>1 DEF Rank
  <2>6. Rank(d, i + 1, i) = Len(s) + 1
    <3>1. {k \in UsagesOf(d, i + 1) : k < i} = UsagesOf(d, i)
      BY <1>0, <2>4
    <3>2. Rank(d, i + 1, i) = 1 + Len(s)
      BY <2>2, <3>1, Zenon DEF Rank
    <3> QED BY <2>2, <3>2
  <2>7. /\ \A u \in UsagesOf(d, i) : Rank(d, i, u) \in 1 .. Len(s) /\ s[Rank(d, i, u)] = d[u].data % 256
        /\ \A p \in 1 .. Len(s) : \E u \in UsagesOf(d, i) : Rank(d, i, u) = p
    BY DEF UsagesKnown
  <2>8. ASSUME NEW u \in UsagesOf(d, i + 1)
        PROVE  Rank(d, i + 1, u) \in 1 .. Len(t) /\ t[Rank(d, i + 1, u)] = d[u].data % 256
    <3>1. CASE u = i
      BY <2>2, <2>3, <2>6, <3>1 DEF e
    <3>2. CASE u \in UsagesOf(d, i)
      BY <2>2, <2>3, <2>5, <2>7, <3>2
    <3> QED BY <2>4, <3>1, <3>2
  <2>9. ASSUME NEW p \in 1 .. Len(t) PROVE \E u \in UsagesOf(d, i + 1) : Rank(d, i + 1, u) = p
    <3>1. CASE p = Len(s) + 1
      BY <2>4, <2>6, <3>1
    <3>2. CASE p \in 1 .. Len(s)
      <4>1. PICK u \in UsagesOf(d, i) : Rank(d, i, u) = p
        BY <2>7, <3>2
      <4> QED BY <2>4, <2>5, <4>1
    <3> QED BY <2>2, <2>3, <3>1, <3>2
  <2> QED BY <2>8, <2>9
<1>4. CASE d[i].item \notin MainItem \cup {"usage"}
  <2>1. DepthAt(d, i + 1) = DepthAt(d, i)
    BY <1>0, <1>4, DepthStep DEF MainItem
  <2>2. UsagesOf(d, i + 1) = UsagesOf(d, i)
    BY <1>0, <1>4, UsagesStep
  <2>3. t = s
    BY <1>4 DEF MainItem, Input
  <2> QED BY <2>1, <2>2, <2>3 DEF UsagesKnown, Rank
<1> QED BY <1>2, <1>3, <1>4

-----------------------------------------------------------------------------
(* Its fields                                                              *)

\* The fields of that name in the input j.
FieldsAt(d, n, j) ==
    IF n = "buttons"
    THEN {<<Position(d, i), Bits(d, i)>> : i \in {i \in MouseInputs(d, "absolute") : i = j}}
    ELSE UNION {{FieldOf(d, i, k) : k \in {k \in UsagesOf(d, i) : d[k].data = Desktop[n]}} :
                i \in {i \in MouseInputs(d, "relative") : i = j}}

\* All fields of that name are those in one of the inputs.
LEMMA FieldsUnion ==
    ASSUME NEW d, NEW n, NEW f
    PROVE  f \in Fields(d, n) <=> \E j \in 1 .. Len(d) : f \in FieldsAt(d, n, j)
<1>1. \A kind : MouseInputs(d, kind) \subseteq 1 .. Len(d)
  BY DEF MouseInputs
<1>2. CASE n = "buttons"
  BY <1>1, <1>2 DEF Fields, FieldsAt
<1>3. CASE n # "buttons"
  <2>1. f \in Fields(d, n) <=>
            \E i \in MouseInputs(d, "relative") :
                f \in {FieldOf(d, i, k) : k \in {k \in UsagesOf(d, i) : d[k].data = Desktop[n]}}
    BY <1>3 DEF Fields
  <2>2. ASSUME NEW j
        PROVE  f \in FieldsAt(d, n, j) <=>
                   /\ j \in MouseInputs(d, "relative")
                   /\ f \in {FieldOf(d, j, k) : k \in {k \in UsagesOf(d, j) : d[k].data = Desktop[n]}}
    BY <1>3 DEF FieldsAt
  <2> QED BY <1>1, <2>1, <2>2
<1> QED BY <1>2, <1>3

\* What is learnt of a field when item i is next: nothing as long as there is none.
FieldKnown(d, i, n, e) ==
    \/ e = Unconfigured /\ \A j \in 1 .. i - 1 : FieldsAt(d, n, j) = {}
    \/ \E j \in 1 .. i - 1 : \E f \in FieldsAt(d, n, j) :
           f[1] \in Nat /\ e = Configured(f[1], f[2], n # "buttons")

\* The next item either has such a field and configures it, or has none.
LEMMA FieldKnownStep ==
    ASSUME NEW d, NEW i \in Nat \ {0}, NEW n, NEW e, FieldKnown(d, i, n, e), NEW g,
           \/ g = e /\ FieldsAt(d, n, i) = {}
           \/ \E f \in FieldsAt(d, n, i) : f[1] \in Nat /\ g = Configured(f[1], f[2], n # "buttons")
    PROVE  FieldKnown(d, i + 1, n, g)
<1>1. 1 .. (i + 1) - 1 = (1 .. i - 1) \cup {i}
  OBVIOUS
<1>2. CASE g = e /\ FieldsAt(d, n, i) = {}
  BY <1>1, <1>2, Zenon DEF FieldKnown
<1>3. CASE \E f \in FieldsAt(d, n, i) : f[1] \in Nat /\ g = Configured(f[1], f[2], n # "buttons")
  BY <1>1, <1>3, Zenon DEF FieldKnown
<1> QED BY <1>2, <1>3

\* An input of another mouse, or none, has no fields.
LEMMA NoFields ==
    ASSUME NEW d, NEW n, NEW i,
           IF n = "buttons" THEN i \notin MouseInputs(d, "absolute")
           ELSE i \notin MouseInputs(d, "relative")
    PROVE  FieldsAt(d, n, i) = {}
<1>1. CASE n = "buttons"
  <2>1. {k \in MouseInputs(d, "absolute") : k = i} = {}
    BY <1>1
  <2> QED BY <1>1, <2>1 DEF FieldsAt
<1>2. CASE n # "buttons"
  <2>1. {k \in MouseInputs(d, "relative") : k = i} = {}
    BY <1>2
  <2> QED BY <1>2, <2>1 DEF FieldsAt
<1> QED BY <1>1, <1>2

\* A relative input has the field of a usage where the usage is in usages_level2.
LEMMA RelativeField ==
    ASSUME NEW d, Nested(d), Regular(d), NEW i \in MouseInputs(d, "relative"), NEW s \in Seq(Nat),
           UsagesKnown(d, i, s), NEW n \in FieldName \ {"buttons"}
    PROVE  LET places == {k \in 1 .. Len(s) : s[k] = Desktop[n]}
               size == Latest(d, i, "report_size")
           IN  /\ places = {} => FieldsAt(d, n, i) = {}
               /\ places # {} => /\ <<Position(d, i) + (Max(places) - 1) * size, size>>
                                        \in FieldsAt(d, n, i)
                                 /\ Max(places) \in Nat \ {0}
<1> DEFINE places == {k \in 1 .. Len(s) : s[k] = Desktop[n]}
           size == Latest(d, i, "report_size")
<1>0. i \in 1 .. Len(d) /\ d \in Seq(Item) /\ i \in MouseItems(d, Input) /\ n # "buttons"
  BY DEF MouseInputs, MouseItems, Nested, Input
<1>1. DepthAt(d, i) = 2
  BY <1>0 DEF Regular
<1>2. ASSUME NEW u \in UsagesOf(d, i)
      PROVE  /\ Rank(d, i, u) \in 1 .. Len(s) /\ s[Rank(d, i, u)] = d[u].data
  <2>1. d[u].data < 256
    BY <1>0 DEF Regular
  <2>2. u \in 1 .. Len(d)
    <3>1. u \in 1 .. i - 1 /\ Len(d) \in Nat
      BY <1>0 DEF UsagesOf, Before
    <3> QED BY <1>0, <3>1
  <2>3. d[u] \in Item
    BY <1>0, <2>2
  <2>4. d[u].data % 256 = d[u].data
    BY <2>1, <2>3 DEF Item
  <2> QED BY <1>1, <2>4 DEF UsagesKnown
<1>3. FieldsAt(d, n, i) =
          {FieldOf(d, i, k) : k \in {k \in UsagesOf(d, i) : d[k].data = Desktop[n]}}
  <2>1. {k \in MouseInputs(d, "relative") : k = i} = {i}
    OBVIOUS
  <2> QED BY <1>0, <2>1 DEF FieldsAt
<1>4. CASE places = {}
  <2>1. \A u \in UsagesOf(d, i) : d[u].data # Desktop[n]
    BY <1>2, <1>4
  <2> QED BY <1>3, <1>4, <2>1
<1>5. CASE places # {}
  <2> DEFINE p == Max(places)
  <2>1. places \subseteq 0 .. Len(s) /\ Len(s) \in Nat
    OBVIOUS
  <2>2. p \in places
    <3> HIDE DEF places
    <3> QED BY <1>5, <2>1, Largest
  <2>3. p \in 1 .. Len(s) /\ s[p] = Desktop[n]
    BY <2>2
  <2> HIDE DEF p
  <2>4. PICK u \in UsagesOf(d, i) : Rank(d, i, u) = p
    BY <1>1, <2>3 DEF UsagesKnown
  <2>5. d[u].data = Desktop[n]
    BY <1>2, <2>3, <2>4
  <2>6. FieldOf(d, i, u) \in FieldsAt(d, n, i)
    BY <1>3, <2>5
  <2>7. Cardinality({k \in UsagesOf(d, i) : k < u}) = p - 1
    <3> DEFINE c == Cardinality({k \in UsagesOf(d, i) : k < u})
    <3>1. c \in Nat
      <4>1. IsFiniteSet(UsagesOf(d, i))
        BY <1>0, UsagesStep
      <4>2. {k \in UsagesOf(d, i) : k < u} \in SUBSET UsagesOf(d, i)
        OBVIOUS
      <4> QED BY <4>1, <4>2, FS_Subset, FS_CardinalityType
    <3>2. p = 1 + c
      BY <2>4 DEF Rank
    <3> HIDE DEF c
    <3>3. c = p - 1
      BY <3>1, <3>2
    <3> QED BY <3>3 DEF c
  <2>8. FieldOf(d, i, u) = <<Position(d, i) + (p - 1) * size, size>>
    BY <2>7, Zenon DEF FieldOf
  <2>9. p \in Nat \ {0}
    BY <2>1, <2>3
  <2> QED BY <1>5, <2>6, <2>8, <2>9 DEF p
<1> QED BY <1>4, <1>5

-----------------------------------------------------------------------------
(* What the walk learns                                                    *)

\* What the parser has learnt when item pos is next.
Learning ==
    /\ report_size = Latest(desc, pos, "report_size")
    /\ bit_offset \in Nat
    /\ DepthAt(desc, pos) > 0 /\ Application(desc, pos) = Desktop.mouse =>
           bit_offset = Offset(desc, pos)
    /\ expected_report_id = Expected(desc, pos)
    /\ UsagesKnown(desc, pos, usages_level2)
    /\ DOMAIN get = FieldName
    /\ \A n \in FieldName : FieldKnown(desc, pos, n, get[n])

\* What an item makes of it.
Learned(item) ==
    /\ pos \in 1 .. Len(desc) /\ desc[pos].item = item
    /\ desc' = desc /\ pos' = pos + 1
    /\ report_size' = IF item = "report_size" THEN Data8 ELSE report_size
    /\ bit_offset' = IF item \in Input THEN (IF OfMouse THEN Advance ELSE bit_offset)
                     ELSE IF item = "collection" THEN AtCollection
                     ELSE IF item = "report_id" THEN bit_offset + ByteBits ELSE bit_offset
    /\ expected_report_id' = IF item = "report_id" THEN ExpectedId ELSE expected_report_id
    /\ usages_level2' = IF item = "relative" THEN <<>>
                        ELSE IF item = "usage" /\ depth = 2 THEN Append(usages_level2, Data8)
                        ELSE usages_level2
    /\ DOMAIN get' = FieldName
    /\ \A n \in FieldName :
          \/ get'[n] = get[n] /\ FieldsAt(desc, n, pos) = {}
          \/ \E f \in FieldsAt(desc, n, pos) :
                f[1] \in Nat /\ get'[n] = Configured(f[1], f[2], n # "buttons")

\* Where an item is next.
LEMMA AtItem ==
    ASSUME Walk, Regular(desc), pos \in 1 .. Len(desc)
    PROVE  /\ Known /\ Nested(desc) /\ pos \in Nat \ {0} /\ pos # 0 /\ Len(desc) \in Nat
           /\ desc[pos].data \in Nat /\ depth = DepthAt(desc, pos)
           /\ usages_level2 \in Seq(Nat)
           /\ LengthKnown(desc, pos, Len(usages_level2))
           /\ report_count = Latest(desc, pos, "report_count")
           /\ Latest(desc, pos, "report_count") \in Nat
           /\ Latest(desc, pos, "report_size") \in Nat
<1>1. Nested(desc) /\ Len(desc) \in Nat /\ desc[pos].data \in Nat
  BY DataNumber DEF Walk
<1>2. pos \in Nat \ {0} /\ pos # 0 /\ pos \in 1 .. Len(desc) + 1
  BY <1>1
<1>3. Known
  BY <1>2 DEF Walk
<1>4. Latest(desc, pos, "report_count") \in Nat /\ Latest(desc, pos, "report_size") \in Nat
  BY <1>1, <1>2, LatestNumber DEF Nested
<1> QED BY <1>1, <1>2, <1>3, <1>4 DEF Known

\* The parser takes an input for one of the pointer of the mouse where it is one.
LEMMA InputOfMouse ==
    ASSUME Walk, Regular(desc), pos \in 1 .. Len(desc), desc[pos].item \in Input \cup {"report_id"}
    PROVE  /\ DepthAt(desc, pos) > 0
           /\ usage0 = Desktop.mouse <=> Application(desc, pos) = Desktop.mouse
           /\ desc[pos].item \in Input => (OfMouse <=> pos \in MouseItems(desc, Input))
<1>1. Known
  BY AtItem
<1>2. DepthAt(desc, pos) > 0
  BY DEF Regular
<1>3. usage0 = Application(desc, pos)
  BY <1>1, <1>2 DEF Known, UsageKnown, Application
<1>4. ASSUME desc[pos].item \in Input, pos \in MouseItems(desc, Input) PROVE OfMouse
  <2>1. DepthAt(desc, pos) = 2 /\ CollectionUsage(desc, pos, 1) = Desktop.pointer
    BY <1>4 DEF Regular
  <2>2. usage1 = Desktop.pointer
    BY <1>1, <2>1 DEF Known, UsageKnown
  <2> QED BY <1>3, <1>4, <2>2 DEF OfMouse, MouseItems
<1>5. ASSUME desc[pos].item \in Input, OfMouse PROVE pos \in MouseItems(desc, Input)
  BY <1>3, <1>5 DEF OfMouse, MouseItems
<1> QED BY <1>2, <1>3, <1>4, <1>5

\* There its position is known.
LEMMA AtInput ==
    ASSUME Walk, Regular(desc), Learning, pos \in MouseItems(desc, Input)
    PROVE  /\ bit_offset = Offset(desc, pos) /\ Position(desc, pos) = bit_offset
           /\ bit_offset \in Nat
           /\ Bits(desc, pos) = report_size * report_count /\ Bits(desc, pos) \in Nat
           /\ report_size \in Nat /\ report_count \in Nat
<1>1. pos \in 1 .. Len(desc) /\ desc[pos].item \in Input /\ Application(desc, pos) = Desktop.mouse
  BY DEF MouseItems
<1>2. DepthAt(desc, pos) > 0
  BY <1>1, InputOfMouse
<1>3. bit_offset = Offset(desc, pos) /\ bit_offset \in Nat
  BY <1>1, <1>2 DEF Learning
<1>4. Nested(desc) /\ report_count = Latest(desc, pos, "report_count")
      /\ Latest(desc, pos, "report_count") \in Nat /\ Latest(desc, pos, "report_size") \in Nat
  BY <1>1, AtItem
<1>5. report_size = Latest(desc, pos, "report_size")
  BY DEF Learning
<1>6. Bits(desc, pos) \in Nat
  BY <1>1, <1>4, BitsNumber
<1> QED BY <1>3, <1>4, <1>5, <1>6, InputPosition DEF Bits

\* The offset follows.
LEMMA OffsetLearned ==
    ASSUME Walk, Regular(desc), Learning, NEW item, Learned(item)
    PROVE  /\ bit_offset' \in Nat
           /\ DepthAt(desc, pos + 1) > 0 /\ Application(desc, pos + 1) = Desktop.mouse =>
                  bit_offset' = Offset(desc, pos + 1)
<1>1. pos \in 1 .. Len(desc) /\ desc[pos].item = item
  BY DEF Learned
<1>2. /\ Nested(desc) /\ depth = DepthAt(desc, pos) /\ bit_offset \in Nat
      /\ report_size \in Nat /\ report_count \in Nat
  BY <1>1, AtItem DEF Learning
<1>3. bit_offset' \in Nat
  <2>1. Advance \in Nat
    BY <1>2 DEF Advance
  <2>2. bit_offset + ByteBits \in Nat
    BY <1>2, ByteWidth
  <2>3. bit_offset' \in {Advance, bit_offset, 0, bit_offset + ByteBits}
    BY DEF Learned, AtCollection
  <2> QED BY <1>2, <2>1, <2>2, <2>3
<1>4. ASSUME DepthAt(desc, pos + 1) > 0, Application(desc, pos + 1) = Desktop.mouse
      PROVE  bit_offset' = Offset(desc, pos + 1)
  <2>1. CASE item = "collection" /\ DepthAt(desc, pos) = 0
    <3>1. MouseCollection(desc, pos)
      BY <1>1, <1>2, <1>4, <2>1, ApplicationStep DEF MouseCollection
    <3>2. Offset(desc, pos + 1) = 0
      BY <1>2, <3>1, SeenNone
    <3>3. bit_offset' = 0
      BY <1>2, <2>1 DEF Learned, AtCollection, Input
    <3> QED BY <3>2, <3>3
  <2>2. CASE ~(item = "collection" /\ DepthAt(desc, pos) = 0)
    <3>1. DepthAt(desc, pos) > 0 /\ Application(desc, pos) = Desktop.mouse
      BY <1>1, <1>2, <1>4, <2>2, ApplicationStep
    <3>2. bit_offset = Offset(desc, pos)
      BY <3>1 DEF Learning
    <3>3. CASE item \in Input
      <4>1. pos \in MouseItems(desc, Input)
        BY <1>1, <3>1, <3>3 DEF MouseItems
      <4>2. OfMouse
        BY <1>1, <3>3, <4>1, InputOfMouse
      <4>3. bit_offset' = bit_offset + Bits(desc, pos)
        BY <3>3, <4>1, <4>2, AtInput DEF Learned, Advance
      <4>4. Offset(desc, pos + 1) = Offset(desc, pos) + Bits(desc, pos)
        BY <1>2, <4>1, OffsetInput
      <4> QED BY <3>2, <4>3, <4>4
    <3>4. CASE item = "report_id"
      <4>1. pos \in MouseItems(desc, {"report_id"})
        BY <1>1, <3>1, <3>4 DEF MouseItems
      <4>2. bit_offset' = bit_offset + ByteBits
        BY <3>4 DEF Learned, Input
      <4>3. Offset(desc, pos + 1) = Offset(desc, pos) + ByteBits
        BY <1>2, <4>1, OffsetId
      <4> QED BY <3>2, <4>2, <4>3
    <3>5. CASE item \notin Input \cup {"report_id"}
      <4>1. bit_offset' = bit_offset
        BY <1>2, <2>2, <3>5 DEF Learned, AtCollection
      <4>2. Offset(desc, pos + 1) = Offset(desc, pos)
        BY <1>1, <1>2, <3>5, OffsetOther
      <4> QED BY <3>2, <4>1, <4>2
    <3> QED BY <3>3, <3>4, <3>5
  <2> QED BY <2>1, <2>2
<1> QED BY <1>3, <1>4

\* An item that is learned from leaves as much learnt as there is.
LEMMA LearningStep ==
    ASSUME Walk, Regular(desc), Learning, NEW item, Learned(item)
    PROVE  Learning' /\ pos' # 0 /\ desc' = desc
<1>1. pos \in 1 .. Len(desc) /\ desc[pos].item = item /\ desc' = desc /\ pos' = pos + 1
  BY DEF Learned
<1>2. /\ Nested(desc) /\ pos \in Nat \ {0} /\ depth = DepthAt(desc, pos)
      /\ desc[pos].data \in Nat
      /\ usages_level2 \in Seq(Nat) /\ LengthKnown(desc, pos, Len(usages_level2))
  BY <1>1, AtItem
<1>3. item \in {"report_size", "report_id"} => Data8 = desc[pos].data
  <2>1. item \in {"report_size", "report_id"} => desc[pos].data < 256
    BY <1>1 DEF Regular
  <2> QED BY <1>2, <2>1 DEF Data8
<1>4. report_size' = Latest(desc, pos + 1, "report_size")
  <2>1. report_size = Latest(desc, pos, "report_size")
    BY DEF Learning
  <2>2. report_size' = IF item = "report_size" THEN desc[pos].data ELSE report_size
    BY <1>3 DEF Learned
  <2> QED BY <1>1, <1>2, <2>1, <2>2, LatestStep
<1>5. expected_report_id' = Expected(desc, pos + 1)
  <2>1. expected_report_id = Expected(desc, pos)
    BY DEF Learning
  <2>2. Expected(desc, pos + 1) =
            IF item = "report_id" /\ Application(desc, pos) = Desktop.mouse THEN desc[pos].data
            ELSE Expected(desc, pos)
    BY <1>1, <1>2, ExpectedStep
  <2>3. CASE item = "report_id"
    <3>1. usage0 = Desktop.mouse <=> Application(desc, pos) = Desktop.mouse
      BY <1>1, <2>3, InputOfMouse
    <3>2. expected_report_id' = ExpectedId /\ Data8 = desc[pos].data
      BY <1>3, <2>3 DEF Learned
    <3> QED BY <2>1, <2>2, <2>3, <3>1, <3>2 DEF ExpectedId
  <2>4. CASE item # "report_id"
    <3>1. expected_report_id' = expected_report_id
      BY <2>4 DEF Learned
    <3> QED BY <2>1, <2>2, <2>4, <3>1
  <2> QED BY <2>3, <2>4
<1>6. UsagesKnown(desc, pos + 1, usages_level2')
  <2>1. usages_level2' =
            IF desc[pos].item = "relative" THEN <<>>
            ELSE IF desc[pos].item = "usage" /\ DepthAt(desc, pos) = 2
            THEN Append(usages_level2, desc[pos].data % 256) ELSE usages_level2
    BY <1>1, <1>2 DEF Learned, Data8
  <2>2. UsagesKnown(desc, pos, usages_level2)
    BY DEF Learning
  <2> QED BY <1>1, <1>2, <2>1, <2>2, UsagesKnownStep
<1>7. DOMAIN get' = FieldName
  BY DEF Learned
<1>8. ASSUME NEW n \in FieldName PROVE FieldKnown(desc, pos + 1, n, get'[n])
  <2>1. FieldKnown(desc, pos, n, get[n])
    BY DEF Learning
  <2>2. \/ get'[n] = get[n] /\ FieldsAt(desc, n, pos) = {}
        \/ \E f \in FieldsAt(desc, n, pos) :
              f[1] \in Nat /\ get'[n] = Configured(f[1], f[2], n # "buttons")
    BY DEF Learned
  <2> QED BY <1>2, <2>1, <2>2, FieldKnownStep
<1>9. bit_offset' \in Nat
      /\ (DepthAt(desc, pos + 1) > 0 /\ Application(desc, pos + 1) = Desktop.mouse =>
             bit_offset' = Offset(desc, pos + 1))
  BY OffsetLearned
<1>10. pos' # 0
  BY <1>1, <1>2
<1> QED BY <1>1, <1>4, <1>5, <1>6, <1>7, <1>8, <1>9, <1>10 DEF Learning

\* A relative input.
LEMMA RelativeLearned ==
    ASSUME Walk, Regular(desc), Learning, ParseRelative, pos' # 0
    PROVE  Learned("relative")
<1>1. Parse("relative") /\ pos \in 1 .. Len(desc) /\ desc[pos].item = "relative"
      /\ UNCHANGED <<desc, valid, received, forwarded>>
  BY DEF ParseRelative, Parse
<1>2. OfMouse /\ pos \in MouseInputs(desc, "relative")
  BY <1>1, AtRelative
<1>3. pos \in MouseItems(desc, Input) /\ "relative" \in Input
  BY <1>2 DEF MouseInputs, MouseItems, Input
<1>4. /\ pos' = pos + 1
      /\ get' = [n \in FieldName |-> IF n = "buttons" THEN get[n] ELSE ConfiguredBy(n)]
      /\ bit_offset' = Advance
      /\ usages_level2' = <<>>
      /\ UNCHANGED <<depth, report_size, report_count, usage0, usage1, expected_report_id>>
  BY <1>2 DEF ParseRelative, UsagesLeft
<1>5. ASSUME NEW n \in FieldName
      PROVE  \/ get'[n] = get[n] /\ FieldsAt(desc, n, pos) = {}
             \/ \E f \in FieldsAt(desc, n, pos) :
                   f[1] \in Nat /\ get'[n] = Configured(f[1], f[2], n # "buttons")
  <2>1. CASE n = "buttons"
    <3>1. pos \notin MouseInputs(desc, "absolute")
      BY <1>1 DEF MouseInputs
    <3>2. FieldsAt(desc, n, pos) = {}
      BY <2>1, <3>1, NoFields
    <3> QED BY <1>4, <2>1, <3>2
  <2>2. CASE n # "buttons"
    <3> DEFINE places == {k \in 1 .. Len(usages_level2) : usages_level2[k] = Desktop[n]}
               size == Latest(desc, pos, "report_size")
               p == Max(places)
               f == <<Position(desc, pos) + (p - 1) * size, size>>
    <3>1. /\ Nested(desc) /\ usages_level2 \in Seq(Nat) /\ n \in FieldName \ {"buttons"}
          /\ UsagesKnown(desc, pos, usages_level2) /\ report_size = size
      BY <1>1, <2>2, AtItem DEF Learning
    <3>2. /\ places = {} => FieldsAt(desc, n, pos) = {}
          /\ places # {} => f \in FieldsAt(desc, n, pos) /\ p \in Nat \ {0}
      BY <1>2, <3>1, RelativeField
    <3>3. get'[n] = IF places = {} THEN get[n]
                    ELSE Configured(bit_offset + (p - 1) * report_size, report_size, TRUE)
      BY <1>4, <2>2 DEF ConfiguredBy
    <3>4. CASE places = {}
      BY <3>2, <3>3, <3>4
    <3>5. CASE places # {}
      <4>1. Position(desc, pos) = bit_offset /\ bit_offset \in Nat /\ report_size \in Nat
        BY <1>3, AtInput
      <4>2. bit_offset + (p - 1) * report_size \in Nat
        <5>1. p - 1 \in Nat
          BY <3>2, <3>5
        <5> HIDE DEF p
        <5>2. (p - 1) * report_size \in Nat
          BY <4>1, <5>1
        <5> QED BY <4>1, <5>2
      <4>3. f[1] = bit_offset + (p - 1) * report_size /\ f[2] = report_size
        BY <3>1, <4>1
      <4>4. get'[n] = Configured(f[1], f[2], n # "buttons")
        <5>1. (n # "buttons") = TRUE
          BY <2>2
        <5> HIDE DEF f, p, places
        <5> QED BY <3>3, <3>5, <4>3, <5>1
      <4> HIDE DEF f
      <4> QED BY <3>2, <3>5, <4>2, <4>3, <4>4
    <3> QED BY <3>4, <3>5
  <2> QED BY <2>1, <2>2
<1>6. DOMAIN get' = FieldName
  BY <1>4
<1> QED BY <1>1, <1>2, <1>3, <1>4, <1>5, <1>6 DEF Learned

\* An absolute one: buttons of one bit each.
LEMMA AbsoluteLearned ==
    ASSUME Walk, Regular(desc), Learning, ParseAbsolute
    PROVE  Learned("absolute")
<1>1. Parse("absolute") /\ pos \in 1 .. Len(desc) /\ desc[pos].item = "absolute"
      /\ UNCHANGED <<desc, valid, received, forwarded>> /\ "absolute" \in Input
  BY DEF ParseAbsolute, Parse, Input
<1>2. OfMouse <=> pos \in MouseItems(desc, Input)
  BY <1>1, InputOfMouse
<1>3. /\ pos' = pos + 1
      /\ get' = IF OfMouse
                THEN [get EXCEPT !["buttons"] = Configured(bit_offset, report_count, FALSE)]
                ELSE get
      /\ bit_offset' = IF OfMouse THEN Advance ELSE bit_offset
      /\ UNCHANGED <<depth, report_size, report_count, usage0, usage1, usages_level2,
                     expected_report_id>>
  BY DEF ParseAbsolute
<1>4. DOMAIN get = FieldName /\ DOMAIN get' = FieldName
  BY <1>3 DEF Learning
<1>5. pos \notin MouseInputs(desc, "relative")
  BY <1>1 DEF MouseInputs
<1>6. ASSUME NEW n \in FieldName
      PROVE  \/ get'[n] = get[n] /\ FieldsAt(desc, n, pos) = {}
             \/ \E f \in FieldsAt(desc, n, pos) :
                   f[1] \in Nat /\ get'[n] = Configured(f[1], f[2], n # "buttons")
  <2>1. CASE n # "buttons"
    <3>1. FieldsAt(desc, n, pos) = {}
      BY <1>5, <2>1, NoFields
    <3>2. get'[n] = get[n]
      BY <1>3, <1>4, <2>1
    <3> QED BY <3>1, <3>2
  <2>2. CASE n = "buttons" /\ ~OfMouse
    <3>1. pos \notin MouseInputs(desc, "absolute")
      BY <1>1, <1>2, <2>2 DEF MouseInputs, MouseItems
    <3>2. FieldsAt(desc, n, pos) = {}
      BY <2>2, <3>1, NoFields
    <3> QED BY <1>3, <2>2, <3>2
  <2>3. CASE n = "buttons" /\ OfMouse
    <3> DEFINE f == <<Position(desc, pos), Bits(desc, pos)>>
    <3>1. pos \in MouseItems(desc, Input) /\ pos \in MouseInputs(desc, "absolute")
      BY <1>1, <1>2, <2>3 DEF MouseInputs, MouseItems
    <3>2. f \in FieldsAt(desc, n, pos)
      BY <2>3, <3>1 DEF FieldsAt
    <3>3. /\ Position(desc, pos) = bit_offset /\ bit_offset \in Nat
          /\ Bits(desc, pos) = report_size * report_count /\ report_count \in Nat
      BY <3>1, AtInput
    <3>4. report_size = 1
      BY <1>1, <3>1 DEF Regular, Learning
    <3>5. Bits(desc, pos) = report_count
      BY <3>3, <3>4
    <3>6. get'[n] = Configured(bit_offset, report_count, FALSE)
      BY <1>3, <1>4, <2>3
    <3>7. f[1] \in Nat /\ f[1] = bit_offset /\ f[2] = report_count /\ (n # "buttons") = FALSE
      BY <2>3, <3>3, <3>5
    <3>8. get'[n] = Configured(f[1], f[2], n # "buttons")
      <4> HIDE DEF f
      <4> QED BY <3>6, <3>7, Zenon
    <3> HIDE DEF f
    <3> QED BY <3>2, <3>7, <3>8
  <2> QED BY <2>1, <2>2, <2>3
<1> QED BY <1>1, <1>3, <1>4, <1>6 DEF Learned

\* Every other item.
LEMMA OtherLearned ==
    ASSUME Walk, Regular(desc), Learning
    PROVE  /\ ParseConstant => Learned("constant")
           /\ ParseCollection => Learned("collection")
           /\ ParseCollectionEnd => Learned("collection_end")
           /\ ParseReportId => Learned("report_id")
           /\ ParseReportSize => Learned("report_size")
           /\ ParseReportCount => Learned("report_count")
           /\ ParseUsage => Learned("usage")
<1>1. ASSUME NEW item, Parse(item), item \notin {"relative", "absolute"}, get' = get
      PROVE  /\ pos \in 1 .. Len(desc) /\ desc[pos].item = item /\ desc' = desc
             /\ DOMAIN get' = FieldName
             /\ \A n \in FieldName :
                   \/ get'[n] = get[n] /\ FieldsAt(desc, n, pos) = {}
                   \/ \E f \in FieldsAt(desc, n, pos) :
                         f[1] \in Nat /\ get'[n] = Configured(f[1], f[2], n # "buttons")
  <2>1. pos \in 1 .. Len(desc) /\ desc[pos].item = item /\ desc' = desc
    BY <1>1 DEF Parse
  <2>2. pos \notin MouseInputs(desc, "absolute") /\ pos \notin MouseInputs(desc, "relative")
    BY <1>1, <2>1 DEF MouseInputs
  <2>3. \A n \in FieldName : FieldsAt(desc, n, pos) = {}
    BY <2>2, NoFields
  <2> QED BY <1>1, <2>1, <2>3 DEF Learning
<1>2. ParseConstant => Learned("constant")
  BY <1>1 DEF ParseConstant, Learned, Input, learnt
<1>3. ParseCollection => Learned("collection")
  BY <1>1 DEF ParseCollection, Learned, Input, learnt
<1>4. ParseCollectionEnd => Learned("collection_end")
  BY <1>1 DEF ParseCollectionEnd, Learned, Input, learnt
<1>5. ParseReportId => Learned("report_id")
  BY <1>1 DEF ParseReportId, Learned, Input
<1>6. ParseReportSize => Learned("report_size")
  BY <1>1 DEF ParseReportSize, Learned, Input, learnt
<1>7. ParseReportCount => Learned("report_count")
  BY <1>1 DEF ParseReportCount, Learned, Input, learnt
<1>8. ParseUsage => Learned("usage")
  BY <1>1 DEF ParseUsage, Learned, Input, learnt
<1> QED BY <1>2, <1>3, <1>4, <1>5, <1>6, <1>7, <1>8

-----------------------------------------------------------------------------
(* What is read                                                            *)

\* An extractor that was never configured reads no bits.
LEMMA NothingRead == ASSUME NEW r PROVE Extract(Unconfigured, r) = 0
<1> DEFINE f == Unconfigured
<1>1. /\ f.offset = 0 /\ f.length = 0 /\ ~f.byte_aligned /\ ~f.signed
  BY DEF Unconfigured
<1>2. ByteBits \in 2 .. 8 /\ 0 < WordBits
  BY BytePowers DEF WordBits
<1>3. LimitedSize(f) = 0
  BY <1>1, <1>2 DEF LimitedSize
<1>4. Span(f) = 0
  <2>1. (0 % ByteBits) + 0 + ByteBits - 1 \in 0 .. ByteBits - 1
    BY <1>2
  <2>2. ((0 % ByteBits) + 0 + ByteBits - 1) \div ByteBits = 0
    <3> DEFINE x == (0 % ByteBits) + 0 + ByteBits - 1
    <3> HIDE DEF x
    <3>1. x \in 0 .. ByteBits - 1
      BY <2>1 DEF x
    <3>2. x \div ByteBits = 0
      BY <1>2, <3>1
    <3> QED BY <3>2 DEF x
  <2> QED BY <1>1, <1>3, <2>2 DEF Span
<1> HIDE DEF f
<1>5. Shifted(f, r) = 0
  BY <1>4 DEF Shifted
<1>6. Extract(f, r) = AsSigned(ToWord(0), WordBits)
  <2>1. 0 % 2^0 = 0
    BY PowersListed
  <2> QED BY <1>1, <1>3, <1>5, <2>1 DEF Extract, Unaligned
<1>7. AsSigned(ToWord(0), WordBits) = 0
  <2>1. -(2^(WordBits - 1)) <= 0 /\ 0 < 2^(WordBits - 1)
    BY AsSignedWord
  <2> QED BY <2>1, AsSignedWord
<1> QED BY <1>6, <1>7 DEF f

\* The lower byte of a word is the same with and without sign.
LEMMA LowerByte ==
    ASSUME NEW n \in 1 .. WordBits, NEW v \in 0 .. 2^n - 1
    PROVE  AsSigned(v, WordBits) % 2^ByteBits = v % 2^ByteBits
<1> DEFINE p == 2^ByteBits
           M == 2^WordBits
<1>1. n \in Nat /\ n <= 39 /\ WordBits \in 1 .. 39 /\ WordBits \in Nat /\ ByteBits \in 2 .. 8
      /\ WordBits = ByteBits + 3 * ByteBits
  BY BytePowers DEF WordBits
<1>2. v \in 0 .. M - 1
  <2> DEFINE a == n
             b == WordBits - n
  <2>1. /\ 2^a \in Nat \ {0} /\ 2^b \in Nat \ {0} /\ 2^(a + b) \in Nat \ {0}
        /\ 2^(a + b) = 2^a * 2^b
    <3>1. a \in Nat /\ b \in Nat /\ a + b <= 39
      BY <1>1
    <3> HIDE DEF a, b
    <3> QED BY <3>1, PowerSum
  <2>2. a + b = WordBits
    BY <1>1
  <2> DEFINE x == 2^a
             y == 2^b
  <2>3. M = x * y /\ x \in Nat \ {0} /\ y \in Nat \ {0} /\ v \in 0 .. x - 1
    BY <2>1, <2>2
  <2> HIDE DEF x, y, M, a, b
  <2>4. x * y >= x
    BY <2>3
  <2> QED BY <2>3, <2>4
<1>3. M = p * 2^(3 * ByteBits) /\ p \in Nat \ {0} /\ 2^(3 * ByteBits) \in Nat
  <2> DEFINE a == ByteBits
             b == 3 * ByteBits
  <2>1. /\ 2^a \in Nat \ {0} /\ 2^b \in Nat \ {0} /\ 2^(a + b) \in Nat \ {0}
        /\ 2^(a + b) = 2^a * 2^b
    <3>1. a \in Nat /\ b \in Nat /\ a + b <= 39
      BY <1>1
    <3> HIDE DEF a, b
    <3> QED BY <3>1, PowerSum
  <2> QED BY <1>1, <2>1
<1>4. AsSigned(v, WordBits) = v \/ AsSigned(v, WordBits) = v - M
  <2>1. AsSigned(v, WordBits) = IF v >= 2^(WordBits - 1) THEN v - 2^WordBits ELSE v
    BY <1>1, <1>2, AsSignedOf
  <2> QED BY <2>1
<1>5. (v - M) % p = v % p
  <2> DEFINE z == 2^(3 * ByteBits)
  <2>1. M = p * z /\ z \in Int /\ v \in Int
    BY <1>2, <1>3
  <2> HIDE DEF M, p, z
  <2>2. -z \in Int /\ p * (-z) = -(p * z)
    BY <1>3, <2>1
  <2>3. (v + p * (-z)) % p = v % p /\ (v + p * (-z)) \div p = (v \div p) + (-z)
    BY <1>3, <2>1, <2>2, ModMore, Zenon
  <2>4. v + p * (-z) = v - M
    BY <1>3, <2>1, <2>2
  <2> QED BY <2>3, <2>4
<1> QED BY <1>4, <1>5

\* What the parser has learnt in the end: where the fields are.
Learnt ==
    /\ expected_report_id = MouseReportId /\ expected_report_id \in Nat
    /\ \A n \in FieldName :
          \/ Fields(desc, n) = {} /\ get[n] = Unconfigured
          \/ \E f \in Fields(desc, n) : f[1] \in Nat /\ get[n] = Configured(f[1], f[2], n # "buttons")

\* So a field is read as what it is.
LEMMA NumberRead ==
    ASSUME Regular(desc), Learnt, NEW r \in Reports, NEW n \in FieldName
    PROVE  IF n = "buttons" THEN Extract(get[n], r) % 2^ByteBits = Number(n, r) % 2^ByteBits
           ELSE Extract(get[n], r) = Number(n, r)
<1>1. CASE Fields(desc, n) = {} /\ get[n] = Unconfigured
  <2>1. Extract(get[n], r) = 0
    BY <1>1, NothingRead
  <2>2. Number(n, r) = 0
    BY <1>1 DEF Number
  <2> QED BY <2>1, <2>2
<1>2. ASSUME NEW f \in Fields(desc, n), f[1] \in Nat,
             get[n] = Configured(f[1], f[2], n # "buttons")
      PROVE  IF n = "buttons" THEN Extract(get[n], r) % 2^ByteBits = Number(n, r) % 2^ByteBits
             ELSE Extract(get[n], r) = Number(n, r)
  <2> DEFINE v == Binary(r, f[1], f[2])
  <2>1. /\ \A g \in Fields(desc, n) : g = f
        /\ f[2] \in 1 .. WordBits
        /\ f[2] = WordBits => f[1] % ByteBits = 0
        /\ f[1] \div ByteBits .. (f[1] + f[2] - 1) \div ByteBits \subseteq DOMAIN r
    BY DEF Regular
  <2>2. \A i \in f[1] \div ByteBits .. (f[1] + f[2] - 1) \div ByteBits : r[i] \in Byte
    BY <2>1, HidMouseAssumption
  <2>3. (CHOOSE g \in Fields(desc, n) : TRUE) = f
    BY <2>1
  <2>4. Number(n, r) = IF n = "buttons" THEN v ELSE AsSigned(v, f[2])
    BY <2>3, Zenon DEF Number
  <2> DEFINE relative == n # "buttons"
  <2>5. relative \in BOOLEAN
    OBVIOUS
  <2>6. /\ v \in 0 .. 2^f[2] - 1
        /\ Extract(Configured(f[1], f[2], relative), r)
               = AsSigned(v, IF relative THEN f[2] ELSE WordBits)
    <3> HIDE DEF relative
    <3> QED BY <1>2, <2>1, <2>2, <2>5, FieldRead
  <2>7. Extract(get[n], r) = AsSigned(v, IF relative THEN f[2] ELSE WordBits)
    BY <1>2, <2>6
  <2> HIDE DEF v
  <2>8. AsSigned(v, WordBits) % 2^ByteBits = v % 2^ByteBits
    BY <2>1, <2>6, LowerByte
  <2> QED BY <2>4, <2>7, <2>8
<1> QED BY <1>1, <1>2 DEF Learnt

\* And the report of the mouse is handed on, and no other.
LEMMA ReportRead ==
    ASSUME Regular(desc), Learnt, NEW r \in Reports, ProcessReport(r)
    PROVE  MouseReportRead'
<1>1. received' = r /\ UNCHANGED <<desc, valid>>
  BY DEF ProcessReport
<1>2. MouseReportId' = MouseReportId /\ \A n \in FieldName : Number(n, received)' = Number(n, r)
  BY <1>1 DEF MouseReportId, Number
<1> SUFFICES ASSUME valid
             PROVE  forwarded' = IF MouseReportId # 0 /\ r[0] # MouseReportId THEN <<>>
                                 ELSE Packed([n \in FieldName |-> Number(n, r)])
  <2>1. MouseReportRead' <=>
            (received' # <<>> /\ valid' =>
                forwarded' = IF MouseReportId' # 0 /\ received'[0] # MouseReportId' THEN <<>>
                             ELSE Packed([n \in FieldName |-> Number(n, received)']))
    BY DEF MouseReportRead
  <2>2. [n \in FieldName |-> Number(n, received)'] = [n \in FieldName |-> Number(n, r)]
    BY <1>2
  <2> QED BY <1>1, <1>2, <2>1, <2>2
<1>3. forwarded' = IF expected_report_id > 0 /\ expected_report_id # r[0] THEN <<>>
                   ELSE Packed([n \in FieldName |-> Extract(get[n], r)])
  BY DEF ProcessReport
<1>4. Packed([n \in FieldName |-> Extract(get[n], r)]) = Packed([n \in FieldName |-> Number(n, r)])
  <2>1. \A n \in FieldName :
            IF n = "buttons" THEN Extract(get[n], r) % 2^ByteBits = Number(n, r) % 2^ByteBits
            ELSE Extract(get[n], r) = Number(n, r)
    BY NumberRead
  <2> QED BY <2>1, Zenon DEF Packed
<1>5. expected_report_id > 0 <=> MouseReportId # 0
  BY DEF Learnt
<1> QED BY <1>3, <1>4, <1>5 DEF Learnt

\* While a mouse is plugged in: what is learnt so far, all of it once the descriptor is parsed
\* to its end, and the report that was read.
Reading ==
    /\ Regular(desc)
    /\ pos # 0 => Learning /\ ~valid /\ received = <<>>
    /\ valid => Learnt
    /\ MouseReportRead

\* At the end of the descriptor all is learnt.
LEMMA FinishReading == ASSUME Walk, Reading, Finish PROVE Reading'
<1>1. Nested(desc) /\ Len(desc) \in Nat /\ pos = Len(desc) + 1 /\ pos # 0
  BY DEF Finish, Walk, Nested
<1>2. /\ UNCHANGED <<desc, get, expected_report_id, received, forwarded>>
      /\ pos' = 0 /\ valid'
  BY DEF Finish, learnt
<1>3. Regular(desc) /\ Learning /\ received = <<>>
  BY <1>1 DEF Reading
<1>4. expected_report_id = MouseReportId /\ expected_report_id \in Nat
  <2>1. expected_report_id = MouseReportId
    BY <1>1, <1>3, ExpectedLast DEF Learning, MouseReportId
  <2>2. Max(MouseInputs(desc, "relative")) \in MouseInputs(desc, "relative")
    <3>1. MouseInputs(desc, "relative") \subseteq 0 .. Len(desc)
          /\ MouseInputs(desc, "relative") # {}
      BY <1>3 DEF MouseInputs, Regular
    <3> QED BY <1>1, <3>1, Largest
  <2>3. Max(MouseInputs(desc, "relative")) \in 1 .. Len(desc) + 1 /\ desc \in Seq(Item)
    BY <1>1, <2>2 DEF MouseInputs, Nested
  <2> QED BY <2>1, <2>3, LatestNumber DEF MouseReportId
<1>5. ASSUME NEW n \in FieldName
      PROVE  \/ Fields(desc, n) = {} /\ get[n] = Unconfigured
             \/ \E f \in Fields(desc, n) :
                   f[1] \in Nat /\ get[n] = Configured(f[1], f[2], n # "buttons")
  <2>1. FieldKnown(desc, pos, n, get[n]) /\ pos - 1 = Len(desc)
    BY <1>1, <1>3 DEF Learning
  <2>2. CASE get[n] = Unconfigured /\ \A j \in 1 .. Len(desc) : FieldsAt(desc, n, j) = {}
    <3>1. \A f : f \notin Fields(desc, n)
      BY <2>2, FieldsUnion
    <3> QED BY <2>2, <3>1
  <2>3. CASE \E j \in 1 .. Len(desc) : \E f \in FieldsAt(desc, n, j) :
                f[1] \in Nat /\ get[n] = Configured(f[1], f[2], n # "buttons")
    <3>1. PICK j \in 1 .. Len(desc) :
              \E f \in FieldsAt(desc, n, j) :
                  f[1] \in Nat /\ get[n] = Configured(f[1], f[2], n # "buttons")
      BY <2>3
    <3>2. PICK f \in FieldsAt(desc, n, j) :
              f[1] \in Nat /\ get[n] = Configured(f[1], f[2], n # "buttons")
      BY <3>1
    <3>3. f \in Fields(desc, n)
      BY <3>2, FieldsUnion
    <3> QED BY <3>2, <3>3
  <2> QED BY <2>1, <2>2, <2>3 DEF FieldKnown
<1>6. Learnt'
  <2>1. Learnt
    BY <1>4, <1>5 DEF Learnt
  <2> QED BY <1>2, <2>1 DEF Learnt, MouseReportId
<1>7. MouseReportRead'
  BY <1>2, <1>3 DEF MouseReportRead
<1> QED BY <1>2, <1>3, <1>6, <1>7 DEF Reading

\* Every step of the parser.
LEMMA ParseReading == ASSUME Walk, Reading, ParseItem PROVE Reading'
<1>1. ASSUME NEW item, Parse(item)
      PROVE  /\ Regular(desc) /\ Learning /\ ~valid /\ received = <<>>
             /\ UNCHANGED <<desc, valid, received, forwarded>>
  <2>1. pos \in 1 .. Len(desc) /\ UNCHANGED <<desc, valid, received, forwarded>>
    BY <1>1 DEF Parse
  <2>2. pos # 0
    BY <2>1, AtItem DEF Reading
  <2> QED BY <2>1, <2>2 DEF Reading
<1>2. ASSUME NEW item, Parse(item), Learned(item) PROVE Reading'
  <2>1. /\ Regular(desc) /\ Learning /\ ~valid /\ received = <<>>
        /\ UNCHANGED <<desc, valid, received, forwarded>>
    BY <1>1, <1>2
  <2>2. Learning' /\ pos' # 0
    BY <1>2, <2>1, LearningStep
  <2>3. MouseReportRead'
    BY <2>1 DEF MouseReportRead
  <2> QED BY <2>1, <2>2, <2>3 DEF Reading
<1>3. CASE ParseRelative
  <2>1. Parse("relative")
    BY <1>3 DEF ParseRelative
  <2>2. CASE pos' # 0
    <3>1. Learned("relative")
      BY <1>1, <1>3, <2>1, <2>2, RelativeLearned
    <3> QED BY <1>2, <2>1, <3>1
  <2>3. CASE pos' = 0
    <3>1. Regular(desc) /\ ~valid /\ UNCHANGED <<desc, valid, received, forwarded>>
      BY <1>1, <2>1
    <3>2. MouseReportRead'
      BY <3>1 DEF MouseReportRead
    <3> QED BY <2>3, <3>1, <3>2 DEF Reading
  <2> QED BY <2>2, <2>3
<1>4. CASE ParseAbsolute
  <2>1. Parse("absolute")
    BY <1>4 DEF ParseAbsolute
  <2>2. Learned("absolute")
    BY <1>1, <1>4, <2>1, AbsoluteLearned
  <2> QED BY <1>2, <2>1, <2>2
<1>5. CASE ParseConstant
  BY <1>1, <1>2, <1>5, OtherLearned DEF ParseConstant
<1>6. CASE ParseCollection
  BY <1>1, <1>2, <1>6, OtherLearned DEF ParseCollection
<1>7. CASE ParseCollectionEnd
  BY <1>1, <1>2, <1>7, OtherLearned DEF ParseCollectionEnd
<1>8. CASE ParseReportId
  BY <1>1, <1>2, <1>8, OtherLearned DEF ParseReportId
<1>9. CASE ParseReportSize
  BY <1>1, <1>2, <1>9, OtherLearned DEF ParseReportSize
<1>10. CASE ParseReportCount
  BY <1>1, <1>2, <1>10, OtherLearned DEF ParseReportCount
<1>11. CASE ParseUsage
  BY <1>1, <1>2, <1>11, OtherLearned DEF ParseUsage
<1>12. CASE Finish
  BY <1>12, FinishReading
<1> QED BY <1>3, <1>4, <1>5, <1>6, <1>7, <1>8, <1>9, <1>10, <1>11, <1>12 DEF ParseItem

\* A new handler has learnt nothing yet.
LEMMA MountReading ==
    ASSUME NEW d, Nested(d), Regular(d), MountMouse(d)
    PROVE  Reading'
<1>1. /\ desc' = d /\ pos' = 1 /\ bit_offset' = 0 /\ report_size' = 0
      /\ usages_level2' = <<>> /\ expected_report_id' = 0
      /\ get' = [n \in FieldName |-> Unconfigured]
      /\ valid' = FALSE /\ received' = <<>>
  BY DEF MountMouse
<1>2. DepthAt(d, 1) = 0 /\ Latest(d, 1, "report_size") = 0
  BY BeforeFirst
<1>3. Expected(d, 1) = 0
  <2>1. Seen(d, 1, {"report_id"}) = {}
    BY DEF Seen, MouseItems
  <2> QED BY <2>1 DEF Expected
<1>4. UsagesKnown(d, 1, <<>>)
  BY <1>2 DEF UsagesKnown
<1>5. \A n \in FieldName : FieldKnown(d, 1, n, Unconfigured)
  BY DEF FieldKnown
<1>6. Learning'
  BY <1>1, <1>2, <1>3, <1>4, <1>5 DEF Learning
<1>7. MouseReportRead'
  BY <1>1 DEF MouseReportRead
<1> QED BY <1>1, <1>6, <1>7 DEF Reading

MouseRead == IF driver = "mouse" THEN Reading ELSE ~valid

\* Every step keeps it.
LEMMA MouseReadNext ==
    ASSUME \A d \in Devices : Nested(d.hid) /\ ("mouse" \in Found(d) => Regular(d.hid)),
           Driven, Walking, MouseRead, [Next]_vars
    PROVE  MouseRead'
<1>1. ASSUME UNCHANGED <<driver, mouseVars>> PROVE MouseRead'
  <2>1. MouseReportRead => MouseReportRead'
    BY <1>1 DEF MouseReportRead, mouseVars, MouseReportId, Number
  <2>2. Learning => Learning'
    BY <1>1 DEF Learning, mouseVars
  <2>3. Learnt => Learnt'
    BY <1>1 DEF Learnt, mouseVars, MouseReportId
  <2> QED BY <1>1, <2>1, <2>2, <2>3 DEF MouseRead, Reading, mouseVars
<1>2. ASSUME NEW d \in Devices, HidMount(d) PROVE MouseRead'
  <2>1. CASE driver' = "mouse"
    <3>1. "mouse" \in Found(d) /\ MountMouse(d.hid)
      BY <1>2, <2>1, UsbDevicesAssumption DEF HidMount
    <3> QED BY <2>1, <3>1, MountReading DEF MouseRead
  <2>2. CASE driver' # "mouse"
    <3>1. driver # "mouse" /\ UNCHANGED mouseVars
      BY <1>2, <2>2, UsbDevicesAssumption DEF HidMount, PlugIn, Driven
    <3> QED BY <2>2, <3>1 DEF MouseRead, mouseVars
  <2> QED BY <2>1, <2>2
<1>3. ASSUME NEW d \in Devices, VendorMount(d) PROVE MouseRead'
  BY <1>1, <1>3 DEF VendorMount
<1>4. CASE DeviceDescriptor
  <2>1. VendorDriver(device) # "mouse" /\ driver # "mouse" /\ UNCHANGED mouseVars
        /\ (driver' = driver \/ driver' = VendorDriver(device))
    BY <1>4, UsbDevicesAssumption DEF DeviceDescriptor, Driven, VendorDriver
  <2> QED BY <2>1 DEF MouseRead, mouseVars
<1>5. ASSUME NEW r \in Reports, MouseReport(r) PROVE MouseRead'
  <2>1. /\ driver = "mouse" /\ driver' = driver /\ ProcessReport(r)
        /\ pos = 0 /\ UNCHANGED <<desc, pos, get, expected_report_id, valid>>
    BY <1>5 DEF MouseReport, ProcessReport, Completed, learnt
  <2>2. Reading
    BY <2>1 DEF MouseRead
  <2>3. Learnt => Learnt'
    BY <2>1 DEF Learnt, MouseReportId
  <2>4. MouseReportRead'
    <3>1. CASE valid
      BY <2>1, <2>2, <3>1, ReportRead DEF Reading
    <3>2. CASE ~valid
      BY <2>1, <3>2 DEF MouseReportRead
    <3> QED BY <3>1, <3>2
  <2> QED BY <2>1, <2>2, <2>3, <2>4 DEF MouseRead, Reading
<1>6. ASSUME NEW p \in Presses, PadReport(p) \/ XboxOneReport(p) \/ Xbox360Report(p)
      PROVE  MouseRead'
  BY <1>1, <1>6 DEF PadReport, XboxOneReport, Xbox360Report, Completed
<1>7. CASE UnsupportedReport
  BY <1>1, <1>7 DEF UnsupportedReport, Completed
<1>8. CASE MouseStep
  <2>1. driver = "mouse" /\ driver' = driver /\ ParseItem /\ Walk /\ Reading
    BY <1>8 DEF MouseStep, usbVars, Walking, MouseRead
  <2> QED BY <2>1, ParseReading DEF MouseRead
<1>9. CASE ProRun \/ ProTick \/ ProTransferred \/ UNCHANGED vars
  BY <1>1, <1>9 DEF ProRun, ProTick, ProTransferred, vars, usbVars
<1>10. CASE Unplug
  BY <1>10, UsbDevicesAssumption DEF Unplug, MouseRead, MountMouse
<1> QED BY <1>2, <1>3, <1>4, <1>5, <1>6, <1>7, <1>8, <1>9, <1>10 DEF Next

\* MouseReportReadAlways: on every descriptor of that shape, of any length, with its inputs at
\* any offset and of any size, with or without an ID and among other collections, every report
\* is handed on as what it says by HID 1.11, and none of another ID (process_report,
\* parse_hid_report_descriptor, FieldExtractor::extract).
THEOREM MouseReportReadAlways ==
    ASSUME \A d \in Devices : Nested(d.hid) /\ ("mouse" \in Found(d) => Regular(d.hid))
    PROVE  Spec => []MouseReportRead
<1>1. Init => Walking /\ MouseRead
  BY UsbDevicesAssumption DEF Init, Fresh, Walking, MouseRead
<1>2. Driven /\ Walking /\ MouseRead /\ [Next]_vars => (Walking /\ MouseRead)'
  BY WalkingNext, MouseReadNext
<1>3. MouseRead => MouseReportRead
  BY DEF MouseRead, Reading, MouseReportRead
<1> QED BY <1>1, <1>2, <1>3, DrivenAlways, PTL DEF Spec

-----------------------------------------------------------------------------
(* The Switch Pro controller                                               *)

Time == 0 .. ClockMod - 1

CommandTypeOK ==
    /\ handshake_sent \in BOOLEAN /\ timeout_disabled \in BOOLEAN
    /\ last_command_sent \in Time /\ now \in Time
    /\ since_handshake \in 0 .. kPauseBetweenCommands + 1

\* The handshake is never longer ago than run's clock says, unless its pause is over:
\* a failed attempt only moves last_command_sent on.
Spacing ==
    handshake_sent /\ since_handshake <= kPauseBetweenCommands =>
        (now - last_command_sent) % ClockMod <= since_handshake

\* A wrapping clock has moved on by one.
LEMMA DifferenceTicks ==
    ASSUME NEW M \in Nat, NEW s \in 0 .. M - 1, NEW t \in 0 .. M - 1,
           NEW k \in Nat, k + 1 < M, (t - s) % M <= k
    PROVE  (((t + 1) % M) - s) % M <= k + 1
<1>1. (t - s) % M = IF s <= t THEN t - s ELSE t - s + M
  OBVIOUS
<1>2. CASE t + 1 < M
  <2>1. (t + 1) % M = t + 1
    BY <1>2
  <2>2. CASE s <= t + 1
    <3>1. (t + 1 - s) % M = t + 1 - s
      BY <1>2, <2>2
    <3> QED BY <1>1, <2>1, <2>2, <3>1
  <2>3. CASE s > t + 1
    <3>1. (t + 1 - s) % M = t + 1 - s + M
      BY <1>2, <2>3
    <3> QED BY <1>1, <2>1, <2>3, <3>1
  <2> QED BY <2>2, <2>3
<1>3. CASE t + 1 = M
  <2>1. (t + 1) % M = 0
    BY <1>3
  <2>2. CASE s = 0
    BY <1>1, <1>3, <2>2
  <2>3. CASE s > 0
    <3>1. (0 - s) % M = M - s
      BY <2>3
    <3> QED BY <1>1, <1>3, <2>1, <2>3, <3>1
  <2> QED BY <2>2, <2>3
<1> QED BY <1>2, <1>3

\* Time does not pass between a moment and itself.
LEMMA DifferenceNone == ASSUME NEW M \in Nat \ {0}, NEW t \in Int PROVE (t - t) % M = 0
<1>1. t - t = 0
  OBVIOUS
<1>2. 0 % M = 0
  OBVIOUS
<1> QED BY <1>1, <1>2

\* run: an attempt is made where its own pause is over, and with it the handshake's.
LEMMA RunSpaced ==
    ASSUME CommandTypeOK, Spacing, Run
    PROVE  /\ CommandTypeOK' /\ Spacing'
           /\ ~timeout_disabled /\ timeout_disabled' => since_handshake > kPauseBetweenCommands
<1> USE SwitchProAssumption DEF CommandTypeOK
<1>1. now' = now
  BY DEF Run
<1>2. CASE ~PauseOver
  BY <1>1, <1>2 DEF Run, UnchangedCommands, Spacing
<1>3. CASE PauseOver
  <2>1. last_command_sent' = now
    BY <1>3 DEF Run, Stamp
  <2>2. handshake_sent => since_handshake > kPauseBetweenCommands
    BY <1>3 DEF PauseOver, Spacing, Time
  <2>3. CASE SendHandshake
    <3>1. /\ handshake_sent' = ~busy /\ timeout_disabled' = timeout_disabled
          /\ since_handshake' = IF busy THEN since_handshake ELSE 0
      BY <2>3 DEF SendHandshake, Send
    <3>2. CommandTypeOK'
      BY <1>1, <2>1, <3>1
    <3>3. now \in Int /\ ClockMod \in Nat \ {0}
      BY DEF Time
    <3>4. (now' - last_command_sent') % ClockMod = 0
      BY <1>1, <2>1, <3>3, DifferenceNone
    <3>5. Spacing'
      BY <3>1, <3>4 DEF Spacing
    <3> QED BY <3>1, <3>2, <3>5
  <2>4. CASE DisableTimeout
    <3>1. /\ handshake_sent' = handshake_sent /\ since_handshake' = since_handshake
          /\ handshake_sent /\ timeout_disabled' = ~busy
      BY <2>4 DEF DisableTimeout, Send
    <3> QED BY <1>1, <2>1, <2>2, <3>1 DEF Spacing
  <2>5. CASE timeout_disabled /\ UnchangedCommands
    BY <1>1, <2>1, <2>2, <2>5 DEF UnchangedCommands, Spacing
  <2> QED BY <1>3, <2>3, <2>4, <2>5 DEF Run
<1> QED BY <1>2, <1>3

\* The clock: both times grow alike.
LEMMA TickSpaced ==
    ASSUME CommandTypeOK, Spacing, Tick
    PROVE  CommandTypeOK' /\ Spacing' /\ timeout_disabled' = timeout_disabled
<1> USE SwitchProAssumption DEF CommandTypeOK, Time
<1>1. /\ now' = (now + 1) % ClockMod /\ last_command_sent' = last_command_sent
      /\ handshake_sent' = handshake_sent /\ timeout_disabled' = timeout_disabled
      /\ since_handshake' = IF since_handshake > kPauseBetweenCommands THEN since_handshake
                            ELSE since_handshake + 1
  BY DEF Tick
<1>2. CommandTypeOK'
  BY <1>1
<1>3. ASSUME handshake_sent, since_handshake' <= kPauseBetweenCommands
      PROVE  (now' - last_command_sent') % ClockMod <= since_handshake'
  <2>1. since_handshake' = since_handshake + 1 /\ since_handshake <= kPauseBetweenCommands
    BY <1>1, <1>3
  <2>2. (now - last_command_sent) % ClockMod <= since_handshake
    BY <1>3, <2>1 DEF Spacing
  <2>3. (((now + 1) % ClockMod) - last_command_sent) % ClockMod <= since_handshake + 1
    BY <2>1, <2>2, DifferenceTicks
  <2> QED BY <1>1, <2>1, <2>3
<1>4. Spacing'
  BY <1>1, <1>3 DEF Spacing
<1> QED BY <1>1, <1>2, <1>4

\* The handler of a new controller.
LEMMA FreshSpaced ==
    ASSUME /\ handshake_sent' = FALSE /\ timeout_disabled' = FALSE
           /\ now' \in Time /\ last_command_sent' = now'
           /\ since_handshake' = kPauseBetweenCommands + 1
    PROVE  CommandTypeOK' /\ Spacing'
<1>1. /\ handshake_sent' \in BOOLEAN /\ timeout_disabled' \in BOOLEAN
      /\ now' \in Time /\ last_command_sent' \in Time
  OBVIOUS
<1>2. since_handshake' \in 0 .. kPauseBetweenCommands + 1
  BY SwitchProAssumption
<1>3. Spacing'
  BY Zenon DEF Spacing
<1> QED BY <1>1, <1>2, <1>3 DEF CommandTypeOK, Time

\* Every step keeps the spacing, and none disables the timeout early.
LEMMA SpacingNext ==
    ASSUME CommandTypeOK, Spacing, [Next]_vars
    PROVE  /\ CommandTypeOK' /\ Spacing'
           /\ ~timeout_disabled /\ timeout_disabled' => since_handshake > kPauseBetweenCommands
<1> DEFINE Spaced == /\ CommandTypeOK' /\ Spacing'
                     /\ ~timeout_disabled /\ timeout_disabled' =>
                            since_handshake > kPauseBetweenCommands
<1>1. ASSUME UNCHANGED <<handshake_sent, timeout_disabled, last_command_sent, now,
                         since_handshake>>
      PROVE  Spaced
  BY <1>1 DEF CommandTypeOK, Spacing
<1>2. ASSUME MountPro PROVE Spaced
  BY <1>2, FreshSpaced DEF MountPro, Time
<1>3. ASSUME UNCHANGED proVars PROVE Spaced
  BY <1>1, <1>3 DEF proVars
<1>4. ASSUME CountReport PROVE Spaced
  BY <1>1, <1>4 DEF CountReport
<1>5. CASE ProRun
  BY <1>5, RunSpaced DEF ProRun
<1>6. CASE ProTick
  BY <1>6, TickSpaced DEF ProTick
<1>7. CASE ProTransferred
  BY <1>1, <1>7 DEF ProTransferred, Transferred
<1>8. CASE Unplug
  <2>1. 0 \in Time
    BY SwitchProAssumption DEF Time
  <2> QED BY <1>8, <2>1, FreshSpaced DEF Unplug
<1>9. ASSUME NEW d \in Devices, HidMount(d) \/ VendorMount(d) PROVE Spaced
  BY <1>2, <1>3, <1>9 DEF HidMount, VendorMount
<1>10. ASSUME NEW p \in Presses, PadReport(p) \/ XboxOneReport(p) \/ Xbox360Report(p)
       PROVE  Spaced
  BY <1>3, <1>4, <1>10 DEF PadReport, XboxOneReport, Xbox360Report
<1>11. ASSUME NEW r \in Reports, MouseReport(r) PROVE Spaced
  BY <1>3, <1>11 DEF MouseReport
<1>12. CASE DeviceDescriptor \/ UnsupportedReport \/ MouseStep \/ UNCHANGED vars
  BY <1>3, <1>12 DEF DeviceDescriptor, UnsupportedReport, MouseStep, vars
<1> QED BY <1>5, <1>6, <1>7, <1>8, <1>9, <1>10, <1>11, <1>12 DEF Next

\* A clock of run's that is ahead of the handshake's time never comes about.
LEMMA SpacingAlways == Spec => [](CommandTypeOK /\ Spacing)
<1>1. ASSUME Init PROVE CommandTypeOK /\ Spacing
  <2>1. ProFresh
    BY <1>1 DEF Init
  <2>2. handshake_sent = FALSE /\ timeout_disabled = FALSE
    BY <2>1 DEF ProFresh
  <2>3. Spacing
    BY <2>2, Zenon DEF Spacing
  <2>4. last_command_sent \in Time /\ now \in Time
    BY <2>1, SwitchProAssumption DEF ProFresh, Time
  <2>5. since_handshake \in 0 .. kPauseBetweenCommands + 1
    BY <2>1, SwitchProAssumption DEF ProFresh
  <2> QED BY <2>2, <2>3, <2>4, <2>5 DEF CommandTypeOK
<1>2. CommandTypeOK /\ Spacing /\ [Next]_vars => (CommandTypeOK /\ Spacing)'
  BY SpacingNext
<1> QED BY <1>1, <1>2, PTL DEF Spec

\* HandshakeSpacedAlways: however often a command fails, and across every wrap of the
\* clock, the handshake has its pause before the timeout is disabled (run).
THEOREM HandshakeSpacedAlways == Spec => HandshakeSpaced
<1>1. CommandTypeOK /\ Spacing /\ [Next]_vars =>
          [~timeout_disabled /\ timeout_disabled' =>
               since_handshake > kPauseBetweenCommands]_proVars
  BY SpacingNext
<1> QED BY <1>1, SpacingAlways, PTL DEF Spec, HandshakeSpaced
-----------------------------------------------------------------------------
(* The types                                                               *)

\* A descriptor is a sequence of items, also where there is none.
LEMMA ItemSequence == ASSUME NEW d \in Descriptors \cup {<<>>} PROVE d \in Seq(Item)
<1>1. CASE d \in Descriptors
  BY <1>1, HidMouseAssumption
<1>2. CASE d = <<>>
  <2>1. ASSUME NEW S PROVE <<>> \in Seq(S)
    OBVIOUS
  <2> QED BY <1>2, <2>1, Zenon
<1> QED BY <1>1, <1>2

\* An item has a number, and a byte of it is taken.
LEMMA ItemNumber ==
    ASSUME MouseTypeOK, pos \in 1 .. Len(desc)
    PROVE  /\ Len(desc) \in Nat /\ pos \in Nat \ {0} /\ pos + 1 \in 0 .. Len(desc) + 1
           /\ desc[pos].data \in Nat /\ Data8 \in 0 .. 255
<1>1. desc \in Seq(Item)
  BY ItemSequence DEF MouseTypeOK
<1>2. Len(desc) \in Nat /\ desc[pos] \in Item
  BY <1>1
<1>3. desc[pos].data \in Nat
  BY <1>2 DEF Item
<1>4. desc[pos].data % 256 \in 0 .. 255
  <2> DEFINE n == desc[pos].data
  <2>1. n \in Nat
    BY <1>3
  <2> HIDE DEF n
  <2>2. n % 256 \in 0 .. 255
    BY <2>1
  <2> QED BY <2>2 DEF n
<1>5. pos \in Nat \ {0} /\ pos + 1 \in 0 .. Len(desc) + 1
  BY <1>2
<1> QED BY <1>2, <1>3, <1>4, <1>5, Zenon DEF Data8

\* What is configured is an extractor.
LEMMA ConfiguredExtractor ==
    ASSUME NEW offset \in Nat, NEW length \in Nat, NEW relative \in BOOLEAN
    PROVE  Configured(offset, length, relative) \in Extractor
<1>1. (offset % ByteBits = 0 /\ length % ByteBits = 0) \in BOOLEAN
  OBVIOUS
<1> QED BY <1>1 DEF Configured, Extractor

\* The last usage of a name gives an extractor, too.
LEMMA ConfiguredByExtractor ==
    ASSUME MouseTypeOK, NEW n \in FieldName
    PROVE  ConfiguredBy(n) \in Extractor
<1> DEFINE places == {k \in 1 .. Len(usages_level2) : usages_level2[k] = Desktop[n]}
<1>1. get[n] \in Extractor /\ bit_offset \in Nat /\ report_size \in Nat
      /\ usages_level2 \in Seq(0 .. 255)
  BY DEF MouseTypeOK
<1>2. CASE places = {}
  BY <1>1, <1>2 DEF ConfiguredBy
<1>3. CASE places # {}
  <2>1. places \subseteq 0 .. Len(usages_level2) /\ Len(usages_level2) \in Nat
    BY <1>1
  <2> DEFINE p == Max(places)
  <2>2. p \in places
    <3> HIDE DEF places
    <3> QED BY <1>3, <2>1, Largest
  <2>3. p - 1 \in Nat
    BY <2>1, <2>2
  <2>4. ConfiguredBy(n) = Configured(bit_offset + (p - 1) * report_size, report_size, TRUE)
    BY <1>3 DEF ConfiguredBy
  <2> HIDE DEF p
  <2>5. (p - 1) * report_size \in Nat
    BY <1>1, <2>3
  <2>6. bit_offset + (p - 1) * report_size \in Nat
    BY <1>1, <2>5
  <2> QED BY <1>1, <2>4, <2>6, ConfiguredExtractor
<1> QED BY <1>2, <1>3

\* The parser keeps the types of a mouse's variables.
LEMMA ParseType == ASSUME MouseTypeOK, ParseItem PROVE MouseTypeOK'
<1>0. ByteBits \in Nat /\ bit_offset \in Nat /\ report_size \in Nat /\ report_count \in Nat
      /\ Advance \in Nat
  BY ByteWidth DEF MouseTypeOK, Advance
<1>1. ASSUME NEW item, Parse(item)
      PROVE  /\ pos + 1 \in 0 .. Len(desc) + 1 /\ 0 \in 0 .. Len(desc) + 1 /\ Data8 \in 0 .. 255
             /\ UNCHANGED <<desc, valid, received, forwarded>>
  BY <1>1, ItemNumber DEF Parse
<1>2. CASE ParseConstant
  BY <1>0, <1>1, <1>2 DEF ParseConstant, MouseTypeOK, learnt
<1>3. CASE ParseRelative
  <2>1. Parse("relative")
    BY <1>3 DEF ParseRelative
  <2>2. bit_offset' \in Nat /\ usages_level2' \in Seq(0 .. 255) /\ pos' \in 0 .. Len(desc) + 1
    <3>1. <<>> \in Seq(0 .. 255)
      OBVIOUS
    <3>2. /\ bit_offset' = bit_offset \/ bit_offset' = Advance
          /\ usages_level2' = usages_level2 \/ usages_level2' = <<>>
          /\ pos' = pos + 1 \/ pos' = 0
      BY <1>3 DEF ParseRelative, UsagesLeft
    <3> QED BY <1>0, <1>1, <2>1, <3>1, <3>2 DEF MouseTypeOK
  <2>3. get' \in [FieldName -> Extractor]
    <3>1. get' = get \/ get' = [n \in FieldName |-> IF n = "buttons" THEN get[n] ELSE ConfiguredBy(n)]
      BY <1>3 DEF ParseRelative
    <3> QED BY <3>1, ConfiguredByExtractor DEF MouseTypeOK
  <2> QED BY <1>1, <1>3, <2>1, <2>2, <2>3 DEF ParseRelative, MouseTypeOK
<1>4. CASE ParseAbsolute
  <2>1. Parse("absolute")
    BY <1>4 DEF ParseAbsolute
  <2>2. Configured(bit_offset, report_count, FALSE) \in Extractor
    BY <1>0, ConfiguredExtractor
  <2>3. get' \in [FieldName -> Extractor] /\ bit_offset' \in Nat
    BY <1>0, <1>4, <2>2 DEF ParseAbsolute, MouseTypeOK
  <2> QED BY <1>1, <1>4, <2>1, <2>3 DEF ParseAbsolute, MouseTypeOK
<1>5. CASE ParseCollection
  BY <1>0, <1>1, <1>5 DEF ParseCollection, AtCollection, MouseTypeOK, learnt
<1>6. CASE ParseCollectionEnd
  BY <1>0, <1>1, <1>6 DEF ParseCollectionEnd, MouseTypeOK, learnt
<1>7. CASE ParseReportId
  <2>1. expected_report_id' \in 0 .. 255
    BY <1>1, <1>7 DEF ParseReportId, ExpectedId, MouseTypeOK
  <2> QED BY <1>0, <1>1, <1>7, <2>1 DEF ParseReportId, MouseTypeOK
<1>8. CASE ParseReportSize
  BY <1>0, <1>1, <1>8 DEF ParseReportSize, MouseTypeOK, learnt
<1>9. CASE ParseReportCount
  BY <1>0, <1>1, <1>9 DEF ParseReportCount, MouseTypeOK, learnt
<1>10. CASE ParseUsage
  <2>1. usages_level2' \in Seq(0 .. 255)
    BY <1>1, <1>10 DEF ParseUsage, MouseTypeOK
  <2> QED BY <1>0, <1>1, <1>10, <2>1 DEF ParseUsage, MouseTypeOK, learnt
<1>11. CASE Finish
  <2>1. 0 \in 0 .. Len(desc) + 1
    <3>1. desc \in Seq(Item)
      BY ItemSequence DEF MouseTypeOK
    <3> QED BY <3>1
  <2> QED BY <1>11, <2>1 DEF Finish, MouseTypeOK, parser, learnt
<1> QED BY <1>2, <1>3, <1>4, <1>5, <1>6, <1>7, <1>8, <1>9, <1>10, <1>11 DEF ParseItem

\* So does the mounting of a mouse, and its removal.
LEMMA MountType ==
    ASSUME NEW d \in Descriptors \cup {<<>>}, MountMouse(d)
    PROVE  MouseTypeOK'
<1>1. d \in Seq(Item)
  BY ItemSequence
<1>2. Unconfigured \in Extractor
  BY DEF Unconfigured, Extractor
<1>3. 1 \in 0 .. Len(d) + 1
  BY <1>1
<1>4. <<>> \in Seq(0 .. 255)
  OBVIOUS
<1>5. /\ desc' = d /\ pos' = 1
      /\ bit_offset' = 0 /\ depth' = 0 /\ report_size' = 0 /\ report_count' = 0
      /\ usage0' = 0 /\ usage1' = 0 /\ usages_level2' = <<>>
      /\ get' = [n \in FieldName |-> Unconfigured]
      /\ expected_report_id' = 0 /\ valid' = FALSE
      /\ received' = <<>> /\ forwarded' = <<>>
  BY DEF MountMouse
<1>6. get' \in [FieldName -> Extractor]
  BY <1>2, <1>5
<1>7. desc' \in Descriptors \cup {<<>>} /\ pos' \in 0 .. Len(desc') + 1
  BY <1>3, <1>5
<1>8. /\ bit_offset' \in Nat /\ depth' \in 0 .. 255 /\ report_size' \in 0 .. 255
      /\ report_count' \in 0 .. 255 /\ usage0' \in 0 .. 255 /\ usage1' \in 0 .. 255
      /\ expected_report_id' \in 0 .. 255 /\ valid' \in BOOLEAN
  <2>1. 0 \in 0 .. 255 /\ 0 \in Nat /\ FALSE \in BOOLEAN
    OBVIOUS
  <2> QED BY <1>5, <2>1, Zenon
<1> QED BY <1>4, <1>5, <1>6, <1>7, <1>8, Zenon DEF MouseTypeOK

\* The fields of a MouseReport.
MouseReportType == [FieldName -> -(2^(ByteBits - 1)) .. 2^ByteBits - 1]

\* Numbers are packed into one.
LEMMA PackedType ==
    ASSUME NEW field, \A n \in FieldName \ {"buttons"} : field[n] \in Int,
           field["buttons"] % 2^ByteBits \in 0 .. 2^ByteBits - 1
    PROVE  Packed(field) \in MouseReportType
<1> DEFINE h == 2^(ByteBits - 1)
           p == 2^ByteBits
<1>1. p = 2 * h /\ h \in Nat \ {0}
  <2>1. ByteBits - 1 \in Nat /\ ByteBits - 1 <= 39
    BY BytePowers
  <2> QED BY <2>1, BytePowers, PowerNumber
<1>2. ASSUME NEW v \in Int PROVE Saturated(v) \in -h .. p - 1
  <2>1. Saturated(v) = IF v > h - 1 THEN h - 1 ELSE IF v < -h THEN -h ELSE v
    BY DEF Saturated
  <2> HIDE DEF h, p
  <2> QED BY <1>1, <2>1
<1>3. field["buttons"] % p \in -h .. p - 1
  <2>1. field["buttons"] % p \in 0 .. p - 1
    OBVIOUS
  <2> DEFINE b == field["buttons"] % p
  <2> HIDE DEF b, h, p
  <2>2. b \in 0 .. p - 1
    BY <2>1 DEF b
  <2>3. b \in -h .. p - 1
    BY <1>1, <2>2
  <2> QED BY <2>3 DEF b
<1>4. ASSUME NEW n \in FieldName
      PROVE  (IF n = "buttons" THEN field[n] % p ELSE Saturated(field[n])) \in -h .. p - 1
  BY <1>2, <1>3
<1> HIDE DEF h, p
<1>5. Packed(field) = [n \in FieldName |-> IF n = "buttons" THEN field[n] % p ELSE Saturated(field[n])]
  BY DEF Packed, p
<1>6. Packed(field) \in [FieldName -> -h .. p - 1]
  BY <1>4, <1>5
<1> QED BY <1>6 DEF MouseReportType, h, p

\* What a report says is a number.
LEMMA NumberInt ==
    ASSUME Regular(desc), Learnt, NEW r \in Reports, NEW n \in FieldName
    PROVE  Number(n, r) \in Int
<1>1. CASE Fields(desc, n) = {}
  BY <1>1 DEF Number
<1>2. ASSUME NEW f \in Fields(desc, n), f[1] \in Nat PROVE Number(n, r) \in Int
  <2> DEFINE v == Binary(r, f[1], f[2])
  <2>1. /\ \A g \in Fields(desc, n) : g = f
        /\ f[2] \in 1 .. WordBits
        /\ f[1] \div ByteBits .. (f[1] + f[2] - 1) \div ByteBits \subseteq DOMAIN r
    BY DEF Regular
  <2>2. \A i \in FieldBytes(f[1], f[2]) : r[i] \in Byte
    BY <2>1, HidMouseAssumption DEF FieldBytes
  <2>3. f[2] \in 1 .. 39 /\ f[2] \in Nat
    BY <2>1, ByteWidth DEF WordBits
  <2>4. v \in 0 .. 2^f[2] - 1
    BY <1>2, <2>2, <2>3, BytesCovered, BinaryRange
  <2>5. (CHOOSE g \in Fields(desc, n) : TRUE) = f
    BY <2>1
  <2>6. Number(n, r) = IF n = "buttons" THEN v ELSE AsSigned(v, f[2])
    BY <2>5, Zenon DEF Number
  <2> HIDE DEF v
  <2>7. AsSigned(v, f[2]) \in Int
    <3> DEFINE h == 2^(f[2] - 1)
               p == 2^f[2]
    <3>1. p = 2 * h /\ h \in Nat /\ v \in 0 .. p - 1
          /\ AsSigned(v, f[2]) = IF v >= h THEN v - p ELSE v
      BY <2>3, <2>4, AsSignedOf
    <3> HIDE DEF h, p
    <3> QED BY <3>1
  <2>8. v \in Int
    BY <2>4
  <2> QED BY <2>6, <2>7, <2>8
<1> QED BY <1>1, <1>2 DEF Learnt

\* A report is handed on as one.
LEMMA ForwardedType ==
    ASSUME MouseTypeOK, NEW r \in Reports, ProcessReport(r), 0 .. 3 \subseteq DOMAIN r,
           valid => Reading
    PROVE  MouseTypeOK'
<1>1. /\ received' = r
      /\ UNCHANGED <<desc, pos, parser, learnt, valid>>
      /\ ~valid => forwarded' = Packed(BootFields(r))
  BY DEF ProcessReport
<1>2. ASSUME NEW k \in 0 .. 3 PROVE r[k] \in Byte /\ r[k] \in 0 .. 2^ByteBits - 1
  BY HidMouseAssumption DEF Byte
<1>3. ASSUME NEW v \in 0 .. 2^ByteBits - 1 PROVE AsSigned(v, ByteBits) \in Int
  <2>1. ByteBits \in 1 .. 39
    BY ByteWidth
  <2>2. 2^ByteBits = 2 * 2^(ByteBits - 1) /\ 2^(ByteBits - 1) \in Nat
        /\ AsSigned(v, ByteBits) = IF v >= 2^(ByteBits - 1) THEN v - 2^ByteBits ELSE v
    BY <2>1, AsSignedOf
  <2> DEFINE h == 2^(ByteBits - 1)
             p == 2^ByteBits
  <2>3. p = 2 * h /\ h \in Nat /\ v \in 0 .. p - 1
        /\ AsSigned(v, ByteBits) = IF v >= h THEN v - p ELSE v
    BY <2>2
  <2> HIDE DEF h, p
  <2> QED BY <2>3
<1>4. CASE ~valid
  <2> DEFINE b == BootFields(r)
  <2>1. /\ b["buttons"] = r[0] /\ b["x"] = AsSigned(r[1], ByteBits)
        /\ b["y"] = AsSigned(r[2], ByteBits) /\ b["wheel"] = AsSigned(r[3], ByteBits)
    BY DEF BootFields
  <2>2. \A n \in FieldName \ {"buttons"} : b[n] \in Int
    BY <1>2, <1>3, <2>1 DEF FieldName
  <2> DEFINE p == 2^ByteBits
  <2>3. b["buttons"] % p \in 0 .. p - 1
    <3>1. p \in Nat \ {0} /\ b["buttons"] \in 0 .. p - 1
      BY <1>2, <2>1, BytePowers
    <3> HIDE DEF p, b
    <3> QED BY <3>1
  <2> HIDE DEF b
  <2>4. Packed(b) \in MouseReportType
    BY <2>2, <2>3, PackedType DEF p
  <2>5. forwarded' \in MouseReportType
    BY <1>1, <1>4, <2>4 DEF b
  <2> QED BY <1>1, <2>5, Zenon DEF MouseTypeOK, MouseReportType, parser, learnt
<1>5. CASE valid
  <2>1. Regular(desc) /\ Learnt
    BY <1>5 DEF Reading
  <2> DEFINE b == [n \in FieldName |-> Extract(get[n], r)]
             p == 2^ByteBits
  <2>2. \A n \in FieldName \ {"buttons"} : b[n] \in Int
    BY <2>1, NumberRead, NumberInt
  <2>3. b["buttons"] % p \in 0 .. p - 1
    <3>1. b["buttons"] % p = Number("buttons", r) % p /\ Number("buttons", r) \in Int
      BY <2>1, NumberRead, NumberInt DEF FieldName
    <3>2. p \in Nat \ {0}
      BY BytePowers
    <3> HIDE DEF p, b
    <3>3. Number("buttons", r) % p \in 0 .. p - 1
      BY <3>1, <3>2, DivMod
    <3> QED BY <3>1, <3>3
  <2> HIDE DEF b
  <2>4. Packed(b) \in MouseReportType
    BY <2>2, <2>3, PackedType DEF p
  <2>5. forwarded' = <<>> \/ forwarded' \in MouseReportType
    BY <1>5, <2>4 DEF b, ProcessReport
  <2> QED BY <1>1, <2>5, Zenon DEF MouseTypeOK, MouseReportType, parser, learnt
<1> QED BY <1>4, <1>5

\* A mouse's variables keep their types in every step.
LEMMA MouseTypeNext ==
    ASSUME \A d \in Devices : Nested(d.hid), \A d \in Devices : Identified(d),
           \A r \in Reports : 0 .. 3 \subseteq DOMAIN r,
           Driven, MouseRead, MouseTypeOK, [Next]_vars
    PROVE  MouseTypeOK'
<1>1. ASSUME UNCHANGED mouseVars PROVE MouseTypeOK'
  BY <1>1, Zenon DEF mouseVars, MouseTypeOK
<1>2. ASSUME NEW d \in Devices, HidMount(d) PROVE MouseTypeOK'
  <2>1. CASE driver' = "mouse"
    <3>1. driver' \in Found(d) /\ MountMouse(d.hid)
      BY <1>2, <2>1, UsbDevicesAssumption DEF HidMount
    <3>2. d.hid \in Descriptors
      BY <1>2, <2>1, <3>1, FoundAsMade, UsbDevicesAssumption DEF HidMount
    <3> QED BY <3>1, <3>2, MountType
  <2>2. CASE driver' # "mouse"
    BY <1>1, <1>2, <2>2 DEF HidMount
  <2> QED BY <2>1, <2>2
<1>3. ASSUME NEW d \in Devices, VendorMount(d) PROVE MouseTypeOK'
  BY <1>1, <1>3 DEF VendorMount
<1>4. ASSUME NEW r \in Reports, MouseReport(r) PROVE MouseTypeOK'
  BY <1>4, ForwardedType DEF MouseReport, MouseRead
<1>5. ASSUME NEW p \in Presses, PadReport(p) \/ XboxOneReport(p) \/ Xbox360Report(p)
      PROVE  MouseTypeOK'
  BY <1>1, <1>5 DEF PadReport, XboxOneReport, Xbox360Report
<1>6. CASE MouseStep
  BY <1>6, ParseType DEF MouseStep
<1>7. CASE DeviceDescriptor \/ UnsupportedReport \/ ProRun \/ ProTick \/ ProTransferred
           \/ UNCHANGED vars
  BY <1>1, <1>7 DEF DeviceDescriptor, UnsupportedReport, ProRun, ProTick, ProTransferred, vars
<1>8. CASE Unplug
  BY <1>8, MountType DEF Unplug
<1> QED BY <1>2, <1>3, <1>4, <1>5, <1>6, <1>7, <1>8 DEF Next

\* So do those of a Switch Pro controller, what run does besides sending included.
LEMMA ProTypeNext ==
    ASSUME ProTypeOK, CommandTypeOK', [Next]_vars
    PROVE  ProTypeOK'
<1> USE SwitchProAssumption DEF ProTypeOK, CommandTypeOK, Time
<1> DEFINE Typed == /\ led_set' \in BOOLEAN /\ busy' \in BOOLEAN /\ due' \in BOOLEAN
                    /\ reports_collected' \in 0 .. LedReports + 1
<1>0. 0 \in 0 .. LedReports + 1 /\ FALSE \in BOOLEAN /\ TRUE \in BOOLEAN
  OBVIOUS
<1>1. ASSUME UNCHANGED proVars PROVE Typed
  BY <1>1 DEF proVars
<1>2. ASSUME MountPro PROVE Typed
  <2>1. led_set' = FALSE /\ busy' = FALSE /\ due' = FALSE /\ reports_collected' = 0
    BY <1>2 DEF MountPro
  <2> QED BY <1>0, <2>1, Zenon
<1>3. ASSUME CountReport PROVE Typed
  <2>1. due' = due /\ busy' \in {busy, TRUE} /\ led_set' \in {led_set, ~busy}
    BY <1>3 DEF CountReport, Send
  <2>2. reports_collected' = IF reports_collected > LedReports THEN reports_collected
                             ELSE reports_collected + 1
    BY <1>3 DEF CountReport
  <2>3. reports_collected' \in 0 .. LedReports + 1
    BY <2>2
  <2>4. led_set' \in BOOLEAN /\ busy' \in BOOLEAN /\ due' \in BOOLEAN
    BY <2>1, Zenon
  <2> QED BY <2>3, <2>4, Zenon
<1>4. CASE ProRun
  BY <1>4 DEF ProRun, Run, SendHandshake, DisableTimeout, UnchangedCommands, Send
<1>5. CASE ProTick
  BY <1>5 DEF ProTick, Tick
<1>6. CASE ProTransferred
  BY <1>6 DEF ProTransferred, Transferred
<1>7. CASE Unplug
  <2>1. led_set' = FALSE /\ busy' = FALSE /\ due' = FALSE /\ reports_collected' = 0
    BY <1>7 DEF Unplug
  <2> QED BY <1>0, <2>1, Zenon
<1>8. ASSUME NEW d \in Devices, HidMount(d) \/ VendorMount(d) PROVE Typed
  BY <1>1, <1>2, <1>8 DEF HidMount, VendorMount
<1>9. ASSUME NEW p \in Presses, PadReport(p) \/ XboxOneReport(p) \/ Xbox360Report(p)
      PROVE  Typed
  BY <1>1, <1>3, <1>9 DEF PadReport, XboxOneReport, Xbox360Report
<1>10. ASSUME NEW r \in Reports, MouseReport(r) PROVE Typed
  BY <1>1, <1>10 DEF MouseReport
<1>11. CASE DeviceDescriptor \/ UnsupportedReport \/ MouseStep \/ UNCHANGED vars
  BY <1>1, <1>11 DEF DeviceDescriptor, UnsupportedReport, MouseStep, vars
<1>12. Typed
  BY <1>4, <1>5, <1>6, <1>7, <1>8, <1>9, <1>10, <1>11 DEF Next
<1> QED BY <1>12

\* What is handed on has no other flags.
LEMMA HandOnType ==
    ASSUME NEW p \in Presses, HandOn(p), driver \in PadDriver
    PROVE  /\ press' \in Presses
           /\ gamepad' \subseteq Direction \cup {"fire", "sec_fire", "third_fire", "auto_fire",
                                                 "joystick_swap"}
<1>1. p \in Press
  BY UsbDevicesAssumption
<1>2. gamepad' = Layout(driver, p) /\ press' = p
  BY <1>1, GamepadIsLayout DEF HandOn
<1>3. p.dpad \subseteq Direction /\ p.stick \subseteq Direction
  BY <1>1 DEF Press, Held
<1> QED BY <1>2, <1>3 DEF Layout, Steered, Meant, MeantByPro, Flags

\* And what a transfer is asked for on are endpoints.
LEMMA OpenedType ==
    ASSUME \A d \in Devices : Advertised(d), Driven, DeviceDescriptor, listening \subseteq 0 .. 255
    PROVE  listening' \subseteq 0 .. 255
<1>1. /\ device \in Devices /\ device.hid = <<>> /\ VendorDriver(device) # NoDriver
  BY UsbDevicesAssumption DEF Driven, DeviceDescriptor
<1> DEFINE opens == Opens(VendorDriver(device), device.config)
<1>2. ASSUME FirstVendorInterface(device.config) # <<>>,
             NEW n \in 1 .. Len(opens) + 1,
             listening' = {a \in Range(OpenedBefore(opens, n)) : IsIn(a)}
      PROVE  listening' \subseteq 0 .. 255
  <2>1. opens \in Seq(0 .. 255)
    BY <1>1, <1>2 DEF Advertised
  <2> HIDE DEF opens
  <2>2. n - 1 \in Int /\ \A i \in 1 .. n - 1 : opens[i] \in 0 .. 255
    <3>1. Len(opens) \in Nat /\ \A i \in 1 .. Len(opens) : opens[i] \in 0 .. 255
      <4>1. ASSUME NEW S, NEW s \in Seq(S) PROVE Len(s) \in Nat /\ \A i \in 1 .. Len(s) : s[i] \in S
        OBVIOUS
      <4> QED BY <2>1, <4>1
    <3>2. n \in 1 .. Len(opens) + 1
      OBVIOUS
    <3> QED BY <3>1, <3>2
  <2>3. SubSeq(opens, 1, n - 1) \in Seq(0 .. 255)
    <3>1. ASSUME NEW S, NEW s, NEW k \in Int, \A i \in 1 .. k : s[i] \in S
          PROVE  SubSeq(s, 1, k) \in Seq(S)
      <4>1. 1 \in Int
        OBVIOUS
      <4> QED BY <3>1, <4>1, SubSeqProperties, Zenon
    <3> QED BY <2>2, <3>1, Zenon
  <2>4. Range(SubSeq(opens, 1, n - 1)) \subseteq 0 .. 255
    <3>1. ASSUME NEW S, NEW s \in Seq(S) PROVE Range(s) \subseteq S
      BY DEF Range
    <3> QED BY <2>3, <3>1
  <2> QED BY <1>2, <2>4 DEF OpenedBefore
<1>3. \/ listening' = listening
      \/ /\ FirstVendorInterface(device.config) # <<>>
         /\ \E n \in 1 .. Len(opens) + 1 :
                listening' = {a \in Range(OpenedBefore(opens, n)) : IsIn(a)}
  BY DEF DeviceDescriptor
<1> QED BY <1>2, <1>3

\* What is known of the device, its driver and its transfers has its types.
LEMMA UsbTypeNext ==
    ASSUME \A d \in Devices : Advertised(d), Driven, Driven', UsbTypeOK, [Next]_vars
    PROVE  UsbTypeOK'
<1> DEFINE Typed == /\ asked' \in BOOLEAN /\ failed' \in BOOLEAN
                    /\ listening' \subseteq 0 .. 255 /\ connected' \subseteq {0, 1}
           Handed == /\ press' \in Presses \cup {NoPress}
                     /\ gamepad' \subseteq Direction \cup {"fire", "sec_fire", "third_fire",
                                                           "auto_fire", "joystick_swap"}
<1>1. ASSUME UNCHANGED <<press, gamepad>> PROVE Handed
  BY <1>1 DEF UsbTypeOK
<1>2. ASSUME UNCHANGED <<asked, failed, listening, connected>> PROVE Typed
  BY <1>2 DEF UsbTypeOK
<1>3. ASSUME NEW a, NEW handled, Completed(a, handled)
      PROVE  UNCHANGED <<device, driver, asked, failed, listening>>
  BY <1>3, CompletedListens DEF Completed
<1>4. ASSUME NEW p \in Presses, HandOn(p), driver \in PadDriver PROVE Handed
  BY <1>4, HandOnType
<1>5. ASSUME NEW d \in Devices, HidMount(d) PROVE Typed /\ Handed
  <2>1. {0} \subseteq 0 .. 255
    OBVIOUS
  <2>2. Typed
    BY <1>5, <2>1, Zenon DEF HidMount, PlugIn, UsbTypeOK
  <2> QED BY <1>1, <1>5, <2>2 DEF HidMount, PlugIn
<1>6. ASSUME NEW d \in Devices, VendorMount(d) PROVE Typed /\ Handed
  <2>1. Typed
    BY <1>6, Zenon DEF VendorMount, PlugIn, UsbTypeOK
  <2> QED BY <1>1, <1>6, <2>1 DEF VendorMount, PlugIn
<1>7. ASSUME DeviceDescriptor PROVE Typed /\ Handed
  <2>1. listening' \subseteq 0 .. 255
    BY <1>7, OpenedType DEF UsbTypeOK
  <2>2. connected' \subseteq {0, 1} /\ asked' \in BOOLEAN
    BY <1>7 DEF DeviceDescriptor, UsbTypeOK
  <2>3. failed' \in BOOLEAN
    <3>1. \/ failed' = TRUE
          \/ failed' = failed
          \/ \E n, m : failed' = (n <= m)
      BY <1>7, Zenon DEF DeviceDescriptor
    <3>2. ASSUME NEW n, NEW m PROVE (n <= m) \in BOOLEAN
      OBVIOUS
    <3> QED BY <3>1, <3>2, Zenon DEF UsbTypeOK
  <2> QED BY <1>1, <1>7, <2>1, <2>2, <2>3 DEF DeviceDescriptor
<1>8. ASSUME NEW r \in Reports, MouseReport(r) PROVE Typed /\ Handed
  BY <1>1, <1>2, <1>3, <1>8 DEF MouseReport
<1>9. ASSUME NEW p \in Presses, PadReport(p) PROVE Typed /\ Handed
  <2>1. driver \in PadDriver /\ connected' = connected
    BY <1>9 DEF PadReport, PadDriver
  <2> QED BY <1>1, <1>2, <1>3, <1>4, <1>9, <2>1 DEF PadReport
<1>10. ASSUME NEW p \in Presses, XboxOneReport(p) PROVE Typed /\ Handed
  <2>1. driver \in PadDriver /\ connected' = connected
    BY <1>10 DEF XboxOneReport, PadDriver
  <2> QED BY <1>1, <1>2, <1>3, <1>4, <1>10, <2>1 DEF XboxOneReport
<1>11. ASSUME NEW p \in Presses, Xbox360Report(p) PROVE Typed /\ Handed
  <2>1. driver \in PadDriver
    BY <1>11 DEF Xbox360Report, PadDriver
  <2>2. PICK a \in listening :
            /\ \E handled \in BOOLEAN : Completed(a, handled)
            /\ \/ UNCHANGED <<press, gamepad>>
               \/ HandOn(p)
            /\ connected' \in {connected, connected \cup {PadOf(a)}, connected \ {PadOf(a)}}
    BY <1>11 DEF Xbox360Report
  <2>3. connected' \subseteq {0, 1}
    BY <2>2 DEF PadOf, UsbTypeOK
  <2>4. UNCHANGED <<asked, failed, listening>>
    BY <1>3, <2>2
  <2>5. Typed
    BY <2>3, <2>4, Zenon DEF UsbTypeOK
  <2> QED BY <1>1, <1>4, <2>1, <2>2, <2>5
<1>12. ASSUME UnsupportedReport PROVE Typed /\ Handed
  BY <1>1, <1>2, <1>3, <1>12 DEF UnsupportedReport
<1>13. ASSUME MouseStep \/ ProRun \/ ProTick \/ ProTransferred \/ UNCHANGED vars
       PROVE  Typed /\ Handed
  BY <1>1, <1>2, <1>13 DEF MouseStep, ProRun, ProTick, ProTransferred, vars, usbVars
<1>14. ASSUME Unplug PROVE Typed /\ Handed
  <2>1. Typed
    BY <1>14, Zenon DEF Unplug
  <2>2. Handed
    BY <1>14 DEF Unplug
  <2> QED BY <2>1, <2>2
<1>15. Typed /\ Handed
  BY <1>5, <1>6, <1>7, <1>8, <1>9, <1>10, <1>11, <1>12, <1>13, <1>14 DEF Next
<1> QED BY <1>15 DEF UsbTypeOK, Driven

\* TypeCorrect: of any mouse, pad or other device, with its transfers and whatever is mounted
\* after it, every variable has its type; so no report makes a mouse hand on a number that
\* class MouseReport has no room for, and no device is listened to on what is no endpoint
\* (saturating_cast, open_vendor_interface).
THEOREM TypeCorrect ==
    ASSUME \A d \in Devices : Identified(d) /\ Advertised(d) /\ Nested(d.hid)
                                  /\ ("mouse" \in Found(d) => Regular(d.hid)),
           \A r \in Reports : 0 .. 3 \subseteq DOMAIN r
    PROVE  Spec => []TypeOK
<1>1. ASSUME Init PROVE TypeOK
  <2>1. MouseTypeOK
    <3>1. Unconfigured \in Extractor
      BY DEF Unconfigured, Extractor
    <3>2. ASSUME NEW S PROVE <<>> \in Seq(S) /\ Len(<<>>) = 0
      OBVIOUS
    <3>3. desc = <<>> /\ pos = 1 /\ Len(desc) = 0
      BY <1>1, <3>2 DEF Init, Fresh
    <3>4. pos \in 0 .. Len(desc) + 1
      BY <3>3
    <3>5. get \in [FieldName -> Extractor]
      BY <1>1, <3>1 DEF Init, Fresh
    <3>6. 0 \in 0 .. 255 /\ 0 \in Nat /\ FALSE \in BOOLEAN
      OBVIOUS
    <3> QED BY <1>1, <3>2, <3>3, <3>4, <3>5, <3>6, Zenon DEF Init, Fresh, MouseTypeOK
  <2>2. ProTypeOK
    <3>1. 0 \in 0 .. LedReports + 1 /\ 0 \in 0 .. ClockMod - 1 /\ FALSE \in BOOLEAN
          /\ kPauseBetweenCommands + 1 \in 0 .. kPauseBetweenCommands + 1
      BY SwitchProAssumption
    <3> QED BY <1>1, <3>1, Zenon DEF Init, ProFresh, ProTypeOK
  <2>3. UsbTypeOK
    BY <1>1, Zenon DEF Init, UsbTypeOK
  <2> QED BY <2>1, <2>2, <2>3 DEF TypeOK
<1>2. Init => Walking /\ MouseRead
  BY UsbDevicesAssumption DEF Init, Fresh, Walking, MouseRead
<1>3. Driven /\ Walking /\ MouseRead /\ [Next]_vars => (Walking /\ MouseRead)'
  BY WalkingNext, MouseReadNext
<1>4. ASSUME Driven, Driven', MouseRead, Spacing, TypeOK, [Next]_vars PROVE TypeOK'
  <2>1. MouseTypeOK'
    BY <1>4, MouseTypeNext DEF TypeOK
  <2>2. CommandTypeOK
    BY <1>4 DEF TypeOK, ProTypeOK, CommandTypeOK, Time
  <2>3. CommandTypeOK'
    BY <1>4, <2>2, SpacingNext
  <2>4. ProTypeOK'
    BY <1>4, <2>3, ProTypeNext DEF TypeOK
  <2>5. UsbTypeOK'
    BY <1>4, UsbTypeNext DEF TypeOK
  <2> QED BY <2>1, <2>4, <2>5 DEF TypeOK
<1> QED BY <1>1, <1>2, <1>3, <1>4, SpacingAlways, DrivenAlways, PTL DEF Spec
=============================================================================
