------------------------- MODULE MCQuadratureMouse -------------------------
(***************************************************************************)
(* The pin-out of an AmigaMouse, mouse_amiga.hpp.                          *)
(***************************************************************************)
EXTENDS QuadratureMouse

\* Two of the encoders of an AmigaMouse; the wheel's lines belong to the other port.
AmigaAxis == {"h", "wheel"}
AmigaTarget == [a \in AmigaAxis |-> IF a = "h" THEN "mouse" ELSE "wheel"]
AmigaA == [a \in AmigaAxis |-> IF a = "h" THEN "right" ELSE "left"]
AmigaB == [a \in AmigaAxis |-> IF a = "h" THEN "down" ELSE "up"]

\* Small movements of both signs.
Jolts == {-2, 0, 3}

\* A pad on the wheel's port: released, to the left with fire, to the upper left.
PadLines == {{}, {"left", "fire1"}, {"left", "up"}}
=============================================================================
