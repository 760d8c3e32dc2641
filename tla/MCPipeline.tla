----------------------------- MODULE MCPipeline -----------------------------
(***************************************************************************)
(* Small inputs for Pipeline: which devices the two switchers have and     *)
(* what those report.  Every report is either idle, enough to take the     *)
(* port over, or a swap gesture.                                           *)
(***************************************************************************)
EXTENDS Pipeline

Idle == [buttons |-> {}, fast |-> FALSE]
Fast == [buttons |-> {}, fast |-> TRUE]
AllPressed == [buttons |-> MouseButton, fast |-> FALSE]

\* A mouse and two game pads: the second pad shares the mouse's switcher.
TwoPads == [s \in Switcher |-> IF s = "mouseSw" THEN {{}, {"left"}}
                               ELSE {{}, {"up", "sec_fire"}, {"joystick_swap"}}]
OneMouse == [s \in Switcher |-> IF s = "mouseSw" THEN {Idle, Fast, AllPressed} ELSE {}]
=============================================================================
