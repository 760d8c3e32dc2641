---------------------------- MODULE MouseTravel ----------------------------
(***************************************************************************)
(* What every emulated mouse promises: the pointer of the home computer    *)
(* follows the USB mouse.  It may lag behind, since the computer only      *)
(* takes small steps, but every step goes towards where the mouse is, none *)
(* overshoots, and so no movement is lost or invented.                     *)
(***************************************************************************)
EXTENDS Integers

CONSTANTS Axis,     \* the axes that are reported
          MaxStep   \* the largest step the computer is offered at once

VARIABLES moved,    \* per axis, the sum of all reported movements
          seen      \* per axis, the movement the computer has noticed

Towards(from, to, target) == \/ from <= to /\ to <= target
                             \/ target <= to /\ to <= from

Init == /\ moved = [a \in Axis |-> 0]
        /\ seen = [a \in Axis |-> 0]

Move == /\ moved' \in [Axis -> Int]
        /\ UNCHANGED seen

Follow == /\ seen' \in [Axis -> Int]
          /\ \A a \in Axis : /\ Towards(seen[a], seen'[a], moved[a])
                             /\ seen'[a] - seen[a] \in -MaxStep .. MaxStep
          /\ UNCHANGED moved

Spec == Init /\ [][Move \/ Follow]_<<moved, seen>>
=============================================================================
