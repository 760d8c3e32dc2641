---------------------------- MODULE MCC1351Mouse ----------------------------
(***************************************************************************)
(* What the mouse of C1351Mouse does in its run.                           *)
(***************************************************************************)
EXTENDS C1351Mouse

\* One fast movement, and a slow one of both axes that turns it around, with a
\* step of the wheel.
Jolts == {[x |-> 11, y |-> 0, wheel |-> 0], [x |-> -2, y |-> 1, wheel |-> -1]}
=============================================================================
