------------------------ MODULE MCC1351Calibration ------------------------
(***************************************************************************)
(* What is pressed in the runs of C1351Calibration.                        *)
(***************************************************************************)
EXTENDS C1351Calibration, TLC

SingleClicks == {{}, {"left"}, {"right"}, {"middle"}}

\* What the code expects.
LLRRRM == <<"left", "left", "right", "right", "right", "middle">>

Symmetry == Permutations(Converter)
=============================================================================
