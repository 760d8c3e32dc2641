----------------------------- MODULE MCMainLoop -----------------------------
(***************************************************************************)
(* The patterns that are asked for, with times of a few ticks.             *)
(***************************************************************************)
EXTENDS MainLoop

ShownVariants == [k1Short |-> <<2, 1>>,
                  k2Long |-> <<3, 3, 3, 1>>,
                  k3Short |-> <<1, 3, 1, 3, 1, 1>>,
                  kMorseR |-> <<1, 3, 3, 3, 1, 1>>]
=============================================================================
