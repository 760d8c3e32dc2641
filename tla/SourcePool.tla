----------------------------- MODULE SourcePool -----------------------------
(***************************************************************************)
(* What the adapter promises about attached devices, without saying how    *)
(* they are wired: of each kind of report source at most Capacity are      *)
(* served, first come first served, a served source keeps being served     *)
(* until it goes away, and a source that found the pool full is ignored    *)
(* ("Only 2 mouses and 2 joysticks can be integrated. More will be         *)
(* ignored.", pipeline.hpp).  SourceRegistry implements it.                *)
(***************************************************************************)
EXTENDS Naturals, FiniteSets

CONSTANTS Holder,    \* places of the firmware that own a report source
          Kind,      \* kinds of reports
          Capacity   \* sources served per kind

VARIABLES attached,  \* attached[k]: the holders whose source reports k
          served     \* served[k]: those of them whose reports reach a port

vars == <<attached, served>>

Init == /\ attached = [k \in Kind |-> {}]
        /\ served = [k \in Kind |-> {}]

\* The sources of the holders H disappear.
Unplug(H) == /\ attached' = [k \in Kind |-> attached[k] \ H]
             /\ served' = [k \in Kind |-> served[k] \ H]

\* The sources of the holders H disappear and one of kind k appears at h.
Replace(H, h, k) ==
    /\ attached' = [j \in Kind |-> IF j = k THEN (attached[j] \ H) \cup {h}
                                            ELSE attached[j] \ H]
    /\ served' = [j \in Kind |-> IF j = k /\ Cardinality(served[j] \ H) < Capacity
                                 THEN (served[j] \ H) \cup {h}
                                 ELSE served[j] \ H]

Next == \/ \E H \in SUBSET Holder : Unplug(H)
        \/ \E H \in SUBSET Holder, h \in Holder, k \in Kind :
              h \in H /\ Replace(H, h, k)

Spec == Init /\ [][Next]_vars
=============================================================================
