--------------------------- MODULE SourceRegistry ---------------------------
(***************************************************************************)
(* Which attached device feeds which switcher of the pipeline.             *)
(*                                                                         *)
(* A report source is an object owned by exactly one shared_ptr: the       *)
(* handler of a hid_info slot (hid_api.cpp), an entry of bare_handlers     *)
(* (bare_api.cpp), or the report_proxy_ of one of the two pads of a        *)
(* wireless receiver (bare_xbox360_wireless.hpp).  The source is named     *)
(* here by that owner, its holder: resetting or overwriting the shared_ptr *)
(* destroys the object and expires every weak_ptr to it.                   *)
(*                                                                         *)
(* Callbacks of TinyUSB and Pipeline::run are called one after the other   *)
(* from the main loop, so each is one action.                              *)
(***************************************************************************)
EXTENDS Naturals, FiniteSets

CONSTANTS HidInstance,   \* indices of hid_info
          Addr,          \* USB addresses of vendor class devices
          NoHandler,     \* a holder that owns no source
          NoTarget,      \* a source without a report hub
          NoSource       \* an expired weak_ptr

Kind == {"kMouse", "kGamePad"}

\* primary_mouse_switcher_ and primary_joystick_switcher_
Switcher == {"mouseSw", "joySw"}

\* report_proxy_ of user_data[0] and user_data[1] of the receiver at an address
Proxy == Addr \X {0, 1}

Holder == HidInstance \cup Addr \cup Proxy

ASSUME NamesAssumption ==
    /\ NoHandler \notin Kind
    /\ NoTarget \notin Switcher
    /\ NoSource \notin Holder

VARIABLES handler,    \* handler[h]: expected_report() of the source h owns
          receiver,   \* addresses whose bare_handlers entry is a receiver
          target,     \* target[h]: where the source of h sends its reports
          source      \* source[s][k]: mouse_source_ / joystick_source_ of s

vars == <<handler, receiver, target, source>>

TypeOK == /\ handler \in [Holder -> Kind \cup {NoHandler}]
          /\ receiver \in SUBSET Addr
          /\ target \in [Holder -> Switcher \cup {NoTarget}]
          /\ source \in [Switcher -> [Kind -> Holder \cup {NoSource}]]

Init == /\ handler = [h \in Holder |-> NoHandler]
        /\ receiver = {}
        /\ target = [h \in Holder |-> NoTarget]
        /\ source = [s \in Switcher |-> [k \in Kind |-> NoSource]]
-----------------------------------------------------------------------------
\* The switcher that integrate_handler and run prefer for reports of kind k.
Primary(k) == IF k = "kMouse" THEN "mouseSw" ELSE "joySw"

\* The one a second source of kind k goes to.
Secondary(k) == IF k = "kMouse" THEN "joySw" ELSE "mouseSw"

\* The weak pointers once the sources of the holders H are destroyed.
Expired(H) ==
    [s \in Switcher |-> [k \in Kind |->
        IF source[s][k] \in H THEN NoSource ELSE source[s][k]]]

\* Mutant of Placement: a second source of a kind is not looked after.
PlacementPrimaryOnly(src, k) ==
    IF src[Primary(k)][k] = NoSource THEN Primary(k) ELSE NoTarget

\* integrate_handler's choice, given the registered sources src.
Placement(src, k) ==
    IF src[Primary(k)][k] = NoSource THEN Primary(k)
    ELSE IF src[Secondary(k)][k] = NoSource THEN Secondary(k)
    ELSE NoTarget

\* register_source, reached only if a place was found.
Registered(src, s, k, h) ==
    IF s = NoTarget THEN src ELSE [src EXCEPT ![s][k] = h]

\* The objects of the holders H are destroyed.
Destroy(H) ==
    /\ handler' = [x \in Holder |-> IF x \in H THEN NoHandler ELSE handler[x]]
    /\ target' = [x \in Holder |-> IF x \in H THEN NoTarget ELSE target[x]]
    /\ source' = Expired(H)

\* The shared_ptr of h is assigned a new source of kind k, the objects of the
\* holders H (h among them) are destroyed, and the new one is integrated.
Replace(H, h, k) ==
    LET rest == Expired(H)
        s == Placement(rest, k)
    IN  /\ handler' = [x \in Holder |-> IF x = h THEN k
                                        ELSE IF x \in H THEN NoHandler ELSE handler[x]]
        /\ target' = [x \in Holder |-> IF x = h THEN s
                                       ELSE IF x \in H THEN NoTarget ELSE target[x]]
        /\ source' = Registered(rest, s, k, h)

\* What the bare_handlers entry of an address owns, directly or inside the
\* receiver's user_data.
OwnedBy(a) == {a} \cup {<<a, 0>>, <<a, 1>>}
-----------------------------------------------------------------------------
\* tuh_hid_mount_cb: HidHandlerBuilder::find supports the device ...
HidMount(i, k) == Replace({i}, i, k) /\ UNCHANGED receiver

\* ... or returns null, which still overwrites the slot.
HidMountUnsupported(i) == Destroy({i}) /\ UNCHANGED receiver

\* tuh_hid_umount_cb
HidUmount(i) == Destroy({i}) /\ UNCHANGED receiver

\* open_vendor_interface of an Xbox One controller
MountXboxOne(a) == Replace(OwnedBy(a), a, "kGamePad") /\ receiver' = receiver \ {a}

\* open_vendor_interface of a wireless receiver: nothing is integrated yet
MountReceiver(a) == Destroy(OwnedBy(a)) /\ receiver' = receiver \cup {a}

\* Mutant of PadConnected: the pads are numbered from one.
PadConnectedOneBased(a, n) ==
    /\ a \in receiver
    /\ Replace({<<a, n + 1>>}, <<a, n + 1>>, "kGamePad")
    /\ UNCHANGED receiver

\* report_received, connection status 0x80: the proxy is replaced, also when
\* the pad was connected already
PadConnected(a, n) ==
    /\ a \in receiver
    /\ Replace({<<a, n>>}, <<a, n>>, "kGamePad")
    /\ UNCHANGED receiver

\* report_received, connection status 0x00
PadDisconnected(a, n) ==
    /\ a \in receiver
    /\ Destroy({<<a, n>>})
    /\ UNCHANGED receiver

\* tuh_umount_cb
BareUmount(a) == Destroy(OwnedBy(a)) /\ receiver' = receiver \ {a}

\* Kind k is served by its secondary place only.
Alone(k, src) == src[Primary(k)][k] = NoSource /\ src[Secondary(k)][k] # NoSource

\* Mutant of Promote: set_target is forgotten.
PromoteWithoutTarget(k, w) ==
    IF Alone(k, w.source)
    THEN [w EXCEPT !.source = [@ EXCEPT ![Secondary(k)][k] = NoSource,
                                        ![Primary(k)][k] = w.source[Secondary(k)][k]]]
    ELSE w

\* Mutant of Promote: the mouse is not looked after.
PromoteGamepadOnly(k, w) ==
    IF k = "kGamePad" /\ Alone(k, w.source)
    THEN LET h == w.source[Secondary(k)][k]
         IN  [target |-> [w.target EXCEPT ![h] = Primary(k)],
              source |-> [w.source EXCEPT ![Secondary(k)][k] = NoSource,
                                          ![Primary(k)][k] = h]]
    ELSE w

\* Mutant of Promote: the two switchers are swapped.
PromoteBackwards(k, w) ==
    LET h == w.source[Primary(k)][k]
    IN  IF h # NoSource /\ w.source[Secondary(k)][k] = NoSource
        THEN [target |-> [w.target EXCEPT ![h] = Secondary(k)],
              source |-> [w.source EXCEPT ![Primary(k)][k] = NoSource,
                                          ![Secondary(k)][k] = h]]
        ELSE w

\* One of the two checks at the end of run, on a wiring w.
Promote(k, w) ==
    IF Alone(k, w.source)
    THEN LET h == w.source[Secondary(k)][k]
         IN  [target |-> [w.target EXCEPT ![h] = Primary(k)],
              source |-> [w.source EXCEPT ![Secondary(k)][k] = NoSource,
                                          ![Primary(k)][k] = h]]
    ELSE w

\* Pipeline::run, as far as the wiring goes
PipelineRun ==
    LET w == Promote("kMouse", Promote("kGamePad", [target |-> target, source |-> source]))
    IN  /\ target' = w.target
        /\ source' = w.source
        /\ UNCHANGED <<handler, receiver>>

Next == \/ \E i \in HidInstance, k \in Kind : HidMount(i, k)
        \/ \E i \in HidInstance : HidMountUnsupported(i)
        \/ \E i \in HidInstance : HidUmount(i)
        \/ \E a \in Addr : MountXboxOne(a)
        \/ \E a \in Addr : MountReceiver(a)
        \/ \E a \in Addr, n \in {0, 1} : PadConnected(a, n)
        \/ \E a \in Addr, n \in {0, 1} : PadDisconnected(a, n)
        \/ \E a \in Addr : BareUmount(a)
        \/ PipelineRun

Spec == Init /\ [][Next]_vars

\* The main loop calls Pipeline::run again and again.
FairSpec == Spec /\ WF_vars(PipelineRun)
-----------------------------------------------------------------------------
\* Routing: a source sends its reports to a switcher exactly when that switcher
\* has it registered under its own kind, so what the emptiness checks of
\* integrate_handler and run see is what really feeds a switcher: no live
\* source feeds a switcher that believes the place to be free, and no two feed
\* the same place.
Routing ==
    \A s \in Switcher, k \in Kind, h \in Holder :
        source[s][k] = h <=> (handler[h] = k /\ target[h] = s)

\* The device a port listens to keeps a port while it stays attached: whatever
\* else is plugged or unplugged, run moves it at most to the primary switcher of
\* its kind and never drops it.
ServiceKept ==
    [][\A h \in Holder :
          (target[h] # NoTarget /\ handler'[h] = handler[h])
              => target'[h] \in {target[h], Primary(handler[h])}]_vars

\* A source left alone at its secondary switcher is moved to the primary one,
\* unless it is unplugged first or another source takes the primary place.
PromotedEventually ==
    \A k \in Kind : Alone(k, source) ~> ~Alone(k, source)

\* The abstract pool of two sources per kind (integrate_handler's comment).
Pool == INSTANCE SourcePool
    WITH Capacity <- 2,
         attached <- [k \in Kind |-> {h \in Holder : handler[h] = k}],
         served <- [k \in Kind |-> {h \in Holder : handler[h] = k /\ target[h] # NoTarget}]

\* Sources come and go as in the pool: two per kind are served in the order of
\* their arrival, further ones are ignored for as long as they stay attached.
ImplementsPool == Pool!Spec
=============================================================================
