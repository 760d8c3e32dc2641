----------------------------- MODULE UsbDevices -----------------------------
(***************************************************************************)
(* A USB device from its mounting to its reports: which driver it gets     *)
(* (HidHandlerBuilder::find, tuh_mount_cb), what it takes to make it       *)
(* report, what its reports are handed on as, and that every completed     *)
(* transfer asks for the next one.  One device is plugged in at a time:    *)
(* drivers share nothing but the pipeline (SourceRegistry).  Here every    *)
(* driver has a target.                                                    *)
(*                                                                         *)
(* The drivers of mice and of the Switch Pro controller are state machines *)
(* of their own (HidMouse, SwitchPro); those of the other pads keep        *)
(* nothing between two reports (PadReports).                               *)
(***************************************************************************)
EXTENDS HidMouse, SwitchPro, PadReports, VendorInterface

CONSTANTS Devices,     \* that are plugged in
          Presses,     \* how pads are held
          NoDevice, NoDriver, NoPress

(***************************************************************************)
(* A device has the name of its vendor and product IDs, a HID report       *)
(* descriptor and a configuration, <<>> where it has none, and the driver  *)
(* that the comments of the sources name for it.                           *)
(***************************************************************************)
ASSUME UsbDevicesAssumption ==
    /\ \A d \in Devices : /\ DOMAIN d = {"id", "hid", "config", "made_for"}
                          /\ d.made_for \in PadDriver \cup {"mouse", NoDriver}
                          /\ d.made_for = "mouse" => d.hid \in Descriptors
    /\ Presses \subseteq Press
    /\ NoDevice \notin Devices /\ NoPress \notin Press
    /\ NoDriver \notin PadDriver \cup {"mouse"}

VARIABLES
    device, driver,
    asked,        \* tuh_descriptor_get_device has not called back yet
    listening,    \* the endpoints that a transfer is asked for
    failed,       \* an endpoint of the device could not be opened
    connected,    \* the pads of a receiver that have a report_proxy_
    press,        \* how the pad was held that the last report handed on was of
    gamepad       \* that report, after the driver

usbVars == <<device, driver, asked, listening, failed, connected, press, gamepad>>
vars == <<usbVars, mouseVars, proVars>>

UsbTypeOK ==
    /\ device \in Devices \cup {NoDevice}
    /\ driver \in PadDriver \cup {"mouse", NoDriver}
    /\ asked \in BOOLEAN /\ failed \in BOOLEAN
    /\ listening \subseteq 0 .. 255
    /\ connected \subseteq {0, 1}
    /\ press \in Presses \cup {NoPress}
    /\ gamepad \subseteq Direction \cup {"fire", "sec_fire", "third_fire", "auto_fire",
                                         "joystick_swap"}

TypeOK == MouseTypeOK /\ ProTypeOK /\ UsbTypeOK

Init == /\ device = NoDevice /\ driver = NoDriver
        /\ asked = FALSE /\ listening = {} /\ failed = FALSE /\ connected = {}
        /\ press = NoPress /\ gamepad = {}
        /\ desc = <<>> /\ Fresh
        /\ ProFresh
-----------------------------------------------------------------------------
\* The vendor and product IDs of the builders; the mouse's are zeros.
BuilderIds == [ps3 |-> {"054c:0268", "0810:0001"}, ps4 |-> {"054c:05c4", "054c:09cc"},
               impact |-> {"07b5:0314"}, hizue |-> {"0079:0011"}, switch_pro |-> {"057e:2009"},
               mouse |-> {"0000:0000"}]

\* custom_matcher_ of the mouse: the first collection of the report descriptor is one.
ReportsAsMouse(hid) ==
    /\ hid # <<>>
    /\ hid[Min({i \in DOMAIN hid : hid[i].item = "usage"})].data = Desktop.mouse

\* Mutant of Found: the reports are looked at first.
FoundByReports(d) ==
    IF ReportsAsMouse(d.hid) THEN {"mouse"} ELSE {b \in DOMAIN BuilderIds : d.id \in BuilderIds[b]}

\* HidHandlerBuilder::find.  The builders are in the order in which the static objects
\* of the files were constructed, which the language leaves open.
Found(d) ==
    LET matching == {b \in DOMAIN BuilderIds : d.id \in BuilderIds[b]}
    IN  IF matching # {} THEN matching ELSE IF ReportsAsMouse(d.hid) THEN {"mouse"} ELSE {}

\* check_xbox_one_vid_pid and check_xbox_360_wireless_receiver_vid_pid
VendorDriver(d) == CASE d.id \in {"045e:02ea", "0e6f:0139"} -> "xbox_one"
                     [] d.id \in {"045e:0719", "045e:0291"} -> "xbox_360"
                     [] OTHER -> NoDriver

\* Nothing is left of the device before.
PlugIn(d) ==
    /\ device = NoDevice
    /\ device' = d
    /\ UNCHANGED <<failed, connected, press, gamepad>>

\* tuh_hid_mount_cb.  A mouse's descriptor is parsed before the first report is asked for.
HidMount(d) ==
    /\ PlugIn(d)
    /\ d.hid # <<>>
    /\ driver' \in IF Found(d) = {} THEN {NoDriver} ELSE Found(d)
    /\ listening' = {0}
    /\ IF driver' = "mouse" THEN MountMouse(d.hid) ELSE UNCHANGED mouseVars
    /\ IF driver' = "switch_pro" THEN MountPro ELSE UNCHANGED proVars
    /\ UNCHANGED asked

\* tuh_mount_cb of a device without a HID interface
VendorMount(d) ==
    /\ PlugIn(d)
    /\ d.hid = <<>>
    /\ asked' = (VendorDriver(d) # NoDriver)
    /\ UNCHANGED <<driver, listening, mouseVars, proVars>>

\* handle_device_descriptor reads the configuration and parses it; either may fail.
\* open_vendor_interface gives up at the first endpoint that cannot be opened, and
\* the driver is kept all the same.
DeviceDescriptor ==
    /\ asked
    /\ asked' = FALSE
    /\ \/ failed' = TRUE /\ UNCHANGED <<driver, listening>>
       \/ LET opens == Opens(VendorDriver(device), device.config)
          IN  /\ FirstVendorInterface(device.config) # <<>>
              /\ driver' = VendorDriver(device)
              /\ \E n \in 1 .. Len(opens) + 1 :
                    /\ listening' = {a \in Range(OpenedBefore(opens, n)) : IsIn(a)}
                    /\ failed' = (n <= Len(opens))
       \/ /\ FirstVendorInterface(device.config) = <<>>
          /\ UNCHANGED <<driver, listening, failed>>
    /\ UNCHANGED <<device, connected, press, gamepad, mouseVars, proVars>>

\* tuh_hid_umount_cb and tuh_umount_cb: the driver is destroyed.  What it knew is
\* cleared here at once and not by the next driver's constructor.
Unplug ==
    /\ device # NoDevice
    /\ device' = NoDevice /\ driver' = NoDriver
    /\ asked' = FALSE /\ listening' = {} /\ failed' = FALSE /\ connected' = {}
    /\ press' = NoPress /\ gamepad' = {}
    /\ MountMouse(<<>>)
    /\ handshake_sent' = FALSE /\ timeout_disabled' = FALSE /\ led_set' = FALSE
    /\ reports_collected' = 0 /\ last_command_sent' = 0 /\ now' = 0
    /\ busy' = FALSE /\ due' = FALSE /\ since_handshake' = kPauseBetweenCommands + 1
-----------------------------------------------------------------------------
\* Mutant of Resubmitted: the next transfer is asked for where the report was understood.
ResubmittedIfHandled(a, handled) == IF handled THEN {a} ELSE {}

\* What tuh_hid_report_received_cb and report_received ask for in the end, whether the
\* report was handled or not.
Resubmitted(a, handled) == {a}

\* The transfer of an endpoint completed.
Completed(a, handled) ==
    /\ a \in listening
    /\ listening' = (listening \ {a}) \cup Resubmitted(a, handled)
    /\ UNCHANGED <<device, driver, asked, failed>>

\* What a pad's driver hands on.
HandOn(p) == press' = p /\ gamepad' = Gamepad(driver, Sent(driver, p))

\* tuh_hid_report_received_cb with a mouse's report ...
MouseReport(r) ==
    /\ driver = "mouse"
    /\ ProcessReport(r)
    /\ Completed(0, forwarded' # <<>>)
    /\ UNCHANGED <<connected, press, gamepad, proVars>>

\* ... with one of a pad, or one of its other reports (report_id, input_report_id) ...
PadReport(p) ==
    /\ driver \in {"ps3", "ps4", "impact", "hizue", "switch_pro"}
    /\ \/ HandOn(p) /\ Completed(0, TRUE)
       \/ /\ driver \in {"ps4", "switch_pro"}
          /\ Completed(0, FALSE) /\ UNCHANGED <<press, gamepad>>
    /\ IF driver = "switch_pro" THEN CountReport ELSE UNCHANGED proVars
    /\ UNCHANGED <<connected, mouseVars>>

\* ... and with one that nobody reads.
UnsupportedReport ==
    /\ device # NoDevice /\ driver = NoDriver
    /\ Completed(0, FALSE)
    /\ UNCHANGED <<connected, press, gamepad, mouseVars, proVars>>

\* XboxOneHandler::report_received; a transfer that failed, or is of another type, is
\* only repeated.
XboxOneReport(p) ==
    /\ driver = "xbox_one"
    /\ \E a \in listening : \/ HandOn(p) /\ Completed(a, TRUE)
                            \/ Completed(a, FALSE) /\ UNCHANGED <<press, gamepad>>
    /\ UNCHANGED <<connected, mouseVars, proVars>>

\* The receiver's pad n listens on an endpoint of its own: 0x83 is the second's.
PadOf(a) == IF a = 131 THEN 1 ELSE 0

\* Xbox360WirelessReceiverHandler::report_received: a pad comes, goes or is held.
Xbox360Report(p) ==
    /\ driver = "xbox_360"
    /\ \E a \in listening :
          \/ Completed(a, FALSE) /\ UNCHANGED <<connected, press, gamepad>>
          \/ /\ connected' = connected \cup {PadOf(a)}
             /\ Completed(a, TRUE) /\ UNCHANGED <<press, gamepad>>
          \/ /\ connected' = connected \ {PadOf(a)}
             /\ Completed(a, TRUE) /\ UNCHANGED <<press, gamepad>>
          \/ /\ PadOf(a) \in connected
             /\ HandOn(p) /\ Completed(a, TRUE) /\ UNCHANGED connected
    /\ UNCHANGED <<mouseVars, proVars>>

\* The mouse's descriptor is parsed on.
MouseStep == driver = "mouse" /\ ParseItem /\ UNCHANGED <<usbVars, proVars>>

\* hid_app_task, the clock and the endpoint of the Switch Pro controller.
ProRun == driver = "switch_pro" /\ Run /\ UNCHANGED <<usbVars, mouseVars>>
ProTick == driver = "switch_pro" /\ Tick /\ UNCHANGED <<usbVars, mouseVars>>
ProTransferred == driver = "switch_pro" /\ Transferred /\ UNCHANGED <<usbVars, mouseVars>>

Next == \/ \E d \in Devices : HidMount(d) \/ VendorMount(d)
        \/ DeviceDescriptor
        \/ \E r \in Reports : MouseReport(r)
        \/ \E p \in Presses : PadReport(p) \/ XboxOneReport(p) \/ Xbox360Report(p)
        \/ UnsupportedReport
        \/ MouseStep
        \/ ProRun \/ ProTick \/ ProTransferred
        \/ Unplug

\* The main loop runs, the pad reports and the stack transfers what it accepted.
Fairness == /\ WF_vars(ProTick) /\ WF_vars(ProRun) /\ WF_vars(ProTransferred)
            /\ WF_vars(\E p \in Presses : PadReport(p))

Spec == Init /\ [][Next]_vars /\ Fairness
-----------------------------------------------------------------------------
\* What a device is by its IDs: one that a builder lists, or a mouse by its reports.
\* A vendor device is one of those checked, with a vendor interface.
Identified(d) ==
    d.made_for =
        IF d.hid = <<>>
        THEN IF FirstVendorInterface(d.config) = <<>> THEN NoDriver ELSE VendorDriver(d)
        ELSE IF \E b \in DOMAIN BuilderIds : d.id \in BuilderIds[b]
        THEN CHOOSE b \in DOMAIN BuilderIds : d.id \in BuilderIds[b]
        ELSE IF ReportsAsMouse(d.hid) THEN "mouse" ELSE NoDriver

\* MadeFor: a device gets the driver that was written for it, in whatever order the
\* builders were registered, also where its reports look like a mouse's (find).
MadeFor == device # NoDevice /\ ~asked /\ ~failed => driver = device.made_for

\* The endpoints a device can report on: of a HID interface the one that the stack
\* opens; those that the vendor interface has, and the second pad's.
InputsOf(d) ==
    IF d.hid # <<>> THEN {0}
    ELSE LET first == Min({i \in Beginnings(d.config) : d.config[i].class = "vendor"})
             own == {i \in Where(d.config, "endpoint") :
                        /\ i > first
                        /\ \A j \in Where(d.config, "interface") : j <= first \/ j > i}
         IN  {a \in {d.config[i].address : i \in own} : IsIn(a)}
                \cup IF d.made_for = "xbox_360" THEN {131} ELSE {}

\* A vendor device advertises the endpoints it reports on in a way that they are all found.
Advertised(d) ==
    LET opens == Opens(VendorDriver(d), d.config)
    IN  d.hid = <<>> /\ VendorDriver(d) # NoDriver /\ FirstVendorInterface(d.config) # <<>> =>
            /\ opens \in Seq(0 .. 255)
            /\ {a \in Range(opens) : IsIn(a)} = InputsOf(d)

\* Heard: unless an endpoint could not be opened, a device is listened to on all that it
\* reports on, through reports of other types and failed transfers
\* (tuh_hid_report_received_cb, report_received, "continue to submit transfer").
Heard == driver # NoDriver /\ ~failed => listening = InputsOf(device)

\* ButtonLayout: whether its D-pad is in bits, a hat or axes and whichever way its axes
\* count, a pad hands on the directions that are held, Fire and the request for a swap as
\* doc/button_layout.svg labels its buttons, and nothing that no button in use stands for
\* (process_report and report_received of the pads).  Which of the buttons in the north
\* and the south is Secondary Fire and which Auto Fire is excepted: the drawing has them
\* one way, every driver but the Switch Pro's the other way, and here either will do.
ButtonLayout ==
    press # NoPress => \E labels \in {Drawn, Exchanged} : AsLabelled(labels, driver, press, gamepad)

\* FallbackJustified: the boot protocol's layout is fallen back to only where the
\* descriptor leaves a field of the mouse without usage (parse_hid_report_descriptor).
FallbackJustified == driver = "mouse" => Understood

\* Ready: whatever collides, in the end a Switch Pro controller that stays has accepted
\* every command (run, process_report).
Ready == driver = "switch_pro" ~> Started \/ driver # "switch_pro"
=============================================================================
