---------------------------- MODULE MCUsbDevices ----------------------------
(***************************************************************************)
(* Mice of every shape (MCHidMouse), every pad there is a driver for, and  *)
(* devices that look like another one.                                     *)
(***************************************************************************)
EXTENDS UsbDevices, MCHidMouse

Device(id, hid, config, made_for) == [id |-> id, hid |-> hid, config |-> config, made_for |-> made_for]

\* Where another collection comes first the interface is not taken for a mouse.
Mice == {Device("1234:5678", d, <<>>, IF d[1].data = Desktop.mouse THEN "mouse" ELSE NoDriver) :
           d \in MouseDescriptors}

Joystick == <<Of("usage", 5), Main("collection"), Main("collection_end")>>
Pointer == Mouse(<<>>, Buttons(4, 0) \o Axes(XY, 8))

HidPads == {Device(id, Joystick, <<>>, made_for) :
              <<id, made_for>> \in {<<"054c:0268", "ps3">>, <<"0810:0001", "ps3">>,
                                    <<"054c:09cc", "ps4">>, <<"07b5:0314", "impact">>,
                                    <<"0079:0011", "hizue">>, <<"057e:2009", "switch_pro">>,
                                    <<"1234:5678", NoDriver>>}}

\* A pad with a touch pad, and one that nobody knows.
Lookalikes == {Device("054c:05c4", Pointer, <<>>, "ps4")}

Pair == <<Endpoint(130), Endpoint(2)>>

\* The data interface of an Xbox One pad with a second setting, those of its audio, in
\* an order of their own and associated.
XboxOneData == <<Interface("vendor", 0, 2)>> \o Pair \o <<Interface("vendor", 1, 2)>> \o Pair
Audio == <<Interface("audio", 0, 0), Interface("audio", 1, 1), Endpoint(132)>>
XboxOneConfigs == {XboxOneData \o Audio, Audio \o XboxOneData,
                   <<Association(2)>> \o Audio \o Audio \o XboxOneData,
                   <<Association(1)>> \o XboxOneData \o Audio}

\* A receiver advertises one pad, behind a descriptor of its own.
ReceiverConfigs == {<<Interface("vendor", 0, 2), OtherDescriptor(20), Endpoint(129), Endpoint(1)>>
                        \o <<Interface("vendor", 0, 2), OtherDescriptor(12), Endpoint(133)>>}

VendorPads == {Device("045e:02ea", <<>>, c, "xbox_one") : c \in XboxOneConfigs}
                \cup {Device("045e:0719", <<>>, c, "xbox_360") : c \in ReceiverConfigs}
                \cup {Device("045e:02ea", <<>>, Audio, NoDriver),
                      Device("1234:5678", <<>>, XboxOneData, NoDriver)}

AllDevices == Mice \cup HidPads \cup Lookalikes \cup VendorPads

\* What the proofs take for granted of devices and of reports (UsbDevices_proofs).
ASSUME MCUsbDevicesAssumption ==
    /\ \A d \in Devices : /\ Identified(d) /\ Advertised(d) /\ Nested(d.hid)
                          /\ "mouse" \in Found(d) => Regular(d.hid)
    /\ \A r \in Reports : 0 .. 3 \subseteq DOMAIN r

\* Each way to hold the D-pad and the stick, and up to two buttons.
Neutral == [dpad |-> {}, stick |-> {}, buttons |-> {}]
FewPresses == {[Neutral EXCEPT !.dpad = D] : D \in Held}
                \cup {[Neutral EXCEPT !.stick = D] : D \in Held}
                \cup {[Neutral EXCEPT !.buttons = B] : B \in {B \in SUBSET Button : Cardinality(B) = 1}}
                \cup {[dpad |-> {"up"}, stick |-> {"left"}, buttons |-> {"north", "east"}]}
=============================================================================
