-------------------------- MODULE VendorInterface --------------------------
(***************************************************************************)
(* How the vendor class interface of a USB device is found in its          *)
(* configuration descriptor (bare_api.cpp), and which of its endpoints the *)
(* handlers of the Xbox pads open.  A configuration is the sequence of the *)
(* descriptors in it, in good order; an endpoint is its address.           *)
(***************************************************************************)
EXTENDS Integers, SequencesExt

InterfaceLen == 9
HidLen == 9
EndpointLen == 7

\* An address has the direction in its highest bit.
IsIn(address) == address >= 128

Association(interfaces) == [type |-> "association", len |-> 8, interfaces |-> interfaces]
Interface(class, alt, endpoints) ==
    [type |-> "interface", len |-> InterfaceLen, class |-> class, alt |-> alt,
     endpoints |-> endpoints]
Endpoint(address) == [type |-> "endpoint", len |-> EndpointLen, address |-> address]
OtherDescriptor(len) == [type |-> "other", len |-> len]
-----------------------------------------------------------------------------
Where(config, type) == {i \in DOMAIN config : config[i].type = type}

\* Where an interface of its own, not a setting of the one before, begins.
Beginnings(config) == {i \in Where(config, "interface") : config[i].alt = 0}

\* Mutant of Behind: another setting of an interface is taken for another interface.
BehindSetting(config, i, itf_count) ==
    LET next == {j \in Where(config, "interface") \cup Where(config, "association") : j > i}
    IN  Min({Len(config) + 1} \cup
            {j \in next : \/ config[j].type = "association"
                          \/ Cardinality({k \in next : k <= j}) = itf_count})

\* count_interface_total_len: the first descriptor behind so many interfaces, or an
\* association.
Behind(config, i, itf_count) ==
    LET next == {j \in Beginnings(config) \cup Where(config, "association") : j > i}
    IN  Min({Len(config) + 1} \cup
            {j \in next : \/ config[j].type = "association"
                          \/ Cardinality({k \in next : k <= j}) = itf_count})

Bytes(config, i, end) == MapThenSumSet(LAMBDA j : config[j].len, i .. end - 1)

\* parse_config_descriptor: the interface that is opened and the descriptor behind it,
\* <<>> if there is none.
FirstVendorInterface(config) ==
    LET from[i \in 1 .. Len(config) + 1] ==
            LET associated == i <= Len(config) /\ config[i].type = "association"
                first == IF associated THEN i + 1 ELSE i
                end == Behind(config, first, IF associated THEN config[i].interfaces ELSE 1)
            IN  IF \/ first \notin Where(config, "interface")
                   \/ Bytes(config, first, end) < InterfaceLen
                THEN <<>>
                ELSE IF config[first].class = "vendor" THEN <<first, end>>
                ELSE from[end]
    IN  from[1]
-----------------------------------------------------------------------------
\* The handlers take an interface for corrupted that has no room for a HID descriptor.
TooShort(config, i, end) ==
    Bytes(config, i, end) < InterfaceLen + HidLen + config[i].endpoints * EndpointLen

\* The endpoints among the descriptors behind the interface, as many as it has endpoints.
EndpointsSeen(config, i) ==
    LET seen == SelectSeq(SubSeq(config, i + 1, i + config[i].endpoints),
                          LAMBDA d : d.type = "endpoint")
    IN  [k \in DOMAIN seen |-> seen[k].address]

\* What open_input_endpoint opens: the input, and the output of the same number.
InputAndOutput(address) == <<address, address % 128>>

\* The endpoints that open_vendor_interface opens, one after the other.  The receiver
\* does not advertise those of its second pad.
Opens(driver, config) ==
    LET found == FirstVendorInterface(config)
    IN  IF found = <<>> THEN <<>>
        ELSE IF TooShort(config, found[1], found[2]) THEN <<>>
        ELSE LET seen == EndpointsSeen(config, found[1])
             IN  IF driver = "xbox_one" THEN seen
                 ELSE FlattenSeq([k \in DOMAIN seen |->
                         IF IsIn(seen[k])
                         THEN InputAndOutput(seen[k]) \o InputAndOutput(131) ELSE <<>>])

\* Those that are open once the n-th could not be, or all.
OpenedBefore(opens, n) == SubSeq(opens, 1, n - 1)
=============================================================================
