------------------------------ MODULE HidMouse ------------------------------
(***************************************************************************)
(* MouseReportHandler: it walks through the report descriptor of a USB     *)
(* mouse item by item and learns where in a report the movement, the wheel *)
(* and the buttons are; every report is then read accordingly and handed   *)
(* on.  A descriptor that it does not understand makes it read the fixed   *)
(* layout of the boot protocol instead.                                    *)
(*                                                                         *)
(* A descriptor is a sequence of items.  Those that the parser skips       *)
(* (limits, units, usage pages) are left out; the main items input,        *)
(* distinguished by what they are, are the items of their own.  The number *)
(* of a usage may have two bytes.                                          *)
(***************************************************************************)
EXTENDS FieldExtractor, Sequences, FiniteSetsExt

CONSTANTS Descriptors,   \* those that mice send
          Reports        \* reports, all of the same length

Desktop == [mouse |-> 2, pointer |-> 1, x |-> 48, y |-> 49, wheel |-> 56]
FieldName == {"x", "y", "wheel", "buttons"}

Input == {"constant", "relative", "absolute"}
Item == [item : Input \cup {"collection", "collection_end", "report_id", "report_size",
                            "report_count", "usage"},
         data : Nat]

ASSUME HidMouseAssumption ==
    /\ Descriptors \subseteq Seq(Item)
    /\ \A r \in Reports : \A k \in DOMAIN r : r[k] \in Byte

VARIABLES
    desc,                \* the descriptor, <<>> if no mouse was mounted
    pos,                 \* the item that is parsed next, 0 when the parser has returned
    bit_offset, depth,   \* ri_collection_depth
    report_size, report_count,
    usage0, usage1, usages_level2,
    get,                 \* get_x, get_y, get_wheel and get_buttons
    expected_report_id,
    valid,               \* hid_report_desc_valid_
    received,            \* the last report, <<>> if none or an empty one
    forwarded            \* what process_report made of it, <<>> if it was discarded

mouseVars == <<desc, pos, bit_offset, depth, report_size, report_count, usage0, usage1,
               usages_level2, get, expected_report_id, valid, received, forwarded>>

parser == <<bit_offset, depth, report_size, report_count, usage0, usage1, usages_level2>>
learnt == <<get, expected_report_id>>

MouseTypeOK ==
    /\ desc \in Descriptors \cup {<<>>}
    /\ pos \in 0 .. Len(desc) + 1
    /\ bit_offset \in Nat /\ depth \in 0 .. 255
    /\ report_size \in 0 .. 255 /\ report_count \in 0 .. 255
    /\ usage0 \in 0 .. 255 /\ usage1 \in 0 .. 255 /\ usages_level2 \in Seq(0 .. 255)
    /\ get \in [FieldName -> Extractor]
    /\ expected_report_id \in 0 .. 255
    /\ valid \in BOOLEAN
    /\ (received = <<>> \/ received \in Reports)
    /\ (forwarded = <<>> \/ forwarded \in [FieldName -> -(2^(ByteBits - 1)) .. 2^ByteBits - 1])

\* The members of a new handler, and the parser's variables.
Fresh ==
    /\ pos = 1
    /\ bit_offset = 0 /\ depth = 0 /\ report_size = 0 /\ report_count = 0
    /\ usage0 = 0 /\ usage1 = 0 /\ usages_level2 = <<>>
    /\ get = [n \in FieldName |-> Unconfigured]
    /\ expected_report_id = 0
    /\ valid = FALSE
    /\ received = <<>> /\ forwarded = <<>>

\* A mouse was mounted.
MouseInit == desc \in Descriptors /\ Fresh
-----------------------------------------------------------------------------
\* The parser takes the next item, of the given kind.
Parse(item) ==
    /\ pos \in 1 .. Len(desc)
    /\ desc[pos].item = item
    /\ UNCHANGED <<desc, valid, received, forwarded>>

Data8 == desc[pos].data % 256

OfMouse == usage0 = Desktop.mouse /\ usage1 = Desktop.pointer

\* bit_offset behind an input
Advance == bit_offset + report_size * report_count

ParseConstant ==
    /\ Parse("constant")
    /\ pos' = pos + 1
    /\ bit_offset' = IF OfMouse THEN Advance ELSE bit_offset
    /\ UNCHANGED <<depth, report_size, report_count, usage0, usage1, usages_level2, learnt>>

\* A field of the input that has the usage of n; the last one counts.
ConfiguredBy(n) ==
    LET places == {k \in 1 .. Len(usages_level2) : usages_level2[k] = Desktop[n]}
    IN  IF places = {} THEN get[n]
        ELSE Configured(bit_offset + (Max(places) - 1) * report_size, report_size, TRUE)

\* Mutant of UsagesLeft: they are read without being removed.
UsagesKept == usages_level2

\* The usages that a relative input leaves to those behind it.
UsagesLeft == <<>>

\* The parser returns when the usages are more or less than the fields.
ParseRelative ==
    /\ Parse("relative")
    /\ IF ~OfMouse THEN pos' = pos + 1 /\ UNCHANGED <<bit_offset, usages_level2, get>>
       ELSE IF Len(usages_level2) # report_count
       THEN pos' = 0 /\ UNCHANGED <<bit_offset, usages_level2, get>>
       ELSE /\ pos' = pos + 1
            /\ get' = [n \in FieldName |-> IF n = "buttons" THEN get[n] ELSE ConfiguredBy(n)]
            /\ bit_offset' = Advance
            /\ usages_level2' = UsagesLeft
    /\ UNCHANGED <<depth, report_size, report_count, usage0, usage1, expected_report_id>>

\* Buttons are taken for fields of one bit.
ParseAbsolute ==
    /\ Parse("absolute")
    /\ pos' = pos + 1
    /\ IF OfMouse
       THEN /\ get' = [get EXCEPT !["buttons"] = Configured(bit_offset, report_count, FALSE)]
            /\ bit_offset' = Advance
       ELSE UNCHANGED <<get, bit_offset>>
    /\ UNCHANGED <<depth, report_size, report_count, usage0, usage1, usages_level2,
                   expected_report_id>>

\* bit_offset at the beginning of a collection
AtCollection == IF depth = 0 THEN 0 ELSE bit_offset

ParseCollection ==
    /\ Parse("collection")
    /\ pos' = pos + 1
    /\ bit_offset' = AtCollection
    /\ depth' = (depth + 1) % 256
    /\ UNCHANGED <<report_size, report_count, usage0, usage1, usages_level2, learnt>>

ParseCollectionEnd ==
    /\ Parse("collection_end")
    /\ pos' = pos + 1
    /\ depth' = (depth - 1) % 256
    /\ UNCHANGED <<bit_offset, report_size, report_count, usage0, usage1, usages_level2, learnt>>

\* expected_report_id_ after a report ID
ExpectedId == IF usage0 = Desktop.mouse THEN Data8 ELSE expected_report_id

ParseReportId ==
    /\ Parse("report_id")
    /\ pos' = pos + 1
    /\ bit_offset' = bit_offset + ByteBits
    /\ expected_report_id' = ExpectedId
    /\ UNCHANGED <<depth, report_size, report_count, usage0, usage1, usages_level2, get>>

ParseReportSize ==
    /\ Parse("report_size")
    /\ pos' = pos + 1
    /\ report_size' = Data8
    /\ UNCHANGED <<bit_offset, depth, report_count, usage0, usage1, usages_level2, learnt>>

ParseReportCount ==
    /\ Parse("report_count")
    /\ pos' = pos + 1
    /\ report_count' = Data8
    /\ UNCHANGED <<bit_offset, depth, report_size, usage0, usage1, usages_level2, learnt>>

ParseUsage ==
    /\ Parse("usage")
    /\ pos' = pos + 1
    /\ usage0' = IF depth = 0 THEN Data8 ELSE usage0
    /\ usage1' = IF depth = 1 THEN Data8 ELSE usage1
    /\ usages_level2' = IF depth = 2 THEN Append(usages_level2, Data8) ELSE usages_level2
    /\ UNCHANGED <<bit_offset, depth, report_size, report_count, learnt>>

\* All items were parsed.
Finish ==
    /\ pos = Len(desc) + 1
    /\ pos' = 0
    /\ valid' = TRUE
    /\ UNCHANGED <<desc, parser, learnt, received, forwarded>>
-----------------------------------------------------------------------------
\* saturating_cast
Saturated(v) == IF v > 2^(ByteBits - 1) - 1 THEN 2^(ByteBits - 1) - 1
                ELSE IF v < -(2^(ByteBits - 1)) THEN -(2^(ByteBits - 1)) ELSE v

\* The MouseReport that has these fields.
Packed(field) == [n \in FieldName |-> IF n = "buttons" THEN field[n] % 2^ByteBits
                                       ELSE Saturated(field[n])]

\* The fields of a report in the layout of class MouseReport.
BootFields(r) ==
    [buttons |-> r[0], x |-> AsSigned(r[1], ByteBits), y |-> AsSigned(r[2], ByteBits),
     wheel |-> AsSigned(r[3], ByteBits)]

\* process_report.  It keeps nothing, so one report after each mount is enough.
ProcessReport(r) ==
    /\ pos = 0 /\ received = <<>>
    /\ received' = r
    /\ forwarded' = IF ~valid THEN Packed(BootFields(r))
                    ELSE IF expected_report_id > 0 /\ expected_report_id # r[0] THEN <<>>
                    ELSE Packed([n \in FieldName |-> Extract(get[n], r)])
    /\ UNCHANGED <<desc, pos, parser, learnt, valid>>

\* A mouse with the descriptor d is mounted: its handler is a new one.
MountMouse(d) ==
    /\ desc' = d /\ pos' = 1
    /\ bit_offset' = 0 /\ depth' = 0 /\ report_size' = 0 /\ report_count' = 0
    /\ usage0' = 0 /\ usage1' = 0 /\ usages_level2' = <<>>
    /\ get' = [n \in FieldName |-> Unconfigured]
    /\ expected_report_id' = 0
    /\ valid' = FALSE
    /\ received' = <<>> /\ forwarded' = <<>>

\* The mouse is plugged in again.
Remount == received # <<>> /\ MountMouse(desc)

ParseItem ==
    \/ ParseConstant \/ ParseRelative \/ ParseAbsolute
    \/ ParseCollection \/ ParseCollectionEnd
    \/ ParseReportId \/ ParseReportSize \/ ParseReportCount \/ ParseUsage
    \/ Finish

MouseNext == ParseItem \/ (\E r \in Reports : ProcessReport(r)) \/ Remount

MouseSpec == MouseInit /\ [][MouseNext]_mouseVars
-----------------------------------------------------------------------------
(***************************************************************************)
(* Where the fields are by HID 1.11, told from the descriptor as a whole.  *)
(***************************************************************************)
Before(d, i, items) == {j \in 1 .. i - 1 : d[j].item \in items}

\* The value of a global or local item for the main item i.
Latest(d, i, item) == LET js == Before(d, i, {item}) IN IF js = {} THEN 0 ELSE d[Max(js)].data

DepthAt(d, i) == Cardinality(Before(d, i, {"collection"}))
                    - Cardinality(Before(d, i, {"collection_end"}))

\* The usage of the collection at that depth that i is in.
CollectionUsage(d, i, level) ==
    Latest(d, Max({j \in Before(d, i, {"collection"}) : DepthAt(d, j) = level}), "usage")

\* The usage of the application collection that i is in.
Application(d, i) == CollectionUsage(d, i, 0)

Bits(d, i) == Latest(d, i, "report_size") * Latest(d, i, "report_count")

\* An input follows the inputs before it in the same report, and the report's ID.
Position(d, i) ==
    LET id == Latest(d, i, "report_id")
        inputs == {j \in Before(d, i, Input) : Latest(d, j, "report_id") = id}
    IN  (IF id = 0 THEN 0 ELSE ByteBits) + SumFunction([j \in inputs |-> Bits(d, j)])

MainItem == Input \cup {"collection", "collection_end"}

\* The usages of an input are those since the main item before it.
UsagesOf(d, i) == {j \in Before(d, i, {"usage"}) : Before(d, i, MainItem) \subseteq 1 .. j}

MouseInputs(d, kind) ==
    {i \in 1 .. Len(d) : d[i].item = kind /\ Application(d, i) = Desktop.mouse}

\* A descriptor nested as those of mice are: a collection of the outer two levels has the
\* usage right before it, relative inputs are those of a mouse's pointer, and nothing
\* else in there has usages of its own.
Nested(d) ==
    /\ d \in Seq(Item)
    /\ \A i \in 1 .. Len(d) + 1 : DepthAt(d, i) \in 0 .. 255
    /\ \A i \in 1 .. Len(d) :
          /\ d[i].item = "report_count" => d[i].data < 256
          /\ d[i].item = "collection" /\ DepthAt(d, i) < 2 =>
                i > 1 /\ d[i - 1].item = "usage" /\ d[i - 1].data < 256
          /\ d[i].item = "relative" => /\ DepthAt(d, i) = 2
                                      /\ Application(d, i) = Desktop.mouse
                                      /\ CollectionUsage(d, i, 1) = Desktop.pointer
          /\ d[i].item \in MainItem \ {"relative"} /\ DepthAt(d, i) = 2 => UsagesOf(d, i) = {}

\* The k-th field of an input has its k-th usage.
FieldOf(d, i, usage) ==
    <<Position(d, i) + Cardinality({k \in UsagesOf(d, i) : k < usage}) * Latest(d, i, "report_size"),
      Latest(d, i, "report_size")>>

\* The field of that name: where it begins, and its bits.
Fields(d, n) ==
    IF n = "buttons" THEN {<<Position(d, i), Bits(d, i)>> : i \in MouseInputs(d, "absolute")}
    ELSE UNION {{FieldOf(d, i, k) : k \in {k \in UsagesOf(d, i) : d[k].data = Desktop[n]}} :
                i \in MouseInputs(d, "relative")}

\* The items of these kinds in a mouse's collection.
MouseItems(d, items) ==
    {i \in 1 .. Len(d) : d[i].item \in items /\ Application(d, i) = Desktop.mouse}

\* A descriptor that a mouse's one report can be told from: the inputs of its only collection
\* are those of the pointer and make up a report, the ID of which, if there is one, is before
\* them; usages are of one byte, buttons of one bit, and no name has two fields.  A field lies
\* within the report and, unless it is of whole bytes, is shorter than a word.
Regular(d) ==
    /\ \A i \in 1 .. Len(d) :
          /\ d[i].item \in {"report_size", "report_id"} => d[i].data < 256
          /\ d[i].item \in Input \cup {"report_id"} => DepthAt(d, i) > 0
    /\ \A i, j \in 1 .. Len(d) :
          (\A k \in {i, j} : /\ d[k].item = "collection" /\ DepthAt(d, k) = 0
                             /\ Latest(d, k, "usage") = Desktop.mouse) => i = j
    /\ MouseInputs(d, "relative") # {}
    /\ \A i \in MouseItems(d, Input) :
          /\ DepthAt(d, i) = 2 /\ CollectionUsage(d, i, 1) = Desktop.pointer
          /\ MouseItems(d, {"report_id"}) =
                IF Latest(d, i, "report_id") = 0 THEN {} ELSE {Max(Before(d, i, {"report_id"}))}
          /\ \A j \in Before(d, i, Input) :
                Latest(d, j, "report_id") = Latest(d, i, "report_id") <=> j \in MouseItems(d, Input)
          /\ d[i].item = "absolute" => Latest(d, i, "report_size") = 1
          /\ \A k \in UsagesOf(d, i) : d[k].data < 256
    /\ \A n \in FieldName : \A f, g \in Fields(d, n) :
          /\ f = g
          /\ f[2] \in 1 .. WordBits
          /\ f[2] = WordBits => f[1] % ByteBits = 0
          /\ \A r \in Reports : f[1] \div ByteBits .. (f[1] + f[2] - 1) \div ByteBits \subseteq DOMAIN r

\* Bits of a report are counted from the lowest of its first byte.
Bit(r, i) == (r[i \div ByteBits] \div 2^(i % ByteBits)) % 2

\* The n bits from the k-th on in binary, the lowest first.
Binary(r, k, n) == SumFunction([i \in 0 .. n - 1 |-> Bit(r, k + i) * 2^i])

\* A field in binary, or in two's complement; nothing if the mouse has none.
Number(n, r) ==
    IF Fields(desc, n) = {} THEN 0
    ELSE LET f == CHOOSE f \in Fields(desc, n) : TRUE
             v == Binary(r, f[1], f[2])
         IN  IF n = "buttons" THEN v ELSE AsSigned(v, f[2])

MouseReportId == Latest(desc, Max(MouseInputs(desc, "relative")), "report_id")

\* MouseReportRead: what is handed on is what the report says according to its
\* descriptor, at every offset, size and sign of its fields, and nothing of other
\* reports ("If it has, we need to filter out the right one", expected_report_id_).
MouseReportRead ==
    received # <<>> /\ valid =>
        forwarded = IF MouseReportId # 0 /\ received[0] # MouseReportId THEN <<>>
                    ELSE Packed([n \in FieldName |-> Number(n, received)])

\* Understood: the boot protocol's layout is fallen back to only if an input has not a
\* usage for each of its fields (parse_hid_report_descriptor, "to support wheel movement").
Understood ==
    pos = 0 /\ ~valid =>
        \E i \in MouseInputs(desc, "relative") :
            Cardinality(UsagesOf(desc, i)) # Latest(desc, i, "report_count")

\* WheelExtracted: get_wheel "extracts relative wheel movement from report".
WheelExtracted ==
    valid /\ forwarded # <<>> => forwarded.wheel = Saturated(Number("wheel", received))
=============================================================================
