----------------------------- MODULE MCHidMouse -----------------------------
(***************************************************************************)
(* Report descriptors of mice, in the shapes that mice have, with bytes of *)
(* four bits: a field of 8 or 16 bits is one of 4 or 8 here.               *)
(***************************************************************************)
EXTENDS HidMouse

Main(kind) == [item |-> kind, data |-> 0]
Of(kind, n) == [item |-> kind, data |-> n]

Axes(usages, size) ==
    [i \in 1 .. Len(usages) |-> Of("usage", usages[i])]
        \o <<Of("report_size", size), Of("report_count", Len(usages)), Main("relative")>>

Buttons(n, padding) ==
    <<Of("report_count", n), Of("report_size", 1), Main("absolute")>>
        \o IF padding = 0 THEN <<>>
           ELSE <<Of("report_count", 1), Of("report_size", padding), Main("constant")>>

XY == <<Desktop.x, Desktop.y>>
XYWheel == <<Desktop.x, Desktop.y, Desktop.wheel>>
Wheel == <<Desktop.wheel>>

\* Buttons that fill a byte or not, and axes of every size, aligned and not.
Fields1 == {Buttons(b[1], b[2]) \o Axes(XYWheel, size) :
              b \in {<<3, 0>>, <<3, 1>>, <<4, 0>>}, size \in {4, 6, 12, 15}}

\* Axes before buttons, a wheel of its own size, an axis as wide as a word.
Fields2 == {Axes(XY, 8) \o Axes(Wheel, 4) \o Buttons(5, 3),
            Axes(XY, 6) \o Buttons(3, 0) \o Axes(Wheel, 2),
            Buttons(4, 0) \o Axes(XY, 16),
            Buttons(3, 1) \o Axes(<<Desktop.wheel, Desktop.y, Desktop.x>>, 8)}

\* A field without a usage.
Fields3 == {Buttons(4, 0) \o <<Of("usage", Desktop.x), Of("usage", Desktop.y),
                               Of("report_size", 4), Of("report_count", 3), Main("relative")>>}

Mouse(ids, fields) ==
    <<Of("usage", Desktop.mouse), Main("collection")>> \o ids
        \o <<Of("usage", Desktop.pointer), Main("collection")>> \o fields
        \o <<Main("collection_end"), Main("collection_end")>>

\* Another collection of the same interface, with a report of its own.
Keyboard == <<Of("usage", 6), Main("collection"), Of("report_id", 2), Of("report_size", 1),
              Of("report_count", 8), Main("absolute"), Main("collection_end")>>

ReportId == <<Of("report_id", 1)>>

MouseDescriptors ==
    UNION {{Mouse(<<>>, f), Mouse(ReportId, f), Keyboard \o Mouse(ReportId, f),
            Mouse(ReportId, f) \o Keyboard} : f \in Fields1 \cup Fields2 \cup Fields3}

\* A mouse whose wheel tilts: AC Pan is usage 0x238 of the consumer page.
TiltDescriptors == {Mouse(<<>>, Buttons(4, 0) \o Axes(XYWheel, 4) \o Axes(<<568>>, 4))}

\* Reports that repeat after five bytes, which is as far as a field reaches.
ReportBytes == 15
Pattern == [0 .. 4 -> {0, 9, 14}]
MouseReports == {[k \in 0 .. ReportBytes - 1 |-> p[k % 5]] : p \in Pattern}
=============================================================================
