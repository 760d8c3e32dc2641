--------------------------- MODULE Pipeline_proofs ---------------------------
(***************************************************************************)
(* Proofs about Pipeline, for all reports, all movement, both build        *)
(* options and every threshold.  The operators on the output side have a   *)
(* lemma each; EnsureBothOK is the heart: after it the ports are in order  *)
(* whatever they were before, which is why swaps and mode changes are safe.*)
(***************************************************************************)
EXTENDS Pipeline, TLAPS

\* There are two switchers, each the other of the other.
LEMMA SwitcherFacts ==
    /\ "mouseSw" \in Switcher /\ "joySw" \in Switcher
    /\ \A s \in Switcher : Other(s) \in Switcher /\ Other(s) # s
    /\ \A s, t \in Switcher : t = s \/ t = Other(s)
  BY DEF Switcher, Other

\* The two switchers write to different ports.
LEMMA PortFacts ==
    ASSUME NEW m \in MuxType
    PROVE  /\ \A s \in Switcher : m.port[s] \in Port
           /\ \A s, t \in Switcher : m.port[s] = m.port[t] => s = t
           /\ \A p \in Port : \E s \in Switcher : p = m.port[s]
  BY DEF MuxType, Switcher, Port

\* What each operator leaves of a value of mux.
Configured(m, p, r) ==
    /\ r \in MuxType
    /\ r.port = m.port /\ r.last = m.last /\ r.sm = m.sm
    /\ r.pins[p] = {} /\ r.pio[p] = FALSE
    /\ \A q \in Port : q # p => r.pins[q] = m.pins[q]
    /\ \A q \in Port : q # p => r.pio[q] = m.pio[q]

\* configure_gpios clears the lines of its port and no others.
LEMMA ConfigureGpiosOK ==
    ASSUME NEW m \in MuxType, NEW p \in Port
    PROVE  Configured(m, p, ConfigureGpios(m, p))
<1>1. PICK r : r = ConfigureGpios(m, p)
  OBVIOUS
<1>2. Configured(m, p, r)
  BY <1>1 DEF MuxType, ConfigureGpios, Configured
<1> QED BY <1>1, <1>2

\* set_port_state changes the lines of its port only.
LEMMA SetPortStateOK ==
    ASSUME NEW m \in MuxType, NEW p \in Port, NEW lines \in SUBSET Line
    PROVE  LET r == SetPortState(m, p, lines)
           IN  /\ r \in MuxType
               /\ r.port = m.port /\ r.last = m.last /\ r.sm = m.sm /\ r.pio = m.pio
               /\ r.pins[p] = lines
               /\ \A q \in Port : q # p => r.pins[q] = m.pins[q]
  BY DEF MuxType, SetPortState

\* Only the cached output of one game pad changes.
LEMMA SetLastOK ==
    ASSUME NEW m \in MuxType, NEW s \in Switcher, NEW bits \in SUBSET AllBits
    PROVE  LET r == SetLast(m, s, bits)
           IN  /\ r \in MuxType
               /\ r.port = m.port /\ r.sm = m.sm /\ r.pins = m.pins /\ r.pio = m.pio
               /\ r.last[s] = bits
               /\ \A t \in Switcher : t # s => r.last[t] = m.last[t]
  BY DEF MuxType, SetLast

\* ensure_joystick_muxing sets up the port of s and forgets what was written.
JoystickMuxed(m, s, r) ==
    /\ r \in MuxType
    /\ r.port = m.port /\ r.sm = m.sm
    /\ r.last[s] = AllBits /\ r.last[Other(s)] = m.last[Other(s)]
    /\ r.pins[m.port[s]] = {} /\ r.pio[m.port[s]] = FALSE
    /\ r.pins[m.port[Other(s)]] = m.pins[m.port[Other(s)]]
    /\ r.pio[m.port[Other(s)]] = m.pio[m.port[Other(s)]]

\* After ensure_joystick_muxing the SIO has the pot lines of the port, and the pad will
\* write whatever comes next.
LEMMA EnsureJoystickOK ==
    ASSUME NEW m \in MuxType, NEW s \in Switcher
    PROVE  JoystickMuxed(m, s, EnsureJoystickMuxing(m, s))
<1>1. m.port[s] \in Port /\ m.port[Other(s)] \in Port /\ m.port[Other(s)] # m.port[s]
  BY PortFacts, SwitcherFacts
<1>2. PICK c : c = ConfigureGpios(m, m.port[s])
  OBVIOUS
<1>c. Configured(m, m.port[s], c)
  BY <1>1, <1>2, ConfigureGpiosOK
<1>3. /\ c \in MuxType /\ c.port = m.port /\ c.last = m.last /\ c.sm = m.sm
      /\ c.pins[m.port[s]] = {} /\ c.pio[m.port[s]] = FALSE
      /\ c.pins[m.port[Other(s)]] = m.pins[m.port[Other(s)]]
      /\ c.pio[m.port[Other(s)]] = m.pio[m.port[Other(s)]]
  BY <1>1, <1>c DEF Configured
<1>4. PICK r : r = SetLast(c, s, AllBits)
  OBVIOUS
<1>5. /\ r \in MuxType
      /\ r.port = c.port /\ r.sm = c.sm /\ r.pins = c.pins /\ r.pio = c.pio
      /\ r.last[s] = AllBits
      /\ \A t \in Switcher : t # s => r.last[t] = c.last[t]
  BY <1>3, <1>4, SetLastOK
<1>6. JoystickMuxed(m, s, r)
  BY <1>3, <1>5, SwitcherFacts DEF JoystickMuxed
<1>7. EnsureJoystickMuxing(m, s) = r
  BY <1>2, <1>4 DEF EnsureJoystickMuxing
<1> QED BY <1>6, <1>7

\* ensure_mouse_muxing of any mouse sets up the port of s; the other port is
\* touched only for the wheel.
MouseMuxed(m, s, mode, r) ==
    /\ r \in MuxType
    /\ r.port = m.port /\ r.last = m.last
    /\ mode = 2 => r.pio[m.port[s]] = TRUE /\ r.sm[s] = m.port[s]
    /\ mode # 2 => r.pio[m.port[s]] = FALSE /\ r.pins[m.port[s]] = {}
    /\ r.sm[Other(s)] = m.sm[Other(s)]
    /\ HasWheel(s, mode) => /\ r.pio[m.port[Other(s)]] = FALSE
                            /\ r.pins[m.port[Other(s)]] = {}
    /\ ~HasWheel(s, mode) => /\ r.pio[m.port[Other(s)]] = m.pio[m.port[Other(s)]]
                             /\ r.pins[m.port[Other(s)]] = m.pins[m.port[Other(s)]]

\* After the muxing of a C1351 the PIO has the pot lines of its port.
LEMMA C1351MuxingOK ==
    ASSUME NEW m \in MuxType, NEW s \in Switcher
    PROVE  MouseMuxed(m, s, 2, C1351Muxing(m, s))
<1>1. m.port[s] \in Port /\ m.port[Other(s)] \in Port /\ m.port[Other(s)] # m.port[s]
  BY PortFacts, SwitcherFacts
<1>2. ~HasWheel(s, 2)
  BY DEF HasWheel
<1>3. PICK r : r = C1351Muxing(m, s)
  OBVIOUS
<1>4. /\ r \in MuxType /\ r.port = m.port /\ r.last = m.last /\ r.pins = m.pins
      /\ r.sm[s] = m.port[s] /\ r.pio[m.port[s]] = TRUE
      /\ r.sm[Other(s)] = m.sm[Other(s)]
      /\ r.pio[m.port[Other(s)]] = m.pio[m.port[Other(s)]]
  BY <1>1, <1>3, SwitcherFacts DEF MuxType, C1351Muxing
<1>5. MouseMuxed(m, s, 2, r)
  BY <1>2, <1>4 DEF MouseMuxed
<1> QED BY <1>3, <1>5

\* The muxing of the current mouse, whichever it is.
LEMMA EnsureMouseOK ==
    ASSUME NEW m \in MuxType, NEW s \in Switcher, NEW mode \in 0 .. 2
    PROVE  MouseMuxed(m, s, mode, EnsureMouseMuxing(m, s, mode))
<1>1. m.port[s] \in Port /\ m.port[Other(s)] \in Port /\ m.port[Other(s)] # m.port[s]
  BY PortFacts, SwitcherFacts
<1>2. HasWheel(s, mode) => mode # 2 /\ Other(s) = "joySw"
  BY DEF HasWheel, Other
<1>3. CASE mode = 2
  BY <1>3, C1351MuxingOK DEF EnsureMouseMuxing
<1>4. CASE mode # 2
  <2>1. PICK c : c = ConfigureGpios(m, m.port[s])
    OBVIOUS
  <2>c. Configured(m, m.port[s], c)
    BY <1>1, <2>1, ConfigureGpiosOK
  <2>2. /\ c \in MuxType /\ c.port = m.port /\ c.last = m.last /\ c.sm = m.sm
        /\ c.pins[m.port[s]] = {} /\ c.pio[m.port[s]] = FALSE
        /\ c.pins[m.port[Other(s)]] = m.pins[m.port[Other(s)]]
        /\ c.pio[m.port[Other(s)]] = m.pio[m.port[Other(s)]]
    BY <1>1, <2>c DEF Configured
  <2>3. CASE HasWheel(s, mode)
    <3>1. PICK r : r = ConfigureGpios(c, m.port[Other(s)])
      OBVIOUS
    <3>r. Configured(c, m.port[Other(s)], r)
      BY <1>1, <2>2, <3>1, ConfigureGpiosOK
    <3>2. /\ r \in MuxType /\ r.port = c.port /\ r.last = c.last /\ r.sm = c.sm
          /\ r.pins[m.port[Other(s)]] = {} /\ r.pio[m.port[Other(s)]] = FALSE
          /\ r.pins[m.port[s]] = c.pins[m.port[s]] /\ r.pio[m.port[s]] = c.pio[m.port[s]]
      BY <1>1, <3>r DEF Configured
    <3>3. MouseMuxed(m, s, mode, r)
      BY <1>4, <2>2, <2>3, <3>2 DEF MouseMuxed
    <3>4. EnsureMouseMuxing(m, s, mode) = r
      BY <1>2, <1>4, <2>1, <2>3, <3>1 DEF EnsureMouseMuxing, QuadratureMuxing
    <3> QED BY <3>3, <3>4
  <2>4. CASE ~HasWheel(s, mode)
    <3>1. MouseMuxed(m, s, mode, c)
      BY <1>4, <2>2, <2>4 DEF MouseMuxed
    <3>2. EnsureMouseMuxing(m, s, mode) = c
      BY <1>4, <2>1, <2>4 DEF EnsureMouseMuxing, QuadratureMuxing
    <3> QED BY <3>1, <3>2
  <2> QED BY <2>3, <2>4
<1> QED BY <1>3, <1>4

\* The state in which ensure_muxing leaves switcher s and its port.
Settled(m, s, act, mode) ==
    /\ act[s] = "kGamePad" => /\ m.last[s] = AllBits
                              /\ m.pio[m.port[s]] = FALSE /\ m.pins[m.port[s]] = {}
    /\ (act[s] = "kMouse" /\ mode # 2) =>
          m.pio[m.port[s]] = FALSE /\ m.pins[m.port[s]] = {}
    /\ (act[s] = "kMouse" /\ mode = 2) =>
          m.pio[m.port[s]] = TRUE /\ m.sm[s] = m.port[s]

\* ensure_muxing settles its switcher and does not unsettle the other.
LEMMA EnsureMuxingOK ==
    ASSUME NEW m \in MuxType, NEW s \in Switcher, NEW mode \in 0 .. 2,
           NEW act \in [Switcher -> ReportType]
    PROVE  LET r == EnsureMuxing(m, s, act, mode)
           IN  /\ r \in MuxType
               /\ Settled(r, s, act, mode)
               /\ Settled(m, Other(s), act, mode) => Settled(r, Other(s), act, mode)
<1>1. HasWheel(s, mode) => mode # 2
  BY DEF HasWheel
<1>2. CASE act[s] = "kMouse"
  <2>1. PICK r : r = EnsureMouseMuxing(m, s, mode)
    OBVIOUS
  <2>2. MouseMuxed(m, s, mode, r)
    BY <2>1, EnsureMouseOK
  <2>3. r \in MuxType /\ Settled(r, s, act, mode)
    BY <1>2, <2>2 DEF Settled, MouseMuxed
  <2>4. Settled(m, Other(s), act, mode) => Settled(r, Other(s), act, mode)
    <3>1. CASE HasWheel(s, mode)
      BY <1>1, <2>2, <3>1 DEF Settled, MouseMuxed
    <3>2. CASE ~HasWheel(s, mode)
      BY <2>2, <3>2 DEF Settled, MouseMuxed
    <3> QED BY <3>1, <3>2
  <2>5. EnsureMuxing(m, s, act, mode) = r
    BY <1>2, <2>1 DEF EnsureMuxing
  <2> QED BY <2>3, <2>4, <2>5
<1>3. CASE act[s] # "kMouse"
  <2>1. PICK r : r = EnsureJoystickMuxing(m, s)
    OBVIOUS
  <2>2. JoystickMuxed(m, s, r)
    BY <2>1, EnsureJoystickOK
  <2>3. r \in MuxType /\ Settled(r, s, act, mode)
    BY <1>3, <2>2 DEF Settled, JoystickMuxed
  <2>4. Settled(m, Other(s), act, mode) => Settled(r, Other(s), act, mode)
    BY <2>2 DEF Settled, JoystickMuxed
  <2>5. EnsureMuxing(m, s, act, mode) = r
    BY <1>3, <2>1 DEF EnsureMuxing
  <2> QED BY <2>3, <2>4, <2>5
<1> QED BY <1>2, <1>3

\* After a swap or a change of the mode both switchers are settled, whatever the
\* ports were before.
AllSettled(m, act, mode) ==
    m \in MuxType /\ \A s \in Switcher : Settled(m, s, act, mode)

\* Muxing both switchers settles both: the second call does not undo the first.
LEMMA EnsureBothOK ==
    ASSUME NEW m \in MuxType, NEW mode \in 0 .. 2, NEW act \in [Switcher -> ReportType]
    PROVE  AllSettled(EnsureBoth(m, act, mode), act, mode)
<1>1. PICK a : a = EnsureMuxing(m, "joySw", act, mode)
  OBVIOUS
<1>2. a \in MuxType /\ Settled(a, "joySw", act, mode)
  BY <1>1, EnsureMuxingOK, SwitcherFacts
<1>3. PICK r : r = EnsureMuxing(a, "mouseSw", act, mode)
  OBVIOUS
<1>4. Other("mouseSw") = "joySw" /\ Switcher = {"mouseSw", "joySw"}
  BY DEF Other, Switcher
<1>5. r \in MuxType /\ Settled(r, "mouseSw", act, mode) /\ Settled(r, "joySw", act, mode)
  BY <1>2, <1>3, <1>4, EnsureMuxingOK
<1>6. EnsureBoth(m, act, mode) = r
  BY <1>1, <1>3 DEF EnsureBoth
<1> QED BY <1>4, <1>5, <1>6 DEF AllSettled

\* A swap settles both switchers on their new ports.
LEMMA SwapCallbackOK ==
    ASSUME TypeOK, NEW m \in MuxType
    PROVE  AllSettled(SwapCallback(m), active, mouse_mode)
<1>1. PICK c : c = SwapPorts(m)
  OBVIOUS
<1>2. c \in MuxType
  BY <1>1 DEF MuxType, SwapPorts, Switcher, Other, Port
<1>3. mouse_mode \in 0 .. 2 /\ active \in [Switcher -> ReportType]
  BY DEF TypeOK
<1>4. SwapCallback(m) = EnsureBoth(c, active, mouse_mode)
  BY <1>1 DEF SwapCallback
<1> QED BY <1>2, <1>3, <1>4, EnsureBothOK
-----------------------------------------------------------------------------
\* What the four safety properties say of one switcher: kind is what is active
\* on it, lines the state of its mouse.
Fine(m, s, kind, mode, lines) ==
    /\ m.pio[m.port[s]] <=> (kind = "kMouse" /\ mode = 2)
    /\ (kind = "kMouse" /\ mode = 2) => m.sm[s] = m.port[s]
    /\ ~(WheelBusMouse /\ mode = 0 /\ s = "joySw") =>
          /\ (kind = "kGamePad" /\ m.last[s] # AllBits) => m.pins[m.port[s]] = m.last[s]
          /\ (kind = "kMouse" /\ mode # 2) => m.pins[m.port[s]] \subseteq lines

\* The inductive invariant: the properties of Fine are inductive together.
IInv == /\ TypeOK
        /\ \A s \in Switcher : Fine(mux, s, active[s], mouse_mode, mouse_state[s])

\* A settled switcher is fine, whatever its mouse activates.
LEMMA SettledFine ==
    ASSUME NEW m, NEW mode \in 0 .. 2, NEW act \in [Switcher -> ReportType],
           AllSettled(m, act, mode), NEW s \in Switcher, NEW lines
    PROVE  m \in MuxType /\ Fine(m, s, act[s], mode, lines)
<1>1. act[s] = "kMouse" \/ act[s] = "kGamePad"
  BY DEF ReportType
<1>2. m \in MuxType /\ Settled(m, s, act, mode)
  BY DEF AllSettled
<1> QED BY <1>1, <1>2 DEF Settled, Fine

\* A switcher stays fine when its port, its output and its state machines stay.
LEMMA OtherFine ==
    ASSUME NEW m \in MuxType, NEW r \in MuxType, NEW s \in Switcher,
           NEW kind, NEW mode, NEW lines,
           Fine(m, s, kind, mode, lines),
           r.port[s] = m.port[s],
           r.pio[m.port[s]] = m.pio[m.port[s]],
           r.last[s] = m.last[s],
           r.sm[s] = m.sm[s],
           ~(WheelBusMouse /\ mode = 0 /\ s = "joySw") => r.pins[m.port[s]] = m.pins[m.port[s]]
    PROVE  Fine(r, s, kind, mode, lines)
  BY DEF Fine

\* A mouse's write of its new state keeps every switcher fine.
LEMMA WriteIfChangedFine ==
    ASSUME NEW m \in MuxType, NEW s \in Switcher, NEW mode \in 0 .. 2,
           NEW act \in [Switcher -> ReportType], act[s] = "kMouse",
           NEW old \in [Switcher -> SUBSET Line], NEW new \in SUBSET Line,
           \A t \in Switcher : Fine(m, t, act[t], mode, old[t])
    PROVE  LET r == WriteIfChanged(m, s, old[s], new)
           IN  /\ r \in MuxType
               /\ \A t \in Switcher : Fine(r, t, act[t], mode, [old EXCEPT ![s] = new][t])
<1>1. CASE new = old[s]
  BY <1>1 DEF WriteIfChanged
<1>2. CASE new # old[s]
  <2>1. /\ m.port[s] \in Port
        /\ \A t \in Switcher : m.port[t] \in Port
        /\ \A t \in Switcher : t # s => m.port[t] # m.port[s]
    BY PortFacts
  <2>2. PICK r : r = SetPortState(m, m.port[s], new)
    OBVIOUS
  <2>3. /\ r \in MuxType
        /\ r.port = m.port /\ r.last = m.last /\ r.sm = m.sm /\ r.pio = m.pio
        /\ r.pins[m.port[s]] = new
        /\ \A q \in Port : q # m.port[s] => r.pins[q] = m.pins[q]
    BY <2>1, <2>2, SetPortStateOK
  <2>4. Fine(r, s, act[s], mode, new)
    <3>1. Fine(m, s, act[s], mode, old[s])
      OBVIOUS
    <3> QED BY <2>3, <3>1 DEF Fine
  <2>5. ASSUME NEW t \in Switcher, t # s
        PROVE  Fine(r, t, act[t], mode, old[t])
    BY <2>1, <2>3, <2>5, OtherFine
  <2>6. WriteIfChanged(m, s, old[s], new) = r
    BY <1>2, <2>2 DEF WriteIfChanged
  <2> QED BY <2>3, <2>4, <2>5, <2>6
<1> QED BY <1>1, <1>2

\* A game pad's write keeps every switcher fine.
LEMMA WritePadFine ==
    ASSUME NEW m \in MuxType, NEW s \in Switcher, NEW mode \in 0 .. 2,
           NEW act \in [Switcher -> ReportType], act[s] = "kGamePad",
           NEW lines \in [Switcher -> SUBSET Line], NEW out \in SUBSET Line,
           \A t \in Switcher : Fine(m, t, act[t], mode, lines[t])
    PROVE  LET r == WritePad(m, s, out)
           IN  r \in MuxType /\ \A t \in Switcher : Fine(r, t, act[t], mode, lines[t])
<1>1. CASE m.last[s] = out
  BY <1>1 DEF WritePad
<1>2. CASE m.last[s] # out
  <2>1. /\ m.port[s] \in Port
        /\ \A t \in Switcher : m.port[t] \in Port
        /\ \A t \in Switcher : t # s => m.port[t] # m.port[s]
    BY PortFacts
  <2>2. PICK c : c = SetLast(m, s, out)
    OBVIOUS
  <2>3. /\ c \in MuxType
        /\ c.port = m.port /\ c.sm = m.sm /\ c.pins = m.pins /\ c.pio = m.pio
        /\ c.last[s] = out
        /\ \A t \in Switcher : t # s => c.last[t] = m.last[t]
    BY <2>2, SetLastOK DEF AllBits
  <2>4. PICK r : r = SetPortState(c, m.port[s], out)
    OBVIOUS
  <2>5. /\ r \in MuxType
        /\ r.port = c.port /\ r.last = c.last /\ r.sm = c.sm /\ r.pio = c.pio
        /\ r.pins[m.port[s]] = out
        /\ \A q \in Port : q # m.port[s] => r.pins[q] = c.pins[q]
    BY <2>1, <2>3, <2>4, SetPortStateOK
  <2>6. Fine(r, s, act[s], mode, lines[s])
    <3>1. Fine(m, s, act[s], mode, lines[s])
      OBVIOUS
    <3> QED BY <2>3, <2>5, <3>1 DEF Fine
  <2>7. ASSUME NEW t \in Switcher, t # s
        PROVE  Fine(r, t, act[t], mode, lines[t])
    BY <2>1, <2>3, <2>5, <2>7, OtherFine
  <2>8. WritePad(m, s, out) = r
    BY <1>2, <2>2, <2>4 DEF WritePad
  <2> QED BY <2>5, <2>6, <2>7, <2>8
<1> QED BY <1>1, <1>2
-----------------------------------------------------------------------------
\* The constructor settles both switchers.
LEMMA InitIInv == Init => IInv
<1> SUFFICES ASSUME Init PROVE IInv
  OBVIOUS
<1>1. /\ active \in [Switcher -> ReportType] /\ mouse_mode \in 0 .. 2
      /\ mouse_state \in [Switcher -> SUBSET Line]
  BY DEF Init, ReportType
<1>2. PICK m : m = [port |-> [s \in Switcher |-> IF s = "mouseSw" THEN "right" ELSE "left"],
                    pins |-> [p \in Port |-> {}],
                    pio |-> [p \in Port |-> FALSE],
                    last |-> [s \in Switcher |-> AllBits],
                    sm |-> [s \in Switcher |-> "none"]]
  OBVIOUS
<1>3. m \in MuxType
  BY <1>2 DEF MuxType
<1>4. mux = EnsureBoth(m, active, mouse_mode)
  BY <1>2 DEF Init
<1>5. AllSettled(mux, active, mouse_mode)
  BY <1>1, <1>3, <1>4, EnsureBothOK
<1>6. mux \in MuxType /\ \A s \in Switcher : Fine(mux, s, active[s], mouse_mode, mouse_state[s])
  BY <1>1, <1>5, SettledFine, SwitcherFacts
<1>7. TypeOK
  BY <1>1, <1>6, PipelineAssumption, SwitcherFacts DEF Init, TypeOK
<1> QED BY <1>6, <1>7 DEF IInv

\* What the cases of the induction step have to show.
LEMMA TypeFacts ==
    ASSUME IInv
    PROVE  /\ active \in [Switcher -> ReportType] /\ mouse_mode \in 0 .. 2
           /\ mux \in MuxType /\ mouse_state \in [Switcher -> SUBSET Line]
           /\ \A s \in Switcher : Fine(mux, s, active[s], mouse_mode, mouse_state[s])
  BY DEF IInv, TypeOK

\* A report of a game pad, with a takeover from the mouse or without.
LEMMA GamepadReportStep ==
    ASSUME IInv, NEW s \in Switcher, NEW r \in PadReport[s], GamepadReport(s, r)
    PROVE  IInv'
<1>1. r \in SUBSET PadButton
  BY PipelineAssumption
<1>2. mouse_mode' = mouse_mode /\ mouse_state' = mouse_state
  BY DEF GamepadReport
<1>3. mux' \in MuxType /\ active' \in [Switcher -> ReportType]
      /\ \A t \in Switcher : Fine(mux, t, active[t], mouse_mode, mouse_state[t])'
  <2>1. CASE r # {} /\ active[s] # "kGamePad"
    <3>1. active' = [active EXCEPT ![s] = "kGamePad"] /\ mux' = EnsureJoystickMuxing(mux, s)
      BY <2>1 DEF GamepadReport
    <3>2. JoystickMuxed(mux, s, mux')
      BY <3>1, TypeFacts, EnsureJoystickOK
    <3>3. active' \in [Switcher -> ReportType] /\ active'[s] = "kGamePad"
          /\ active'[Other(s)] = active[Other(s)]
      BY <3>1, TypeFacts, SwitcherFacts DEF ReportType
    <3>4. Fine(mux', s, active'[s], mouse_mode, mouse_state[s])
      BY <3>2, <3>3 DEF JoystickMuxed, Fine
    <3>5. Fine(mux', Other(s), active[Other(s)], mouse_mode, mouse_state[Other(s)])
      <4>1. Fine(mux, Other(s), active[Other(s)], mouse_mode, mouse_state[Other(s)])
        BY TypeFacts, SwitcherFacts
      <4> QED BY <3>2, <4>1 DEF JoystickMuxed, Fine
    <3>6. mux' \in MuxType
      BY <3>2 DEF JoystickMuxed
    <3> QED BY <1>2, <3>3, <3>4, <3>5, <3>6, SwitcherFacts
  <2>2. CASE ~(r # {} /\ active[s] # "kGamePad")
    <3>1. active' = active /\ mux' = mux
      BY <2>2 DEF GamepadReport
    <3> QED BY <1>2, <3>1, TypeFacts
  <2> QED BY <2>1, <2>2
<1>4. TypeOK'
  BY <1>1, <1>2, <1>3 DEF GamepadReport, IInv, TypeOK
<1> QED BY <1>3, <1>4 DEF IInv

\* A report of a mouse, with a takeover from the game pad or without.
LEMMA MouseReportStep ==
    ASSUME IInv, NEW s \in Switcher, NEW r \in MouseReport[s], MouseReportReceived(s, r)
    PROVE  IInv'
<1>1. r \in [buttons : SUBSET MouseButton, fast : BOOLEAN]
  BY PipelineAssumption
<1>2. mouse_mode' = mouse_mode /\ wheel_state' = wheel_state /\ in_state' = in_state
      /\ swap_cnt' = swap_cnt /\ turn' = turn
  BY DEF MouseReportReceived
<1>3. PICK take : take = ((r.fast \/ r.buttons # {}) /\ active[s] # "kMouse")
  OBVIOUS
<1>4. active' = IF take THEN [active EXCEPT ![s] = "kMouse"] ELSE active
  BY <1>3 DEF MouseReportReceived
<1>5. active' \in [Switcher -> ReportType]
  BY <1>4, TypeFacts DEF ReportType
<1>6. PICK m : m = IF take THEN EnsureMouseMuxing(mux, s, mouse_mode) ELSE mux
  OBVIOUS
<1>7. m \in MuxType /\ \A t \in Switcher : Fine(m, t, active'[t], mouse_mode, mouse_state[t])
  <2>1. CASE take
    <3>1. MouseMuxed(mux, s, mouse_mode, m)
      BY <1>6, <2>1, TypeFacts, EnsureMouseOK
    <3>2. active'[s] = "kMouse" /\ active'[Other(s)] = active[Other(s)]
      BY <1>4, <2>1, TypeFacts, SwitcherFacts
    <3>3. Fine(m, s, active'[s], mouse_mode, mouse_state[s])
      BY <3>1, <3>2 DEF MouseMuxed, Fine
    <3>4. Fine(m, Other(s), active[Other(s)], mouse_mode, mouse_state[Other(s)])
      <4>1. Fine(mux, Other(s), active[Other(s)], mouse_mode, mouse_state[Other(s)])
        BY TypeFacts, SwitcherFacts
      <4>2. CASE HasWheel(s, mouse_mode)
        BY <3>1, <4>1, <4>2 DEF MouseMuxed, Fine, HasWheel, Other
      <4>3. CASE ~HasWheel(s, mouse_mode)
        BY <3>1, <4>1, <4>3 DEF MouseMuxed, Fine
      <4> QED BY <4>2, <4>3
    <3>5. m \in MuxType
      BY <3>1 DEF MouseMuxed
    <3> QED BY <3>2, <3>3, <3>4, <3>5, SwitcherFacts
  <2>2. CASE ~take
    BY <1>4, <1>6, <2>2, TypeFacts
  <2> QED BY <2>1, <2>2
<1>8. mux' \in MuxType /\ mouse_state' \in [Switcher -> SUBSET Line]
      /\ swap_pressed' \in [Switcher -> BOOLEAN]
      /\ swap_performed' \in [Switcher -> BOOLEAN]
      /\ final_cart_hack' \in [Switcher -> BOOLEAN]
      /\ \A t \in Switcher : Fine(mux', t, active'[t], mouse_mode, mouse_state'[t])
  <2>1. CASE active'[s] = "kMouse"
    <3>1. PICK new : new = ButtonLines(r.buttons, mouse_mode)
                             \cup (mouse_state[s] \cap RunLines(mouse_mode))
      OBVIOUS
    <3>2. new \in SUBSET Line
      <4>1. ButtonLines(r.buttons, mouse_mode) \in SUBSET Line
        BY DEF ButtonLines, Line, Direction, Pot
      <4>2. mouse_state[s] \in SUBSET Line
        BY TypeFacts
      <4> QED BY <3>1, <4>1, <4>2
    <3>3. mux' = WriteIfChanged(m, s, mouse_state[s], new)
          /\ mouse_state' = [mouse_state EXCEPT ![s] = new]
      BY <1>3, <1>6, <2>1, <3>1 DEF MouseReportReceived
    <3>4. mux' \in MuxType /\ \A t \in Switcher :
             Fine(mux', t, active'[t], mouse_mode, [mouse_state EXCEPT ![s] = new][t])
      BY <1>5, <1>7, <2>1, <3>2, <3>3, TypeFacts, WriteIfChangedFine
    <3>5. mouse_state' \in [Switcher -> SUBSET Line]
      BY <3>2, <3>3, TypeFacts
    <3>6. SwapCombi(r.buttons) \in BOOLEAN
      BY DEF SwapCombi
    <3>7. /\ swap_pressed' \in [Switcher -> BOOLEAN]
          /\ swap_performed' \in [Switcher -> BOOLEAN]
          /\ final_cart_hack' \in [Switcher -> BOOLEAN]
      BY <2>1, <3>6 DEF MouseReportReceived, IInv, TypeOK
    <3> QED BY <3>3, <3>4, <3>5, <3>7
  <2>2. CASE active'[s] # "kMouse"
    <3>1. UNCHANGED <<mux, mouse_state, swap_pressed, swap_performed, final_cart_hack>>
      BY <2>2 DEF MouseReportReceived
    <3>2. ~take
      BY <1>4, <2>2, TypeFacts
    <3>3. active' = active
      BY <1>4, <3>2
    <3> QED BY <3>1, <3>3, TypeFacts DEF IInv, TypeOK
  <2> QED BY <2>1, <2>2
<1>9. TypeOK'
  BY <1>2, <1>5, <1>8 DEF IInv, TypeOK
<1> QED BY <1>2, <1>8, <1>9 DEF IInv

\* A run of an active game pad, with a swap by its button or without.
LEMMA RunGamepadStep ==
    ASSUME IInv, NEW s \in Switcher, RunGamepad(s)
    PROVE  IInv'
<1>1. active[s] = "kGamePad" /\ turn' = Other(s)
      /\ UNCHANGED <<active, mouse_mode, in_state, final_cart_hack, mouse_state,
                     wheel_state, swap_pressed, swap_performed>>
  BY DEF RunGamepad
<1>2. PICK tick \in BOOLEAN, auto \in BOOLEAN :
         LET cnt == IF tick THEN NextSwapCnt(s) ELSE swap_cnt[s]
             swaps == cnt # swap_cnt[s] /\ cnt = kJoystickSwapThreshold
         IN  /\ swap_cnt' = [swap_cnt EXCEPT ![s] = cnt]
             /\ mux' = WritePad(IF swaps THEN SwapCallback(mux) ELSE mux, s, PadOut(s, auto))
  BY DEF RunGamepad
<1>3. PICK cnt : cnt = IF tick THEN NextSwapCnt(s) ELSE swap_cnt[s]
  OBVIOUS
<1>4. PICK m : m = IF cnt # swap_cnt[s] /\ cnt = kJoystickSwapThreshold
                   THEN SwapCallback(mux) ELSE mux
  OBVIOUS
<1>5. swap_cnt' = [swap_cnt EXCEPT ![s] = cnt] /\ mux' = WritePad(m, s, PadOut(s, auto))
  BY <1>2, <1>3, <1>4
<1>6. cnt \in 0 .. kJoystickSwapThreshold + 1
  BY <1>3, PipelineAssumption DEF NextSwapCnt, IInv, TypeOK
<1>7. m \in MuxType /\ \A t \in Switcher : Fine(m, t, active[t], mouse_mode, mouse_state[t])
  <2>1. CASE m = mux
    BY <2>1, TypeFacts
  <2>2. CASE m = SwapCallback(mux)
    <3>1. AllSettled(m, active, mouse_mode)
      BY <2>2, TypeFacts, SwapCallbackOK DEF IInv
    <3> QED BY <3>1, TypeFacts, SettledFine
  <2> QED BY <1>4, <2>1, <2>2
<1>8. PICK out : out = PadOut(s, auto)
  OBVIOUS
<1>9. out \in SUBSET Line
  BY <1>8 DEF PadOut
<1>10. mux' \in MuxType
       /\ \A t \in Switcher : Fine(mux', t, active[t], mouse_mode, mouse_state[t])
  <2>1. mux' = WritePad(m, s, out)
    BY <1>5, <1>8
  <2> QED BY <1>1, <1>7, <1>9, <2>1, TypeFacts, WritePadFine
<1>11. TypeOK'
  BY <1>1, <1>5, <1>6, <1>10, SwitcherFacts DEF IInv, TypeOK
<1> QED BY <1>1, <1>10, <1>11 DEF IInv

\* A run of an active mouse: a swap by its buttons, its own lines, the wheel.
LEMMA RunMouseStep ==
    ASSUME IInv, NEW s \in Switcher, RunMouse(s)
    PROVE  IInv'
<1>1. active[s] = "kMouse" /\ turn' = Other(s)
      /\ UNCHANGED <<active, mouse_mode, in_state, swap_cnt, final_cart_hack, swap_pressed>>
  BY DEF RunMouse
<1>2. PICK held \in BOOLEAN, new \in MouseStates(s),
           wheel \in IF HasWheel(s, mouse_mode) THEN SUBSET (Motion \cap {"up", "left"})
                                                ELSE {wheel_state} :
         LET swaps == swap_pressed[s] /\ ~swap_performed[s] /\ held
             muxed == WriteIfChanged(IF swaps THEN SwapCallback(mux) ELSE mux,
                                     s, mouse_state[s], new)
         IN  /\ swap_performed' = [swap_performed EXCEPT ![s] = @ \/ swaps]
             /\ mouse_state' = [mouse_state EXCEPT ![s] = new]
             /\ wheel_state' = wheel
             /\ mux' = WriteIfChanged(muxed, "joySw", wheel_state, wheel)
  BY DEF RunMouse
<1>3. PICK m : m = IF swap_pressed[s] /\ ~swap_performed[s] /\ held
                   THEN SwapCallback(mux) ELSE mux
  OBVIOUS
<1>4. PICK n : n = WriteIfChanged(m, s, mouse_state[s], new)
  OBVIOUS
<1>5. mux' = WriteIfChanged(n, "joySw", wheel_state, wheel)
      /\ mouse_state' = [mouse_state EXCEPT ![s] = new] /\ wheel_state' = wheel
  BY <1>2, <1>3, <1>4
<1>6. m \in MuxType /\ \A t \in Switcher : Fine(m, t, active[t], mouse_mode, mouse_state[t])
  <2>1. CASE m = mux
    BY <2>1, TypeFacts
  <2>2. CASE m = SwapCallback(mux)
    <3>1. AllSettled(m, active, mouse_mode)
      BY <2>2, TypeFacts, SwapCallbackOK DEF IInv
    <3> QED BY <3>1, TypeFacts, SettledFine
  <2> QED BY <1>3, <2>1, <2>2
<1>7. new \in SUBSET Line
  <2>1. mouse_state[s] \in SUBSET Line /\ Motion \in SUBSET Line
    BY TypeFacts, PipelineAssumption DEF Line
  <2> QED BY <1>2, <2>1 DEF MouseStates
<1>8. mouse_state' \in [Switcher -> SUBSET Line]
  BY <1>5, <1>7, TypeFacts
<1>9. n \in MuxType /\ \A t \in Switcher : Fine(n, t, active[t], mouse_mode, mouse_state'[t])
  BY <1>1, <1>4, <1>5, <1>6, <1>7, TypeFacts, WriteIfChangedFine
<1>10. wheel \in SUBSET Direction
  <2>1. wheel_state \in SUBSET Direction
    BY DEF IInv, TypeOK
  <2> QED BY <1>2, <2>1, PipelineAssumption
<1>11. mux' \in MuxType
       /\ \A t \in Switcher : Fine(mux', t, active[t], mouse_mode, mouse_state'[t])
  <2>1. CASE wheel = wheel_state
    BY <1>5, <1>9, <2>1 DEF WriteIfChanged
  <2>2. CASE wheel # wheel_state
    <3>1. WheelBusMouse /\ mouse_mode = 0
      BY <1>2, <2>2 DEF HasWheel
    <3>2. /\ "joySw" \in Switcher /\ n.port["joySw"] \in Port
          /\ \A t \in Switcher : n.port[t] \in Port
          /\ \A t \in Switcher : t # "joySw" => n.port[t] # n.port["joySw"]
      BY <1>9, PortFacts, SwitcherFacts
    <3>3. mux' = SetPortState(n, n.port["joySw"], wheel)
      BY <1>5, <2>2 DEF WriteIfChanged
    <3>4. wheel \in SUBSET Line
      BY <1>10 DEF Line
    <3>5. /\ mux' \in MuxType
          /\ mux'.port = n.port /\ mux'.last = n.last /\ mux'.sm = n.sm /\ mux'.pio = n.pio
          /\ \A q \in Port : q # n.port["joySw"] => mux'.pins[q] = n.pins[q]
      BY <1>9, <3>2, <3>3, <3>4, SetPortStateOK
    <3>6. ASSUME NEW t \in Switcher
          PROVE  Fine(mux', t, active[t], mouse_mode, mouse_state'[t])
      BY <1>9, <3>1, <3>2, <3>5, OtherFine
    <3> QED BY <3>5, <3>6
  <2> QED BY <2>1, <2>2
<1>12. swap_performed' \in [Switcher -> BOOLEAN]
  BY <1>2 DEF IInv, TypeOK
<1>13. TypeOK'
  BY <1>1, <1>5, <1>8, <1>10, <1>11, <1>12, SwitcherFacts DEF IInv, TypeOK
<1> QED BY <1>1, <1>11, <1>13 DEF IInv

\* A change of the mouse mode: new converters, and both switchers set up again.
LEMMA CycleMouseModeStep ==
    ASSUME IInv, CycleMouseMode
    PROVE  IInv'
<1>1. /\ mouse_mode' = (mouse_mode + 1) % 3
      /\ mux' = EnsureBoth(SetModes(mux), active, mouse_mode')
      /\ mouse_state' = [s \in Switcher |-> {}]
      /\ wheel_state' = {}
      /\ UNCHANGED <<active, in_state, swap_cnt, final_cart_hack, swap_pressed,
                     swap_performed, turn>>
  BY DEF CycleMouseMode
<1>2. mouse_mode' \in 0 .. 2
  BY <1>1, TypeFacts
<1>3. SetModes(mux) \in MuxType
  BY TypeFacts DEF SetModes, MuxType
<1>4. AllSettled(mux', active, mouse_mode')
  BY <1>1, <1>2, <1>3, TypeFacts, EnsureBothOK
<1>5. mux' \in MuxType
      /\ \A s \in Switcher : Fine(mux', s, active[s], mouse_mode', mouse_state'[s])
  BY <1>2, <1>4, TypeFacts, SettledFine, SwitcherFacts
<1>6. TypeOK'
  BY <1>1, <1>2, <1>5 DEF IInv, TypeOK
<1> QED BY <1>1, <1>5, <1>6 DEF IInv

\* Every action keeps the invariant.
LEMMA NextIInv == IInv /\ [Next]_vars => IInv'
<1> SUFFICES ASSUME IInv, [Next]_vars PROVE IInv'
  OBVIOUS
<1>1. ASSUME NEW s \in Switcher, NEW r \in PadReport[s], GamepadReport(s, r) PROVE IInv'
  BY <1>1, GamepadReportStep
<1>2. ASSUME NEW s \in Switcher, NEW r \in MouseReport[s], MouseReportReceived(s, r)
      PROVE  IInv'
  BY <1>2, MouseReportStep
<1>3. ASSUME NEW s \in Switcher, RunGamepad(s) PROVE IInv'
  BY <1>3, RunGamepadStep
<1>4. ASSUME NEW s \in Switcher, RunMouse(s) PROVE IInv'
  BY <1>4, RunMouseStep
<1>5. CASE CycleMouseMode
  BY <1>5, CycleMouseModeStep
<1>6. CASE UNCHANGED vars
  BY <1>6 DEF vars, IInv, TypeOK, Fine, MuxType
<1> QED BY <1>1, <1>2, <1>3, <1>4, <1>5, <1>6 DEF Next
-----------------------------------------------------------------------------
\* The inductive invariant holds in every reachable state.
THEOREM Invariance == Spec => []IInv
<1>1. Init => IInv
  BY InitIInv
<1>2. IInv /\ [Next]_vars => IInv'
  BY NextIInv
<1> QED BY <1>1, <1>2, PTL DEF Spec

\* Type correctness.
THEOREM TypeCorrect == Spec => []TypeOK
<1>1. IInv => TypeOK
  BY DEF IInv
<1> QED BY <1>1, Invariance, PTL

\* Takeovers, swaps and mode changes give the pot lines to the PIO exactly for an
\* active C1351 mouse.
THEOREM PotOwnerAlways == Spec => []PotOwner
<1>1. IInv => PotOwner
  BY DEF IInv, Fine, PotOwner
<1> QED BY <1>1, Invariance, PTL

\* An active C1351 converter has the state machines of its port.
THEOREM SmAssignedAlways == Spec => []SmAssigned
<1>1. IInv => SmAssigned
  BY DEF IInv, Fine, SmAssigned
<1> QED BY <1>1, Invariance, PTL

\* An active game pad's port shows what the game pad believes to have put out.
THEOREM PadCoherentAlways == Spec => []PadCoherent
<1>1. IInv => PadCoherent
  BY DEF IInv, Fine, PadCoherent
<1> QED BY <1>1, Invariance, PTL

\* An active quadrature mouse's port shows nothing that the mouse does not.
THEOREM QuadratureCleanAlways == Spec => []QuadratureClean
<1>1. IInv => QuadratureClean
  BY DEF IInv, Fine, QuadratureClean
<1> QED BY <1>1, Invariance, PTL
=============================================================================
