----------------------- MODULE QuadratureMouse_proofs -----------------------
(***************************************************************************)
(* No movement is lost by the quadrature mice, for any number of encoders, *)
(* any reports, any timing, and any number of takeovers and of writes by   *)
(* others on the wheel's port.                                             *)
(***************************************************************************)
EXTENDS QuadratureMouse, TLAPS

USE DEF Button

-----------------------------------------------------------------------------
(***************************************************************************)
(* Signals and phases.                                                     *)
(***************************************************************************)

\* A line of one signal is no button's and no other signal's of its port.
LEMMA LinesDistinct ==
    ASSUME NEW a \in Axis, NEW b \in Axis, Target[a] = Target[b]
    PROVE  /\ A[a] # B[b]
           /\ a # b => A[a] # A[b] /\ B[a] # B[b]
           /\ A[a] \notin Button /\ B[a] \notin Button
           /\ A[a] \in Signal /\ B[a] \in Signal
BY QuadratureAssumption DEF Signal

\* The computer reads back the phase that run encoded, whatever the buttons.
LEMMA PhaseShown ==
    ASSUME NEW os \in [Axis -> 0 .. 255], NEW buttons \in SUBSET Button, NEW a \in Axis
    PROVE  PhaseOf(buttons \cup SignalsOf(os, Target[a]), a) = os[a] % 4
<1> DEFINE lines == buttons \cup SignalsOf(os, Target[a])
<1>1. A[a] \in lines <=> lut_a(os[a] % 4)
  BY LinesDistinct DEF SignalsOf, AxesOf
<1>2. B[a] \in lines <=> lut_b(os[a] % 4)
  BY LinesDistinct DEF SignalsOf, AxesOf
<1>3. os[a] % 4 \in 0 .. 3
  OBVIOUS
<1> QED
  BY <1>1, <1>2, <1>3 DEF PhaseOf, lut_a, lut_b

\* Phases depend on the signals alone.
LEMMA PhaseOfSignals ==
    ASSUME NEW lines, NEW buttons \in SUBSET Button, NEW a \in Axis
    PROVE  PhaseOf((lines \cap Signal) \cup buttons, a) = PhaseOf(lines, a)
BY LinesDistinct DEF PhaseOf

\* A phase is a number below four.
LEMMA PhaseRange ==
    ASSUME NEW lines, NEW a \in Axis
    PROVE  ShownPhase(lines, a) \in 0 .. 3
BY DEF ShownPhase, PhaseOf

\* Remainders of phases: two applications of % that SMT does not see by itself.
LEMMA PhaseStep ==
    ASSUME NEW n \in 0 .. 255, NEW d \in -1 .. 1
    PROVE  /\ (n - d) % 256 \in 0 .. 255
           /\ ((n - d) % 256) % 4 = ((n % 4) - d) % 4
<1>1. CASE n - d = -1
  BY <1>1
<1>2. CASE n - d = 256
  BY <1>2
<1>3. CASE n - d \in 0 .. 255
  BY <1>3
<1> QED
  BY <1>1, <1>2, <1>3

\* The decoder reads back a step of at most one phase.
LEMMA DecodedStep ==
    ASSUME NEW p \in 0 .. 3, NEW d \in -1 .. 1
    PROVE  /\ (p - d) % 4 \in 0 .. 3
           /\ Decoded(p, (p - d) % 4) = d
<1>1. p = 0 \/ p = 1 \/ p = 2 \/ p = 3
  OBVIOUS
<1>2. d = -1 \/ d = 0 \/ d = 1
  OBVIOUS
<1> QED
  BY <1>1, <1>2 DEF Decoded

\* A detour over any phase q is off by at most two counts.
LEMMA DecodedDetour ==
    ASSUME NEW p \in 0 .. 3, NEW q \in 0 .. 3, NEW r \in 0 .. 3
    PROVE  /\ Decoded(p, q) \in -1 .. 1
           /\ Decoded(p, p) = 0
           /\ Decoded(p, q) + Decoded(q, r) - Decoded(p, r) \in -2 .. 2
<1>1. p = 0 \/ p = 1 \/ p = 2 \/ p = 3
  OBVIOUS
<1>2. q = 0 \/ q = 1 \/ q = 2 \/ q = 3
  OBVIOUS
<1>3. r = 0 \/ r = 1 \/ r = 2 \/ r = 3
  OBVIOUS
<1> QED
  BY <1>1, <1>2, <1>3 DEF Decoded
-----------------------------------------------------------------------------
(***************************************************************************)
(* The inductive invariant.  Off adds to the distance what the computer    *)
(* counted when its port's lines last left the mouse's state.  It is off   *)
(* by at most two per disturbance of that port, and as long as the port    *)
(* still shows the lines of others by two less: the last disturbance only  *)
(* costs when the mouse writes again from another phase.                   *)
(***************************************************************************)
Off(a) == Distance(a) + Decoded(ShownPhase(state, a), ShownPhase(pins, a))

Showing(a) == pins[Target[a]] = state[Target[a]]

Bound(a) == IF Showing(a) THEN 2 * disturbed[Target[a]] ELSE 2 * (disturbed[Target[a]] - 1)

Phases == \A a \in Axis : ShownPhase(state, a) = out_state[a] % 4

Cached == last_state = state

Bounded == \A a \in Axis : Off(a) \in -Bound(a) .. Bound(a)

DataOK == /\ accumulator \in [Axis -> Int]
          /\ out_state \in [Axis -> 0 .. 255]
          /\ state \in [Port -> SUBSET Line]
          /\ last_state \in [Port -> SUBSET Line]
          /\ pins \in [Port -> SUBSET Line]
          /\ disturbed \in [Port -> 0 .. MaxDisturbances]
          /\ moved \in [Axis -> Int]
          /\ seen \in [Axis -> Int]

IInv == DataOK /\ Phases /\ Cached /\ Bounded

\* The numbers the invariant is about.
LEMMA Numbers ==
    ASSUME DataOK, NEW a \in Axis
    PROVE  /\ Target[a] \in Port
           /\ disturbed[Target[a]] \in Nat
           /\ Distance(a) \in Int
           /\ Bound(a) \in Int
BY QuadratureAssumption DEF DataOK, Distance, Bound

\* It holds initially.
LEMMA InitIInv == Init => IInv
<1> SUFFICES ASSUME Init PROVE IInv
  OBVIOUS
<1>1. DataOK
  BY QuadratureAssumption DEF Init, DataOK
<1>2. ASSUME NEW a \in Axis
      PROVE  /\ ShownPhase(state, a) = 0 /\ ShownPhase(pins, a) = 0
             /\ out_state[a] = 0 /\ Showing(a)
             /\ Distance(a) = 0 /\ disturbed[Target[a]] = 0
  <2>1. Target[a] \in Port
    BY QuadratureAssumption
  <2> QED
    BY <2>1 DEF Init, ShownPhase, PhaseOf, Showing, Distance
<1>3. Phases
  <2>1. 0 % 4 = 0
    OBVIOUS
  <2> QED
    BY <1>2, <2>1 DEF Phases
<1>4. Bounded
  <2> SUFFICES ASSUME NEW a \in Axis PROVE Off(a) \in -Bound(a) .. Bound(a)
    BY DEF Bounded
  <2>1. Decoded(0, 0) = 0
    BY DEF Decoded
  <2> QED
    BY <1>2, <2>1 DEF Off, Bound
<1> QED
  BY <1>1, <1>3, <1>4 DEF Init, IInv, Cached

\* The invariant bounds the distance in every state.
LEMMA IInvImplies == IInv => MovementKept
<1> SUFFICES ASSUME IInv, NEW a \in Axis
             PROVE  Distance(a) \in -2 * disturbed[Target[a]] .. 2 * disturbed[Target[a]]
  BY DEF MovementKept
<1>1. PICK p \in 0 .. 3, q \in 0 .. 3 : p = ShownPhase(state, a) /\ q = ShownPhase(pins, a)
  BY PhaseRange
<1>2. Decoded(p, q) \in -1 .. 1 /\ Decoded(p, p) = 0
  BY DecodedDetour
<1>3. /\ disturbed[Target[a]] \in Nat /\ Distance(a) \in Int
      /\ Distance(a) + Decoded(p, q) \in -Bound(a) .. Bound(a)
  BY <1>1, Numbers DEF IInv, Bounded, Off
<1>4. CASE Showing(a)
  <2>1. p = q
    BY <1>1, <1>4 DEF Showing, ShownPhase
  <2> QED
    BY <1>2, <1>3, <1>4, <2>1 DEF Bound
<1>5. CASE ~Showing(a)
  BY <1>2, <1>3, <1>5 DEF Bound
<1> QED
  BY <1>4, <1>5

\* What a change of the lines does to an axis: q was shown, r is.
LEMMA ShowOff ==
    ASSUME IInv, DataOK', NEW new, Show(new), NEW a \in Axis,
           NEW p \in 0 .. 3, NEW q \in 0 .. 3, NEW r \in 0 .. 3, NEW d \in Int,
           p = ShownPhase(state, a), q = ShownPhase(pins, a), r = ShownPhase(new, a),
           moved'[a] - accumulator'[a] = moved[a] - accumulator[a] + d
    PROVE  /\ Distance(a)' = Distance(a) + d - Decoded(q, r)
           /\ seen'[a] = seen[a] + Decoded(q, r)
           /\ Distance(a) + Decoded(p, q) \in -Bound(a) .. Bound(a)
           /\ Showing(a) => q = p
           /\ Distance(a) \in Int /\ Bound(a) \in Int
           /\ Decoded(p, q) \in Int /\ Decoded(q, r) \in Int /\ Decoded(p, r) \in Int
<1>1. Decoded(p, q) \in Int /\ Decoded(q, r) \in Int /\ Decoded(p, r) \in Int
  BY DEF Decoded
<1>2. seen'[a] = seen[a] + Decoded(q, r)
  BY DEF Show
<1>3. Distance(a)' = Distance(a) + d - Decoded(q, r)
  BY <1>1, <1>2 DEF IInv, DataOK, Distance
<1>4. Distance(a) \in Int /\ Bound(a) \in Int
  BY Numbers DEF IInv
<1>5. Distance(a) + Decoded(p, q) \in -Bound(a) .. Bound(a)
  BY DEF IInv, Bounded, Off
<1>6. Showing(a) => q = p
  BY DEF Showing, ShownPhase
<1> QED
  BY <1>1, <1>2, <1>3, <1>4, <1>5, <1>6

\* The guarded writes show the step that was made: d[a] phases back on axis a.  A port
\* whose state did not change is left as it is, whoever wrote it last.
LEMMA WriteShows ==
    ASSUME IInv, DataOK', NEW ports \in SUBSET Port, WriteIfChanged(ports),
           UNCHANGED disturbed,
           \A p \in Port \ ports : state'[p] = state[p],
           NEW d \in [Axis -> -1 .. 1],
           \A a \in Axis : /\ ShownPhase(state', a) = (ShownPhase(state, a) - d[a]) % 4
                           /\ moved'[a] - accumulator'[a] = moved[a] - accumulator[a] + d[a]
    PROVE  /\ Cached' /\ Bounded'
           /\ \A a \in Axis : Showing(a) => seen'[a] = seen[a] + d[a]
<1> DEFINE new == [p \in Port |-> IF p \in ports /\ state[p] # state'[p]
                                    THEN state'[p] ELSE pins[p]]
<1>1. Cached'
  <2>1. \A p \in Port : last_state'[p] = state'[p]
    BY DEF WriteIfChanged, Write, Differing, IInv, Cached
  <2> QED
    BY <2>1 DEF Cached, DataOK
<1>2. Show(new)
  <2>1. last_state = state
    BY DEF IInv, Cached
  <2>2. new = [p \in Port |-> IF p \in {x \in ports : last_state[x] # state'[x]}
                                THEN state'[p] ELSE pins[p]]
    BY <2>1
  <2> QED
    BY <2>2 DEF WriteIfChanged, Write, Differing
<1>3. \A p \in Port : new[p] = IF state[p] # state'[p] THEN state'[p] ELSE pins[p]
  OBVIOUS
<1> HIDE DEF new
<1> SUFFICES ASSUME NEW a \in Axis
             PROVE  /\ Off(a)' \in -Bound(a)' .. Bound(a)'
                    /\ Showing(a) => seen'[a] = seen[a] + d[a]
  BY <1>1 DEF Bounded
<1>4. PICK p \in 0 .. 3, q \in 0 .. 3, r \in 0 .. 3, e \in -1 .. 1 :
        /\ p = ShownPhase(state, a) /\ q = ShownPhase(pins, a) /\ r = ShownPhase(new, a)
        /\ e = d[a]
  BY PhaseRange
<1>5. /\ Distance(a)' = Distance(a) + e - Decoded(q, r)
      /\ seen'[a] = seen[a] + Decoded(q, r)
      /\ Distance(a) + Decoded(p, q) \in -Bound(a) .. Bound(a)
      /\ Showing(a) => q = p
      /\ Distance(a) \in Int /\ Bound(a) \in Int
      /\ Decoded(p, q) \in Int /\ Decoded(q, r) \in Int /\ Decoded(p, r) \in Int
  BY <1>2, <1>4, ShowOff
<1>6. ShownPhase(state', a) = (p - e) % 4 /\ Decoded(p, (p - e) % 4) = e
  BY <1>4, DecodedStep
<1>7. /\ Target[a] \in Port /\ disturbed[Target[a]] \in Nat
      /\ disturbed'[Target[a]] = disturbed[Target[a]]
      /\ pins' = new
  BY <1>2, Numbers DEF IInv, Show
<1>8. CASE state'[Target[a]] = state[Target[a]]
  <2>1. pins'[Target[a]] = pins[Target[a]]
    BY <1>3, <1>7, <1>8
  <2>2. q = r /\ ShownPhase(state', a) = p /\ ShownPhase(pins', a) = q
    BY <1>4, <1>7, <1>8, <2>1 DEF ShownPhase
  <2>3. Decoded(q, r) = 0 /\ Decoded(p, p) = 0
    BY <2>2, DecodedDetour
  <2>4. e = 0
    BY <1>6, <2>2, <2>3
  <2>5. Distance(a)' = Distance(a) /\ Bound(a)' = Bound(a)
    BY <1>5, <1>7, <1>8, <2>1, <2>3, <2>4 DEF Bound, Showing
  <2>6. Off(a)' = Distance(a) + Decoded(p, q)
    BY <2>2, <2>5 DEF Off
  <2> QED
    BY <1>4, <1>5, <2>3, <2>4, <2>5, <2>6
<1>9. CASE state'[Target[a]] # state[Target[a]]
  <2>1. pins'[Target[a]] = state'[Target[a]]
    BY <1>3, <1>7, <1>9
  <2>2. r = (p - e) % 4 /\ ShownPhase(state', a) = r /\ ShownPhase(pins', a) = r
    BY <1>4, <1>6, <1>7, <2>1 DEF ShownPhase
  <2>3. Decoded(p, r) = e /\ Decoded(r, r) = 0
        /\ Decoded(p, q) + Decoded(q, r) - Decoded(p, r) \in -2 .. 2
    BY <1>6, <2>2, DecodedDetour
  <2>4. Off(a)' = Distance(a) + e - Decoded(q, r)
    BY <1>5, <2>2, <2>3 DEF Off
  <2>5. Bound(a)' = 2 * disturbed[Target[a]]
    BY <1>7, <2>1 DEF Bound, Showing
  <2>6. CASE Showing(a)
    <3>1. q = p /\ Decoded(q, r) = e /\ Decoded(p, q) = 0
      BY <1>5, <2>3, <2>6, DecodedDetour
    <3>2. Bound(a) = 2 * disturbed[Target[a]]
      BY <2>6 DEF Bound
    <3> QED
      BY <1>4, <1>5, <1>7, <2>4, <2>5, <3>1, <3>2
  <2>7. CASE ~Showing(a)
    <3>1. Bound(a) = 2 * (disturbed[Target[a]] - 1)
      BY <2>7 DEF Bound
    <3> QED
      BY <1>5, <1>7, <2>3, <2>4, <2>5, <2>7, <3>1
  <2> QED
    BY <2>6, <2>7
<1> QED
  BY <1>8, <1>9

\* A report only adds to what is still to be put out.
LEMMA ReportStep ==
    ASSUME IInv, DataOK', NEW d \in [Axis -> Movement], NEW buttons \in SUBSET Button,
           MouseReport(d, buttons)
    PROVE  /\ IInv'
           /\ (\A a \in Axis : Showing(a)) => UNCHANGED seen
<1> DEFINE still == [a \in Axis |-> 0]
<1>1. ASSUME NEW p \in Port
      PROVE  state'[p] = IF p = "mouse" THEN (state[p] \cap Signal) \cup buttons ELSE state[p]
  BY DEF MouseReport, IInv, DataOK
<1>2. ASSUME NEW a \in Axis PROVE ShownPhase(state', a) = ShownPhase(state, a)
  <2>1. Target[a] \in Port
    BY QuadratureAssumption
  <2>2. PhaseOf((state[Target[a]] \cap Signal) \cup buttons, a) = PhaseOf(state[Target[a]], a)
    BY PhaseOfSignals
  <2>3. state'[Target[a]] = (state[Target[a]] \cap Signal) \cup buttons
        \/ state'[Target[a]] = state[Target[a]]
    BY <1>1, <2>1
  <2> QED
    BY <2>2, <2>3 DEF ShownPhase
<1>3. ASSUME NEW a \in Axis
      PROVE  /\ ShownPhase(state', a) = (ShownPhase(state, a) - still[a]) % 4
             /\ moved'[a] - accumulator'[a] = moved[a] - accumulator[a] + still[a]
  <2>1. PICK p \in 0 .. 3 : p = ShownPhase(state, a)
    BY PhaseRange
  <2>2. moved[a] \in Int /\ accumulator[a] \in Int /\ d[a] \in Int
    BY QuadratureAssumption DEF IInv, DataOK
  <2>3. p = (p - 0) % 4
    OBVIOUS
  <2>4. moved'[a] = moved[a] + d[a] /\ accumulator'[a] = accumulator[a] + d[a]
    BY DEF MouseReport
  <2>5. still[a] = 0
    OBVIOUS
  <2> HIDE DEF still
  <2>6. ShownPhase(state', a) = (ShownPhase(state, a) - still[a]) % 4
    BY <1>2, <2>1, <2>3, <2>5
  <2>7. moved'[a] - accumulator'[a] = moved[a] - accumulator[a] + still[a]
    BY <2>2, <2>4, <2>5
  <2> QED
    BY <2>6, <2>7
<1>4. WriteIfChanged({"mouse"}) /\ UNCHANGED disturbed /\ {"mouse"} \in SUBSET Port
  BY DEF MouseReport, Port
<1>5. \A p \in Port \ {"mouse"} : state'[p] = state[p]
  BY <1>1
<1>6. still \in [Axis -> -1 .. 1]
  OBVIOUS
<1> HIDE DEF still
<1>7. /\ Cached' /\ Bounded'
      /\ \A a \in Axis : Showing(a) => seen'[a] = seen[a] + still[a]
  BY <1>3, <1>4, <1>5, <1>6, WriteShows
<1>8. Phases'
  BY <1>2 DEF IInv, Phases, MouseReport
<1>9. (\A a \in Axis : Showing(a)) => UNCHANGED seen
  <2>1. \A a \in Axis : Showing(a) => seen'[a] = seen[a]
    BY <1>7 DEF still, IInv, DataOK
  <2> QED
    BY <2>1 DEF IInv, DataOK
<1> QED
  BY <1>7, <1>8, <1>9 DEF IInv

\* An update puts out what it takes from the accumulators.
LEMMA RunStep ==
    ASSUME IInv, DataOK', Run
    PROVE  /\ IInv'
           /\ (\A a \in Axis : Showing(a)) =>
                \/ UNCHANGED seen
                \/ \A a \in Axis : seen'[a] = seen[a] + Step(a)
<1>1. CASE ~PeriodOver
  <2>1. UNCHANGED <<accumulator, out_state, state, last_state, pins, seen, disturbed, moved>>
    BY <1>1 DEF Run, encoder
  <2> QED
    BY <2>1 DEF IInv, Phases, Cached, Bounded, Off, Bound, Showing, Distance
<1>2. CASE PeriodOver
  <2> DEFINE step == [a \in Axis |-> Step(a)]
  <2>1. /\ Update /\ WriteIfChanged(Port) /\ UNCHANGED <<disturbed, moved>>
        /\ state' = [p \in Port |-> (state[p] \cap Button) \cup SignalsOf(out_state', p)]
    BY <1>2 DEF Run
  <2>2. Phases'
    <3> SUFFICES ASSUME NEW a \in Axis PROVE ShownPhase(state', a) = out_state'[a] % 4
      BY DEF Phases
    <3>1. Target[a] \in Port
      BY QuadratureAssumption
    <3> QED
      BY <2>1, <3>1, PhaseShown DEF ShownPhase, DataOK
  <2>3. step \in [Axis -> -1 .. 1]
    BY DEF Step
  <2>4. ASSUME NEW a \in Axis
        PROVE  /\ ShownPhase(state', a) = (ShownPhase(state, a) - step[a]) % 4
               /\ moved'[a] - accumulator'[a] = moved[a] - accumulator[a] + step[a]
    <3>1. PICK n \in 0 .. 255 : n = out_state[a]
      BY DEF IInv, DataOK
    <3>2. PICK e \in -1 .. 1 : e = Step(a) /\ e = step[a]
      BY DEF Step
    <3>3. out_state'[a] = (n - e) % 256 /\ accumulator'[a] = accumulator[a] - e
      BY <2>1, <3>1, <3>2 DEF Update
    <3>4. ShownPhase(state', a) = ((n % 4) - e) % 4
      BY <2>2, <3>3, PhaseStep DEF Phases
    <3>5. ShownPhase(state, a) = n % 4
      BY <3>1 DEF IInv, Phases
    <3>6. moved[a] \in Int /\ accumulator[a] \in Int
      BY DEF IInv, DataOK
    <3>7. moved'[a] - accumulator'[a] = moved[a] - accumulator[a] + e
      BY <2>1, <3>3, <3>6
    <3> QED
      BY <3>2, <3>4, <3>5, <3>7
  <2> HIDE DEF step
  <2>5. /\ Cached' /\ Bounded'
        /\ \A a \in Axis : Showing(a) => seen'[a] = seen[a] + step[a]
    BY <2>1, <2>3, <2>4, WriteShows
  <2> QED
    BY <2>2, <2>5 DEF IInv, step
<1> QED
  BY <1>1, <1>2

\* A disturbance of a port may cost its axes up to two counts, and is the only step
\* that does.
LEMMA DisturbStep ==
    ASSUME IInv, DataOK', NEW ports \in SUBSET Port, NEW lines, Disturb(ports, lines)
    PROVE  IInv'
<1> DEFINE new == [p \in Port |-> IF p \in ports THEN lines ELSE pins[p]]
<1>1. Phases' /\ Cached'
  BY DEF IInv, Phases, Cached, Disturb, encoder
<1>2. Show(new) /\ UNCHANGED <<state, moved, accumulator>>
      /\ disturbed' = [p \in Port |-> IF p \in ports THEN disturbed[p] + 1 ELSE disturbed[p]]
  BY DEF Disturb, encoder
<1>3. \A p \in Port : new[p] = IF p \in ports THEN lines ELSE pins[p]
  OBVIOUS
<1> HIDE DEF new
<1>4. Bounded'
  <2> SUFFICES ASSUME NEW a \in Axis PROVE Off(a)' \in -Bound(a)' .. Bound(a)'
    BY DEF Bounded
  <2>1. PICK p \in 0 .. 3, q \in 0 .. 3, r \in 0 .. 3 :
          p = ShownPhase(state, a) /\ q = ShownPhase(pins, a) /\ r = ShownPhase(new, a)
    BY PhaseRange
  <2>2. moved'[a] - accumulator'[a] = moved[a] - accumulator[a] + 0
    BY <1>2 DEF IInv, DataOK
  <2>3. /\ Distance(a)' = Distance(a) + 0 - Decoded(q, r)
        /\ Distance(a) + Decoded(p, q) \in -Bound(a) .. Bound(a)
        /\ Showing(a) => q = p
        /\ Distance(a) \in Int /\ Bound(a) \in Int
        /\ Decoded(p, q) \in Int /\ Decoded(q, r) \in Int /\ Decoded(p, r) \in Int
    BY <1>2, <2>1, <2>2, ShowOff
  <2>4. /\ Decoded(p, q) + Decoded(q, r) - Decoded(p, r) \in -2 .. 2
        /\ Decoded(p, p) = 0 /\ Decoded(r, r) = 0
    BY DecodedDetour
  <2>5. /\ Target[a] \in Port /\ disturbed[Target[a]] \in Nat
        /\ pins' = new /\ pins'[Target[a]] = new[Target[a]]
        /\ ShownPhase(pins', a) = r /\ ShownPhase(state', a) = p
    BY <1>2, <2>1, Numbers DEF IInv, Show, ShownPhase
  <2>6. Off(a)' = Distance(a) - Decoded(q, r) + Decoded(p, r)
    BY <2>3, <2>5 DEF Off
  <2>7. CASE Target[a] \notin ports
    <3>1. pins'[Target[a]] = pins[Target[a]] /\ disturbed'[Target[a]] = disturbed[Target[a]]
      BY <1>2, <1>3, <2>5, <2>7
    <3>2. q = r /\ Bound(a)' = Bound(a)
      BY <1>2, <2>1, <2>5, <3>1 DEF ShownPhase, Bound, Showing
    <3>3. Decoded(q, r) = 0
      BY <3>2, <2>4
    <3> QED
      BY <2>3, <2>6, <3>2, <3>3
  <2>8. CASE Target[a] \in ports
    <3>1. disturbed'[Target[a]] = disturbed[Target[a]] + 1
      BY <1>2, <2>5, <2>8
    <3>2. Bound(a)' \in Int /\ Bound(a)' >= 2 * disturbed[Target[a]]
      BY <2>5, <3>1 DEF Bound
    <3>3. CASE Showing(a)
      <4>1. q = p /\ Bound(a) = 2 * disturbed[Target[a]]
        BY <2>3, <3>3 DEF Bound
      <4>2. Off(a)' = Distance(a) /\ Distance(a) \in -Bound(a) .. Bound(a)
        BY <2>3, <2>4, <2>6, <4>1
      <4> QED
        BY <2>5, <3>2, <4>1, <4>2
    <3>4. CASE ~Showing(a)
      <4>1. Bound(a) = 2 * (disturbed[Target[a]] - 1)
        BY <3>4 DEF Bound
      <4> QED
        BY <2>3, <2>4, <2>5, <2>6, <3>2, <4>1
    <3> QED
      BY <3>3, <3>4
  <2> QED
    BY <2>7, <2>8
<1> QED
  BY <1>1, <1>4 DEF IInv
-----------------------------------------------------------------------------
\* The part of the type invariant that the counts rest on is inductive.
LEMMA DataStep ==
    ASSUME IInv, [Next]_vars
    PROVE  DataOK'
<1> USE DEF IInv
<1>0. ASSUME NEW new PROVE \A a \in Axis : Decoded(ShownPhase(pins, a), ShownPhase(new, a)) \in Int
  BY DEF Decoded
<1>1. ASSUME NEW new \in [Port -> SUBSET Line], Show(new)
      PROVE  pins' \in [Port -> SUBSET Line] /\ seen' \in [Axis -> Int]
  BY <1>0, <1>1 DEF Show, DataOK
<1>2. ASSUME state' \in [Port -> SUBSET Line], NEW ports, WriteIfChanged(ports)
      PROVE  /\ last_state' \in [Port -> SUBSET Line]
             /\ pins' \in [Port -> SUBSET Line]
             /\ seen' \in [Axis -> Int]
  <2> DEFINE new == [p \in Port |-> IF p \in Differing(ports) THEN state'[p] ELSE pins[p]]
  <2>1. /\ last_state' = [p \in Port |-> IF p \in Differing(ports) THEN state'[p]
                                                                  ELSE last_state[p]]
        /\ Show(new)
    BY <1>2 DEF WriteIfChanged, Write
  <2>2. new \in [Port -> SUBSET Line] /\ last_state' \in [Port -> SUBSET Line]
    BY <1>2, <2>1 DEF DataOK
  <2> HIDE DEF new
  <2> QED
    BY <1>1, <2>1, <2>2
<1>3. ASSUME NEW d \in [Axis -> Movement], NEW buttons \in SUBSET {"fire1"}, MouseReport(d, buttons)
      PROVE  DataOK'
  <2>1. state' \in [Port -> SUBSET Line]
    BY <1>3 DEF MouseReport, DataOK, Line
  <2>2. \A a \in Axis : d[a] \in Int
    BY QuadratureAssumption
  <2>3. accumulator' \in [Axis -> Int] /\ moved' \in [Axis -> Int]
    BY <1>3, <2>2 DEF MouseReport, DataOK
  <2>4. WriteIfChanged({"mouse"}) /\ UNCHANGED <<out_state, disturbed>>
    BY <1>3 DEF MouseReport
  <2> QED
    BY <1>2, <2>1, <2>3, <2>4 DEF DataOK
<1>4. ASSUME NEW ports \in SUBSET Port, NEW lines \in SUBSET Line, Disturb(ports, lines)
      PROVE  DataOK'
  <2> DEFINE new == [p \in Port |-> IF p \in ports THEN lines ELSE pins[p]]
  <2>1. new \in [Port -> SUBSET Line]
    BY DEF DataOK
  <2>2. Show(new) /\ UNCHANGED <<encoder, state, last_state, moved>>
    BY <1>4 DEF Disturb
  <2> HIDE DEF new
  <2>3. pins' \in [Port -> SUBSET Line] /\ seen' \in [Axis -> Int]
    BY <1>1, <2>1, <2>2
  <2>4. disturbed' \in [Port -> 0 .. MaxDisturbances]
    <3> SUFFICES ASSUME NEW p \in ports PROVE disturbed[p] + 1 \in 0 .. MaxDisturbances
      BY <1>4 DEF Disturb, DataOK
    <3>1. disturbed[p] \in 0 .. MaxDisturbances /\ disturbed[p] < MaxDisturbances
      BY <1>4 DEF Disturb, DataOK
    <3> QED
      BY <3>1, QuadratureAssumption
  <2> QED
    BY <2>2, <2>3, <2>4 DEF encoder, DataOK
<1>5. ASSUME Run PROVE DataOK'
  <2>1. CASE ~PeriodOver
    BY <1>5, <2>1 DEF Run, encoder, DataOK
  <2>2. CASE PeriodOver
    <3>1. /\ Update /\ WriteIfChanged(Port) /\ UNCHANGED <<disturbed, moved>>
          /\ state' = [p \in Port |-> (state[p] \cap Button) \cup SignalsOf(out_state', p)]
      BY <1>5, <2>2 DEF Run
    <3>2. accumulator' \in [Axis -> Int]
      BY <3>1 DEF Update, Step, DataOK
    <3>3. out_state' \in [Axis -> 0 .. 255]
      <4> SUFFICES ASSUME NEW a \in Axis PROVE (out_state[a] - Step(a)) % 256 \in 0 .. 255
        BY <3>1 DEF Update
      <4>1. out_state[a] \in 0 .. 255 /\ Step(a) \in -1 .. 1
        BY DEF DataOK, Step
      <4> QED
        BY <4>1, PhaseStep
    <3>4. \A p : SignalsOf(out_state', p) \in SUBSET Line
      BY DEF SignalsOf, AxesOf, Signal, Line
    <3>5. state' \in [Port -> SUBSET Line]
      BY <3>1, <3>4 DEF Line
    <3> QED
      BY <1>2, <3>1, <3>2, <3>3, <3>5 DEF DataOK
  <2> QED
    BY <2>1, <2>2
<1>6. CASE Tick
  BY <1>6 DEF Tick, encoder, DataOK
<1>7. CASE UNCHANGED vars
  BY <1>7 DEF vars, DataOK
<1>8. CASE EnsureMouseMuxing
  BY <1>4, <1>8 DEF EnsureMouseMuxing
<1>9. ASSUME NEW lines \in Others, OtherWrites(lines) PROVE DataOK'
  BY <1>4, <1>9, QuadratureAssumption DEF OtherWrites, Port
<1> QED
  BY <1>3, <1>5, <1>6, <1>7, <1>8, <1>9 DEF Next

\* Every step preserves the invariant.
LEMMA NextIInv ==
    ASSUME IInv, [Next]_vars
    PROVE  IInv'
<1>0. DataOK'
  BY DataStep
<1>1. ASSUME NEW d \in [Axis -> Movement], NEW buttons \in SUBSET {"fire1"}, MouseReport(d, buttons)
      PROVE  IInv'
  <2>1. buttons \in SUBSET Button
    OBVIOUS
  <2> QED
    BY <1>0, <1>1, <2>1, ReportStep
<1>2. CASE EnsureMouseMuxing
  BY <1>0, <1>2, DisturbStep DEF EnsureMouseMuxing
<1>3. ASSUME NEW lines \in Others, OtherWrites(lines) PROVE IInv'
  <2>1. {"wheel"} \in SUBSET Port
    BY DEF Port
  <2> QED
    BY <1>0, <1>3, <2>1, DisturbStep DEF OtherWrites
<1>4. CASE Run
  BY <1>0, <1>4, RunStep
<1>5. CASE Tick \/ UNCHANGED vars
  <2>1. UNCHANGED <<accumulator, out_state, state, last_state, pins, disturbed, moved, seen>>
    BY <1>5 DEF Tick, encoder, vars
  <2> QED
    BY <1>0, <2>1 DEF IInv, Phases, Cached, Bounded, Off, Bound, Showing, Distance
<1> QED
  BY <1>1, <1>2, <1>3, <1>4, <1>5 DEF Next

\* The invariant holds in every reachable state.
THEOREM Invariance == Spec => []IInv
<1>1. Init => IInv
  BY InitIInv
<1>2. IInv /\ [Next]_vars => IInv'
  BY NextIInv
<1> QED
  BY <1>1, <1>2, PTL DEF Spec

\* For any encoders, reports and timing, and whatever lines others put on the wheel's
\* port, the computer's counts differ from what the mouse moved and is still to be put
\* out by at most two per change of that axis' port behind the mouse's back
\* (QuadratureEncoder, "No movement is lost").
THEOREM MovementKeptAlways == Spec => []MovementKept
BY Invariance, IInvImplies, PTL
-----------------------------------------------------------------------------
(***************************************************************************)
(* Before any disturbance the counters follow the mouse one count at a time. *)
(***************************************************************************)

\* What an update of one axis does to the counter.
LEMMA StepTowards ==
    ASSUME NEW a \in Axis, DataOK, Distance(a) = 0
    PROVE  /\ Step(a) \in -1 .. 1
           /\ Travel!Towards(seen[a], seen[a] + Step(a), moved[a])
BY DEF DataOK, Distance, Step, Travel!Towards

\* Until lines are changed behind its back every step of the mouse is one of
\* MouseTravel, or changes nothing of it.
LEMMA TravelStep ==
    ASSUME \A p \in Port : disturbed'[p] = 0, IInv, IInv', [Next]_vars
    PROVE  [Travel!Move \/ Travel!Follow]_<<moved, seen>>
<1>0. /\ ~EnsureMouseMuxing
      /\ ~\E lines \in Others : OtherWrites(lines)
  <2>1. ASSUME NEW ports, NEW lines, Disturb(ports, lines), "wheel" \in ports PROVE FALSE
    <3>1. "wheel" \in Port /\ disturbed["wheel"] \in Nat /\ disturbed'["wheel"] = 0
      BY DEF Port, IInv, DataOK
    <3>2. disturbed'["wheel"] = disturbed["wheel"] + 1
      BY <2>1, <3>1 DEF Disturb
    <3> QED
      BY <3>1, <3>2
  <2> QED
    BY <2>1 DEF EnsureMouseMuxing, OtherWrites, Port
<1>1. UNCHANGED disturbed
  BY <1>0 DEF Next, MouseReport, Run, Tick, vars
<1>2. \A a \in Axis : Distance(a) = 0 /\ Showing(a)
  <2> SUFFICES ASSUME NEW a \in Axis PROVE Distance(a) = 0 /\ Showing(a)
    OBVIOUS
  <2>1. Target[a] \in Port /\ disturbed[Target[a]] = 0
    BY <1>1, QuadratureAssumption
  <2>2. Distance(a) \in -2 * 0 .. 2 * 0
    BY <2>1, IInvImplies DEF MovementKept
  <2>3. Showing(a)
    <3> SUFFICES ASSUME ~Showing(a) PROVE FALSE
      OBVIOUS
    <3>1. Bound(a) = -2
      BY <2>1 DEF Bound
    <3>2. Off(a) \in -Bound(a) .. Bound(a)
      BY DEF IInv, Bounded
    <3>3. \A b \in Int : (\E n : n \in -b .. b) => b >= 0
      OBVIOUS
    <3>4. Bound(a) >= 0
      BY <3>2, <3>3, Numbers DEF IInv
    <3> QED
      BY <3>1, <3>4
  <2> QED
    BY <2>2, <2>3
<1>3. ASSUME NEW d \in [Axis -> Movement], NEW buttons \in SUBSET {"fire1"}, MouseReport(d, buttons)
      PROVE  Travel!Move
  <2>1. buttons \in SUBSET Button /\ DataOK'
    BY DEF IInv
  <2>2. UNCHANGED seen
    BY <1>2, <1>3, <2>1, ReportStep
  <2> QED
    BY <2>1, <2>2 DEF Travel!Move, DataOK
<1>5. ASSUME Run PROVE UNCHANGED <<moved, seen>> \/ Travel!Follow
  <2>1. UNCHANGED moved /\ DataOK'
    BY <1>5 DEF Run, IInv
  <2>2. UNCHANGED seen \/ \A a \in Axis : seen'[a] = seen[a] + Step(a)
    BY <1>2, <1>5, <2>1, RunStep
  <2>3. ASSUME \A a \in Axis : seen'[a] = seen[a] + Step(a)
        PROVE  Travel!Follow
    <3> SUFFICES ASSUME NEW a \in Axis
                 PROVE  /\ Travel!Towards(seen[a], seen'[a], moved[a])
                        /\ seen'[a] - seen[a] \in -1 .. 1
      BY <2>1 DEF Travel!Follow, DataOK
    <3>1. Step(a) \in -1 .. 1 /\ Travel!Towards(seen[a], seen[a] + Step(a), moved[a])
      BY <1>2, StepTowards DEF IInv
    <3> QED
      BY <2>3, <3>1 DEF IInv, DataOK
  <2> QED
    BY <2>1, <2>2, <2>3
<1>6. CASE Tick \/ UNCHANGED vars
  BY <1>6 DEF Tick, vars
<1> QED
  BY <1>0, <1>3, <1>5, <1>6 DEF Next

\* For any encoders, reports and timing, a quadrature mouse, as long as nobody
\* else changes its lines, makes the computer's counters follow the USB mouse (QuadratureEncoder::update,
\* process_mouse_report, AmigaMouse::run and AtariStMouse::run).
THEOREM TravelImplemented == Spec => ImplementsTravel
<1>1. Init => Travel!Init
  BY DEF Init, Travel!Init
<1>2. IInv /\ IInv' /\ [Next]_vars
        => [(\A p \in Port : disturbed'[p] = 0) => Travel!Move \/ Travel!Follow]_<<moved, seen>>
  BY TravelStep
<1> QED
  BY <1>1, <1>2, Invariance, PTL DEF Spec, ImplementsTravel
-----------------------------------------------------------------------------
(***************************************************************************)
(* Time.  The history variable since is how long ago the last update was,  *)
(* run only knows a difference of readings of a wrapping timer.            *)
(***************************************************************************)
ClockOK == /\ last_update \in 0 .. ClockMod - 1
           /\ now \in 0 .. ClockMod - 1
           /\ due \in BOOLEAN
           /\ reports \in 0 .. MaxReports
           /\ since \in 0 .. kUpdatePeriod + 1

\* run never takes the last update for longer ago than it was.
Measured == since <= kUpdatePeriod => Elapsed <= since

\* The timer wraps around, and the difference to a reading is one more.
LEMMA DifferenceTicks ==
    ASSUME NEW M \in Nat, NEW s \in 0 .. M - 1, NEW t \in 0 .. M - 1,
           NEW k \in Nat, k + 1 < M, (t - s) % M <= k
    PROVE  (((t + 1) % M) - s) % M <= k + 1
<1>1. (t - s) % M = IF s <= t THEN t - s ELSE t - s + M
  OBVIOUS
<1>2. CASE t + 1 < M
  <2>1. (t + 1) % M = t + 1
    BY <1>2
  <2>2. CASE s <= t + 1
    <3>1. (t + 1 - s) % M = t + 1 - s
      BY <1>2, <2>2
    <3> QED BY <1>1, <2>1, <2>2, <3>1
  <2>3. CASE s > t + 1
    <3>1. (t + 1 - s) % M = t + 1 - s + M
      BY <1>2, <2>3
    <3> QED BY <1>1, <2>1, <2>3, <3>1
  <2> QED BY <2>2, <2>3
<1>3. CASE t + 1 = M
  <2>1. (t + 1) % M = 0
    BY <1>3
  <2>2. CASE s = 0
    BY <1>1, <1>3, <2>2
  <2>3. CASE s > 0
    <3>1. (0 - s) % M = M - s
      BY <2>3
    <3> QED BY <1>1, <1>3, <2>1, <2>3, <3>1
  <2> QED BY <2>2, <2>3
<1> QED BY <1>2, <1>3

\* It holds initially: since is over the period.
LEMMA InitClock == ASSUME Init PROVE ClockOK /\ Measured
<1>1. since = kUpdatePeriod + 1 /\ last_update = 0 /\ now \in 0 .. ClockMod - 1
      /\ reports = 0
  BY DEF Init
<1>2. due \in BOOLEAN
  BY DEF Init
<1>3. Measured
  BY <1>1, QuadratureAssumption DEF Measured
<1> QED BY <1>1, <1>2, <1>3, QuadratureAssumption DEF ClockOK

\* A tick: both times grow by one.
LEMMA TickClock == ASSUME ClockOK, Measured, Tick PROVE ClockOK' /\ Measured'
<1> USE QuadratureAssumption
<1>1. /\ now' = (now + 1) % ClockMod /\ last_update' = last_update /\ reports' = reports
      /\ since' = IF since > kUpdatePeriod THEN since ELSE since + 1
  BY DEF Tick
<1>2. due' \in BOOLEAN
  BY DEF Tick
<1>3. (now + 1) % ClockMod \in 0 .. ClockMod - 1
  BY DEF ClockOK
<1>4. Measured'
  <2> SUFFICES ASSUME since' <= kUpdatePeriod PROVE Elapsed' <= since'
    BY DEF Measured
  <2>1. since' = since + 1 /\ since < kUpdatePeriod /\ since \in Nat
    BY <1>1 DEF ClockOK
  <2>2. (now - last_update) % ClockMod <= since
    BY <2>1 DEF Measured, Elapsed, ClockOK
  <2>3. (((now + 1) % ClockMod) - last_update) % ClockMod <= since + 1
    BY <2>1, <2>2, DifferenceTicks DEF ClockOK
  <2> QED BY <1>1, <2>1, <2>3 DEF Elapsed
<1> QED BY <1>1, <1>2, <1>3, <1>4 DEF ClockOK

\* run sets both times back, or leaves them alone.
LEMMA RunClock == ASSUME ClockOK, Measured, Run PROVE ClockOK' /\ Measured'
<1> USE QuadratureAssumption
<1>1. due' \in BOOLEAN /\ now' = now /\ reports' = reports
  BY DEF Run
<1>2. CASE PeriodOver
  <2>1. last_update' = now /\ since' = 0
    BY <1>2 DEF Run
  <2>2. now - now = 0 /\ 0 % ClockMod = 0
    BY DEF ClockOK
  <2> QED BY <1>1, <2>1, <2>2 DEF ClockOK, Measured, Elapsed
<1>3. CASE ~PeriodOver
  <2>1. last_update' = last_update /\ since' = since
    BY <1>3 DEF Run
  <2> QED BY <1>1, <2>1 DEF ClockOK, Measured, Elapsed
<1> QED BY <1>2, <1>3

\* So every step keeps them.
LEMMA NextClock == ASSUME ClockOK, Measured, [Next]_vars PROVE ClockOK' /\ Measured'
<1>1. ASSUME NEW d \in [Axis -> Movement], NEW buttons \in SUBSET {"fire1"},
             MouseReport(d, buttons)
      PROVE  ClockOK' /\ Measured'
  <2>1. UNCHANGED clock /\ reports' = reports + 1 /\ reports < MaxReports
    BY <1>1 DEF MouseReport
  <2> QED BY <2>1, QuadratureAssumption DEF clock, ClockOK, Measured, Elapsed
<1>2. CASE \/ EnsureMouseMuxing
           \/ \E lines \in Others : OtherWrites(lines)
           \/ UNCHANGED vars
  <2>1. UNCHANGED <<clock, reports>>
    BY <1>2 DEF EnsureMouseMuxing, OtherWrites, Disturb, vars, clock
  <2> QED BY <2>1 DEF clock, ClockOK, Measured, Elapsed
<1>3. CASE Run
  BY <1>3, RunClock
<1>4. CASE Tick
  BY <1>4, TickClock
<1> QED BY <1>1, <1>2, <1>3, <1>4 DEF Next

\* TypeCorrect: the types of all variables, for any bounds.
THEOREM TypeCorrect == Spec => []TypeOK
<1>1. Init => ClockOK /\ Measured
  BY InitClock
<1>2. ClockOK /\ Measured /\ [Next]_vars => (ClockOK /\ Measured)'
  BY NextClock
<1>3. IInv /\ ClockOK => TypeOK
  BY DEF IInv, DataOK, ClockOK, TypeOK
<1> QED BY <1>1, <1>2, <1>3, Invariance, PTL DEF Spec

\* Only an update moves the phases, and where run finds the period over it is.
LEMMA PhaseSpaced ==
    ASSUME ClockOK, Measured, [Next]_vars, out_state' # out_state
    PROVE  since >= kUpdatePeriod
<1>1. ~\E d \in [Axis -> Movement], buttons \in SUBSET {"fire1"} : MouseReport(d, buttons)
  BY DEF MouseReport, clock
<1>2. /\ ~EnsureMouseMuxing /\ ~\E lines \in Others : OtherWrites(lines)
      /\ ~Tick /\ vars' # vars
  BY DEF EnsureMouseMuxing, OtherWrites, Disturb, Tick, encoder, vars
<1>3. Run /\ PeriodOver
  BY <1>1, <1>2 DEF Next, Run, encoder
<1>4. Elapsed >= kUpdatePeriod
  BY <1>3, QuadratureAssumption DEF PeriodOver, Elapsed, ClockOK
<1>5. Elapsed \in Int /\ since \in Nat
  BY QuadratureAssumption DEF Elapsed, ClockOK
<1> QED BY <1>4, <1>5, QuadratureAssumption DEF Measured

\* SpacedAlways: for every period and however the timer wraps, the signals step at least
\* an update period apart ("Period of 359 us is too fast.", AmigaMouse::kUpdatePeriod).
THEOREM SpacedAlways == Spec => Spaced
<1>1. Init => ClockOK /\ Measured
  BY InitClock
<1>2. ClockOK /\ Measured /\ [Next]_vars => (ClockOK /\ Measured)'
  BY NextClock
<1>3. ClockOK /\ Measured /\ [Next]_vars
        => [out_state' # out_state => since >= kUpdatePeriod]_vars
  BY PhaseSpaced
<1> QED BY <1>1, <1>2, <1>3, PTL DEF Spec, Spaced
=============================================================================
