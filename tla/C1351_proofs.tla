---------------------------- MODULE C1351_proofs ----------------------------
(***************************************************************************)
(* The computer takes no movement of the Commodore 1351 for its opposite,  *)
(* wheel pulses are whole, the combination starts the calibration and the  *)
(* table in use is the one stored, for all movements, ranges, clocks,      *)
(* timeouts and numbers of mice.                                           *)
(***************************************************************************)
EXTENDS C1351Mouse, C1351Calibration, TLAPS

(***************************************************************************)
(* The steps that a computer can miss between two readings stay below half *)
(* of the range: three in two cycles, and two more for the place in the    *)
(* sequence of the kMaxChange at which it reads.                           *)
(***************************************************************************)
FastEnough == 3 * MaxCycles + 4 < PotRange

-----------------------------------------------------------------------------
(* Numbers that a pot line does not tell apart                             *)

Cong(x, y) == \E k \in Int : x = y + k * PotRange

\* What the provers need to know of the constants.
LEMMA RangeFacts ==
    PotRange \in Nat /\ PotRange > 1 /\ 2 * (PotRange \div 2) = PotRange /\ PotRange \div 2 \in Nat
  BY C1351Assumption

\* They are those with the same difference to a multiple of the range.
LEMMA CongAdd ==
    ASSUME NEW x \in Int, NEW y \in Int, NEW u \in Int, NEW v \in Int, Cong(x, y), Cong(u, v)
    PROVE  Cong(x + u, y + v) /\ Cong(x - u, y - v)
<1>1. PICK k \in Int : x = y + k * PotRange
  BY DEF Cong
<1>2. PICK n \in Int : u = v + n * PotRange
  BY DEF Cong
<1>3. (x + u) = (y + v) + (k + n) * PotRange /\ (x - u) = (y - v) + (k - n) * PotRange
  BY <1>1, <1>2, RangeFacts
<1>4. k + n \in Int /\ k - n \in Int
  OBVIOUS
<1> QED BY <1>3, <1>4 DEF Cong

\* An equivalence.
LEMMA CongEquivalence ==
    /\ \A x \in Int : Cong(x, x)
    /\ \A x, y \in Int : Cong(x, y) => Cong(y, x)
    /\ \A x, y, z \in Int : Cong(x, y) /\ Cong(y, z) => Cong(x, z)
<1>1. ASSUME NEW x \in Int PROVE Cong(x, x)
  <2>1. x = x + 0 * PotRange
    BY RangeFacts
  <2> QED BY <2>1 DEF Cong
<1>2. ASSUME NEW x \in Int, NEW y \in Int, Cong(x, y) PROVE Cong(y, x)
  <2>1. PICK k \in Int : x = y + k * PotRange
    BY <1>2 DEF Cong
  <2>2. y = x + (-k) * PotRange /\ -k \in Int
    BY <2>1, RangeFacts
  <2> QED BY <2>2 DEF Cong
<1>3. ASSUME NEW x \in Int, NEW y \in Int, NEW z \in Int, Cong(x, y), Cong(y, z) PROVE Cong(x, z)
  <2>1. PICK k \in Int : x = y + k * PotRange
    BY <1>3 DEF Cong
  <2>2. PICK n \in Int : y = z + n * PotRange
    BY <1>3 DEF Cong
  <2>3. x = z + (k + n) * PotRange /\ k + n \in Int
    BY <2>1, <2>2, RangeFacts
  <2> QED BY <2>3 DEF Cong
<1> QED BY <1>1, <1>2, <1>3

\* Two of them less than the range apart are the same.
LEMMA CongUnique ==
    ASSUME NEW x \in Int, NEW y \in Int, Cong(x, y), x - y < PotRange, y - x < PotRange
    PROVE  x = y
<1>1. PICK k \in Int : x = y + k * PotRange
  BY DEF Cong
<1>2. CASE k >= 1
  <2>1. k * PotRange >= PotRange
    BY <1>2, RangeFacts
  <2> QED BY <1>1, <2>1, RangeFacts
<1>3. CASE k <= -1
  <2>1. (-k) * PotRange >= PotRange
    BY <1>3, RangeFacts
  <2>2. (-k) * PotRange = -(k * PotRange)
    BY RangeFacts
  <2> QED BY <1>1, <2>1, <2>2, RangeFacts
<1>4. CASE k = 0
  BY <1>1, <1>4, RangeFacts
<1> QED BY <1>2, <1>3, <1>4

\* A remainder.
LEMMA CongMod ==
    ASSUME NEW n \in Int
    PROVE  n % PotRange \in 0 .. PotRange - 1 /\ Cong(n % PotRange, n)
<1>1. /\ n % PotRange \in 0 .. PotRange - 1 /\ n \div PotRange \in Int
      /\ n = PotRange * (n \div PotRange) + (n % PotRange)
  BY RangeFacts
<1>2. (n % PotRange) = n + (-(n \div PotRange)) * PotRange /\ -(n \div PotRange) \in Int
  BY <1>1, RangeFacts
<1> QED BY <1>1, <1>2 DEF Cong

\* The counter of the value overflows at a multiple of the range.
LEMMA CongAdvance ==
    ASSUME NEW n \in Int
    PROVE  n % ValueMod \in 0 .. ValueMod - 1 /\ Cong(n % ValueMod, n)
<1>1. ValueMod \in Nat \ {0} /\ ValueMod % PotRange = 0
  BY C1351Assumption
<1>2. PICK c \in Int : ValueMod = PotRange * c
  <2>1. ValueMod = PotRange * (ValueMod \div PotRange) + (ValueMod % PotRange)
    BY <1>1, RangeFacts
  <2>2. ValueMod \div PotRange \in Int
    BY <1>1, RangeFacts
  <2> QED BY <1>1, <2>1, <2>2, RangeFacts
<1>3. PICK q \in Int : n = ValueMod * q + (n % ValueMod)
  <2>1. n = ValueMod * (n \div ValueMod) + (n % ValueMod) /\ n \div ValueMod \in Int
    BY <1>1
  <2> QED BY <2>1
<1>4. n % ValueMod \in 0 .. ValueMod - 1
  BY <1>1
<1>5. PICK r \in Int : r = n % ValueMod
  BY <1>4
<1>6. n = (PotRange * c) * q + r
  BY <1>2, <1>3, <1>5
<1>7. r = n + (-(c * q)) * PotRange /\ -(c * q) \in Int
  BY <1>6, RangeFacts
<1> QED BY <1>4, <1>5, <1>7 DEF Cong

\* Signed is the number next to 0.
LEMMA SignedFacts ==
    ASSUME NEW n \in Int
    PROVE  /\ Signed(n) \in -(PotRange \div 2) .. (PotRange \div 2) - 1
           /\ Cong(Signed(n), n)
           /\ \A d \in -(PotRange \div 2) .. (PotRange \div 2) - 1 : Cong(d, n) => Signed(n) = d
<1>1. PICK m \in 0 .. PotRange - 1 : m = n % PotRange /\ Cong(m, n)
  BY CongMod
<1>2. Signed(n) = IF m < PotRange \div 2 THEN m ELSE m - PotRange
  BY <1>1 DEF Signed
<1>3. Signed(n) \in -(PotRange \div 2) .. (PotRange \div 2) - 1
  BY <1>1, <1>2, RangeFacts
<1>4. Cong(Signed(n), n)
  <2>1. CASE m < PotRange \div 2
    BY <1>1, <1>2, <2>1
  <2>2. CASE ~(m < PotRange \div 2)
    <3>1. m - PotRange = m + (-1) * PotRange
      BY <1>1, RangeFacts
    <3>2. Cong(m - PotRange, m)
      BY <3>1 DEF Cong
    <3> QED BY <1>1, <1>2, <2>2, <3>2, CongEquivalence, RangeFacts
  <2> QED BY <2>1, <2>2
<1>5. ASSUME NEW d \in -(PotRange \div 2) .. (PotRange \div 2) - 1, Cong(d, n) PROVE Signed(n) = d
  <2>1. d \in Int /\ Signed(n) \in Int
    BY <1>3, RangeFacts
  <2>2. Cong(Signed(n), d)
    BY <1>4, <1>5, <2>1, CongEquivalence
  <2> QED BY <1>3, <2>1, <2>2, CongUnique, RangeFacts
<1> QED BY <1>3, <1>4, <1>5
-----------------------------------------------------------------------------
(* The inductive invariant                                                 *)

\* A value for the axis was put out, or will be, that its state machine has not pulled.
Pending(a) == fifo[a] # <<>> \/ (pushing /\ a = "y")

\* The FIFOs hold the last value, or none; that for y is put when run goes on.
QueueOK == /\ \A a \in Axis : fifo[a] = <<>> \/ fifo[a] = <<value_pot[a] % PotRange>>
           /\ pushing => fifo["y"] = <<>>

\* What the state machine repeats is the last value, or one step behind it.
StepBehind(a) ==
    IF Pending(a)
    THEN \E d \in -MaxChange(values_pushed_cnt) .. MaxChange(values_pushed_cnt) :
            Cong(value_pot[a], pot[a] + d)
    ELSE Cong(value_pot[a], pot[a])
ValueOK == \A a \in Axis : StepBehind(a)

\* Nothing is lost before it is put out and after it is read, but for multiples of the range.
SumOK == \A a \in Axis : /\ Cong(value_pot[a], 30 + moved[a] - accumulator[a])
                         /\ Cong(sampled[a], 30 + seen[a])

\* The timer of the wheel tells the time until the pulse is over.
WheelOK == since <= kWheelPulseLength => (now - pulse_update) % ClockMod = since

MotionTypeOK ==
    /\ accumulator \in [Axis -> Int] /\ value_pot \in [Axis -> 0 .. ValueMod - 1]
    /\ values_pushed_cnt \in 0 .. 7
    /\ fifo \in [Axis -> Seq(0 .. PotRange - 1)] /\ pot \in [Axis -> 0 .. PotRange - 1]
    /\ pushing \in BOOLEAN
    /\ reports \in 0 .. MaxReports /\ moved \in [Axis -> Int]
    /\ sampled \in [Axis -> 0 .. PotRange - 1] /\ seen \in [Axis -> Int]
    /\ cycles \in 0 .. MaxCycles

PulseTypeOK ==
    /\ wheel \in Int /\ pulse_state \in BOOLEAN /\ pulse_update \in 0 .. ClockMod - 1
    /\ lines \in SUBSET {"left", "right"} /\ now \in 0 .. ClockMod - 1 /\ due \in BOOLEAN
    /\ scrolled \in Int /\ pulses \in Int /\ since \in 0 .. kWheelPulseLength + 1

MotionOK == MotionTypeOK /\ QueueOK /\ ValueOK /\ SumOK
PulseOK == PulseTypeOK /\ WheelOK
IInv == MotionOK /\ PulseOK

\* The number that the value in effect had in the sequence of the kMaxChange.
Number(a) == IF Pending(a) THEN (values_pushed_cnt + 7) % 8 ELSE values_pushed_cnt

\* What the fast steps are ahead of three in two values, after the value of that number.
Lead(n) == IF n < 4 THEN 3 - n ELSE n - 3

\* The movement in effect that the computer has not read.
Way(a) == moved[a] - accumulator[a] - Signed(value_pot[a] - pot[a]) - seen[a]

\* It is bounded by the cycles since the computer read.
WayOK == \A a \in Axis : /\ 2 * Way(a) <= 3 * cycles + Lead(Number(a))
                         /\ -2 * Way(a) <= 3 * cycles + Lead(Number(a))

\* Types are those of the motion and those of the wheel.
LEMMA TypeSplit == MotionTypeOK /\ PulseTypeOK => TypeOK
  BY DEF TypeOK, MotionTypeOK, PulseTypeOK

\* The variables of an axis.
LEMMA AxisTypes ==
    ASSUME MotionOK, NEW a \in Axis
    PROVE  /\ accumulator[a] \in Int /\ moved[a] \in Int /\ seen[a] \in Int
           /\ value_pot[a] \in Int /\ pot[a] \in Int /\ sampled[a] \in Int
           /\ pot[a] \in 0 .. PotRange - 1 /\ sampled[a] \in 0 .. PotRange - 1
           /\ values_pushed_cnt \in 0 .. 7 /\ cycles \in Nat
<1>1. ValueMod \in Nat /\ MaxCycles \in Nat
  BY C1351Assumption
<1> QED BY <1>1, RangeFacts DEF MotionOK, MotionTypeOK

\* The adapter and the computer begin with the same position, and the wheel at rest.
LEMMA InitOK == Init => IInv /\ WayOK
<1> SUFFICES ASSUME Init PROVE IInv /\ WayOK
  OBVIOUS
<1>1. /\ accumulator = [a \in Axis |-> 0] /\ value_pot = [a \in Axis |-> 30 % ValueMod]
      /\ values_pushed_cnt = 0 /\ fifo = [a \in Axis |-> <<>>]
      /\ pot = [a \in Axis |-> 30 % PotRange] /\ pushing = FALSE
      /\ reports = 0 /\ moved = [a \in Axis |-> 0] /\ sampled = pot
      /\ seen = [a \in Axis |-> 0] /\ cycles = 0
  BY DEF Init
<1>2. 30 % ValueMod \in 0 .. ValueMod - 1 /\ 30 % PotRange \in 0 .. PotRange - 1
  BY CongAdvance, CongMod
<1>3. MotionTypeOK
  <2>1. MaxCycles \in Nat /\ MaxReports \in Nat
    BY C1351Assumption
  <2>2. reports \in 0 .. MaxReports /\ cycles \in 0 .. MaxCycles /\ values_pushed_cnt \in 0 .. 7
    BY <1>1, <2>1
  <2>3. fifo \in [Axis -> Seq(0 .. PotRange - 1)]
    BY <1>1
  <2>4. accumulator \in [Axis -> Int] /\ moved \in [Axis -> Int] /\ seen \in [Axis -> Int]
    BY <1>1
  <2>5. /\ value_pot \in [Axis -> 0 .. ValueMod - 1] /\ pot \in [Axis -> 0 .. PotRange - 1]
        /\ sampled \in [Axis -> 0 .. PotRange - 1]
    BY <1>1, <1>2
  <2> QED BY <1>1, <2>2, <2>3, <2>4, <2>5 DEF MotionTypeOK
<1>4. QueueOK
  BY <1>1 DEF QueueOK
<1>5. ASSUME NEW a \in Axis
      PROVE  /\ StepBehind(a)
             /\ Cong(value_pot[a], 30 + moved[a] - accumulator[a]) /\ Cong(sampled[a], 30 + seen[a])
             /\ Way(a) = 0
  <2>1. PICK v \in Int : v = value_pot[a] /\ Cong(v, 30)
    BY <1>1, <1>2, CongAdvance
  <2>2. PICK p \in Int : p = pot[a] /\ p = sampled[a] /\ Cong(p, 30)
    BY <1>1, <1>2, CongMod
  <2>3. ~Pending(a)
    BY <1>1 DEF Pending
  <2>4. Cong(v, p)
    BY <2>1, <2>2, CongEquivalence
  <2>5. Signed(v - p) = 0
    <3>1. Cong(v - p, v - v)
      BY <2>1, <2>4, CongEquivalence, CongAdd
    <3>2. v - v = 0
      OBVIOUS
    <3>3. Cong(0, v - p)
      BY <3>1, <3>2, CongEquivalence
    <3> QED BY <3>3, SignedFacts, RangeFacts
  <2>6. moved[a] = 0 /\ accumulator[a] = 0 /\ seen[a] = 0
    BY <1>1
  <2>7. 30 + moved[a] - accumulator[a] = 30 /\ 30 + seen[a] = 30
    BY <2>6
  <2>8. StepBehind(a)
    BY <2>1, <2>2, <2>3, <2>4 DEF StepBehind
  <2>9. Way(a) = 0
    BY <2>1, <2>2, <2>5, <2>6 DEF Way
  <2> QED BY <2>1, <2>2, <2>7, <2>8, <2>9
<1>6. MotionOK
  BY <1>3, <1>4, <1>5 DEF MotionOK, ValueOK, SumOK
<1>7. PulseOK
  <2>1. kWheelPulseLength \in Nat /\ ClockMod \in Nat /\ kWheelPulseLength + 1 < ClockMod
    BY C1351Assumption
  <2>2. since = kWheelPulseLength + 1 /\ wheel = 0 /\ pulse_update = 0 /\ scrolled = 0 /\ pulses = 0
        /\ pulse_state \in BOOLEAN /\ due \in BOOLEAN /\ lines = {} /\ now \in 0 .. ClockMod - 1
    BY DEF Init
  <2>3. since \in 0 .. kWheelPulseLength + 1 /\ 0 \in 0 .. ClockMod - 1 /\ 0 \in Int
    BY <2>1, <2>2
  <2>4. PulseTypeOK
    BY <2>2, <2>3 DEF PulseTypeOK
  <2>5. WheelOK
    BY <2>1, <2>2 DEF WheelOK
  <2> QED BY <2>4, <2>5 DEF PulseOK
<1>8. WayOK
  <2>1. ASSUME NEW a \in Axis PROVE Lead(Number(a)) = 3
    <3>1. Number(a) = 0
      BY <1>1 DEF Number, Pending
    <3> QED BY <3>1 DEF Lead
  <2>2. ASSUME NEW a \in Axis
        PROVE  /\ 2 * Way(a) <= 3 * cycles + Lead(Number(a))
               /\ -2 * Way(a) <= 3 * cycles + Lead(Number(a))
    <3>1. Way(a) = 0 /\ cycles = 0 /\ Lead(Number(a)) = 3
      BY <1>1, <1>5, <2>1
    <3> QED BY <3>1
  <2> QED BY <2>2 DEF WayOK
<1> QED BY <1>6, <1>7, <1>8 DEF IInv
-----------------------------------------------------------------------------
(* Movement                                                                *)

\* What leaves the motion alone.
LEMMA MotionSame ==
    ASSUME UNCHANGED <<motion, pot, reports, moved, computer>>
    PROVE  (MotionOK => MotionOK') /\ (WayOK => WayOK')
<1>1. UNCHANGED <<accumulator, value_pot, values_pushed_cnt, fifo, pushing, pot, reports, moved,
                  sampled, seen, cycles>>
  BY DEF motion, computer
<1>2. MotionOK => MotionOK'
  BY <1>1 DEF MotionOK, MotionTypeOK, QueueOK, ValueOK, SumOK, StepBehind, Pending
<1>3. WayOK => WayOK'
  BY <1>1 DEF WayOK, Way, Number, Pending
<1> QED BY <1>2, <1>3

\* A report adds its movement.
LEMMA MouseReportMotion ==
    ASSUME IInv, NEW m \in Movement, MouseReport(m)
    PROVE  MotionOK' /\ (WayOK => WayOK')
<1> DEFINE d == [a \in Axis |-> IF a = "x" THEN m.x ELSE -m.y]
<1>1. /\ reports < MaxReports /\ reports' = reports + 1
      /\ accumulator' = [a \in Axis |-> accumulator[a] + d[a]]
      /\ moved' = [a \in Axis |-> moved[a] + d[a]]
      /\ UNCHANGED <<value_pot, values_pushed_cnt, fifo, pot, pushing, sampled, seen, cycles>>
  BY DEF MouseReport, computer
<1>2. d \in [Axis -> Int]
  BY C1351Assumption
<1> HIDE DEF d
<1>3. MotionTypeOK'
  <2>1. accumulator' \in [Axis -> Int] /\ moved' \in [Axis -> Int]
    BY <1>1, <1>2 DEF IInv, MotionOK, MotionTypeOK
  <2>2. reports' \in 0 .. MaxReports
    BY <1>1, C1351Assumption DEF IInv, MotionOK, MotionTypeOK
  <2> QED BY <1>1, <2>1, <2>2 DEF IInv, MotionOK, MotionTypeOK
<1>4. QueueOK' /\ ValueOK'
  BY <1>1 DEF IInv, MotionOK, QueueOK, ValueOK, StepBehind, Pending
<1>5. ASSUME NEW a \in Axis
      PROVE  /\ 30 + moved'[a] - accumulator'[a] = 30 + moved[a] - accumulator[a]
             /\ Way(a)' = Way(a)
  <2>1. PICK e \in Int : moved'[a] = moved[a] + e /\ accumulator'[a] = accumulator[a] + e
    BY <1>1, <1>2
  <2>2. /\ moved[a] \in Int /\ accumulator[a] \in Int /\ seen[a] \in Int
        /\ value_pot[a] \in Int /\ pot[a] \in Int
    BY AxisTypes DEF IInv
  <2>3. PICK b \in Int : b = Signed(value_pot[a] - pot[a])
    BY <2>2, SignedFacts, RangeFacts
  <2>4. Way(a) = moved[a] - accumulator[a] - b - seen[a]
    BY <2>3 DEF Way
  <2>5. Way(a)' = moved'[a] - accumulator'[a] - b - seen[a]
    BY <1>1, <2>3 DEF Way
  <2> QED BY <2>1, <2>2, <2>4, <2>5
<1>6. SumOK'
  BY <1>1, <1>5 DEF IInv, MotionOK, SumOK
<1>7. WayOK => WayOK'
  BY <1>1, <1>5 DEF WayOK, Number, Pending
<1> QED BY <1>3, <1>4, <1>6, <1>7 DEF MotionOK

\* What run puts into a FIFO that is empty.
LEMMA PutFacts ==
    ASSUME MotionTypeOK, NEW a \in Axis, fifo[a] = <<>>, Put(a), value_pot'[a] \in Int
    PROVE  /\ fifo' \in [Axis -> Seq(0 .. PotRange - 1)]
           /\ fifo'[a] = <<value_pot'[a] % PotRange>>
           /\ \A b \in Axis : b # a => fifo'[b] = fifo[b]
<1>1. PICK v \in 0 .. PotRange - 1 : v = value_pot'[a] % PotRange
  BY CongMod
<1>2. fifo' = [fifo EXCEPT ![a] = Append(fifo[a], v)]
  BY <1>1 DEF Put
<1>3. Append(fifo[a], v) = <<v>>
  <2>1. Append(<<>>, v) = <<v>>
    BY <1>1
  <2> QED BY <2>1
<1>4. <<v>> \in Seq(0 .. PotRange - 1)
  BY <1>1
<1>5. fifo' = [fifo EXCEPT ![a] = <<v>>] /\ fifo \in [Axis -> Seq(0 .. PotRange - 1)]
  BY <1>2, <1>3 DEF MotionTypeOK
<1> QED BY <1>1, <1>4, <1>5

\* What is put out at once is at most the kMaxChange.
LEMMA ClampFacts ==
    ASSUME NEW n \in Int, NEW limit \in Nat
    PROVE  Clamp(n, limit) \in -limit .. limit
  BY DEF Clamp

\* What is pulled has to be pulled from one place in the sequence of the kMaxChange to the next.
LEMMA LeadFacts ==
    ASSUME NEW cnt \in 0 .. 7
    PROVE  /\ (cnt + 1) % 8 \in 0 .. 7 /\ (((cnt + 1) % 8) + 7) % 8 = cnt
           /\ (cnt + 7) % 8 \in 0 .. 7
           /\ MaxChange(cnt) \in 1 .. 2
           /\ Lead(cnt) \in 0 .. 4
           /\ 2 * MaxChange(cnt) = 3 + Lead(cnt) - Lead((cnt + 7) % 8)
<1>1. \/ cnt = 0 \/ cnt = 1 \/ cnt = 2 \/ cnt = 3 \/ cnt = 4 \/ cnt = 5 \/ cnt = 6 \/ cnt = 7
  OBVIOUS
<1> QED BY <1>1 DEF MaxChange, Lead

\* What is behind by a few steps is seen so.
LEMMA BehindFacts ==
    ASSUME NEW v \in Int, NEW p \in Int, NEW d \in -2 .. 2, Cong(v, p + d), PotRange > 4
    PROVE  Signed(v - p) = d
<1>1. Cong(v - p, (p + d) - p)
  BY CongEquivalence, CongAdd
<1>2. (p + d) - p = d
  OBVIOUS
<1>3. Cong(d, v - p)
  BY <1>1, <1>2, CongEquivalence
<1>4. d \in -(PotRange \div 2) .. (PotRange \div 2) - 1
  BY RangeFacts
<1> QED BY <1>3, <1>4, SignedFacts

\* The value for x is put out.
LEMMA RunPushXMotion ==
    ASSUME IInv, RunPushX
    PROVE  MotionOK' /\ (PotRange > 4 /\ WayOK => WayOK')
<1> DEFINE cnt == (values_pushed_cnt + 1) % 8
           inc == [a \in Axis |-> Clamp(accumulator[a], MaxChange(cnt))]
<1>1. /\ ~pushing /\ fifo["x"] = <<>> /\ fifo["y"] = <<>>
      /\ values_pushed_cnt' = cnt
      /\ accumulator' = [a \in Axis |-> accumulator[a] - inc[a]]
      /\ value_pot' = [a \in Axis |-> (value_pot[a] + inc[a]) % ValueMod]
      /\ Put("x") /\ pushing' = TRUE
      /\ UNCHANGED <<pot, reports, moved, sampled, seen, cycles>>
  BY DEF RunPushX, FifosCanTakeValues, Advance, computer
<1>2. /\ cnt \in 0 .. 7 /\ (cnt + 7) % 8 = values_pushed_cnt /\ MaxChange(cnt) \in 1 .. 2
      /\ MotionOK
  BY LeadFacts DEF IInv, MotionOK, MotionTypeOK
<1>3. \A a \in Axis : inc[a] \in -MaxChange(cnt) .. MaxChange(cnt)
  <2>1. ASSUME NEW a \in Axis PROVE inc[a] \in -MaxChange(cnt) .. MaxChange(cnt)
    <3>1. inc[a] = Clamp(accumulator[a], MaxChange(cnt)) /\ accumulator[a] \in Int
      BY <1>2, AxisTypes
    <3>2. PICK limit \in Nat : limit = MaxChange(cnt)
      BY <1>2
    <3>3. Clamp(accumulator[a], limit) \in -limit .. limit
      BY <3>1, ClampFacts
    <3> HIDE DEF cnt, inc
    <3> QED BY <3>1, <3>2, <3>3
  <2> QED BY <2>1
<1> HIDE DEF cnt, inc
<1>4. ASSUME NEW a \in Axis
      PROVE  /\ value_pot'[a] \in 0 .. ValueMod - 1
             /\ value_pot'[a] \in Int
             /\ Cong(value_pot'[a], value_pot[a] + inc[a])
             /\ accumulator'[a] = accumulator[a] - inc[a]
             /\ inc[a] \in Int /\ inc[a] \in -2 .. 2
  <2>1. inc[a] \in Int /\ inc[a] \in -2 .. 2 /\ value_pot[a] + inc[a] \in Int
    BY <1>2, <1>3, AxisTypes
  <2>2. PICK n \in Int : n = value_pot[a] + inc[a]
    BY <2>1
  <2>3. value_pot'[a] = n % ValueMod
    BY <1>1, <2>2
  <2>4. value_pot'[a] \in 0 .. ValueMod - 1 /\ Cong(value_pot'[a], n)
    BY <2>3, CongAdvance
  <2>5. value_pot'[a] \in Int
    BY <2>4, C1351Assumption
  <2> QED BY <1>1, <2>1, <2>2, <2>4, <2>5
<1>5. /\ fifo' \in [Axis -> Seq(0 .. PotRange - 1)]
      /\ fifo'["x"] = <<value_pot'["x"] % PotRange>> /\ fifo'["y"] = <<>>
  <2>1. "x" \in Axis /\ "y" \in Axis
    BY DEF Axis
  <2> QED BY <1>1, <1>2, <1>4, <2>1, PutFacts DEF MotionOK
<1>6. MotionTypeOK'
  <2>1. accumulator' \in [Axis -> Int]
    BY <1>1, <1>2, <1>4, AxisTypes
  <2>2. value_pot' \in [Axis -> 0 .. ValueMod - 1]
    BY <1>1, <1>4
  <2> QED BY <1>1, <1>2, <1>5, <2>1, <2>2 DEF MotionOK, MotionTypeOK
<1>7. QueueOK'
  BY <1>5 DEF QueueOK, Axis
<1>8. ASSUME NEW a \in Axis
      PROVE  /\ ~Pending(a) /\ Pending(a)'
             /\ Cong(value_pot[a], pot[a])
             /\ Cong(value_pot'[a], pot[a] + inc[a])
  <2>1. ~Pending(a)
    BY <1>1 DEF Pending, Axis
  <2>2. Pending(a)'
    <3>1. fifo'["x"] # <<>>
      BY <1>5
    <3> QED BY <1>1, <3>1 DEF Pending, Axis
  <2>3. Cong(value_pot[a], pot[a])
    BY <1>2, <2>1 DEF MotionOK, ValueOK, StepBehind
  <2>4. Cong(value_pot[a] + inc[a], pot[a] + inc[a])
    BY <1>2, <1>4, <2>3, AxisTypes, CongEquivalence, CongAdd
  <2>5. value_pot[a] + inc[a] \in Int /\ pot[a] + inc[a] \in Int
    BY <1>2, <1>4, AxisTypes
  <2> QED BY <1>4, <2>1, <2>2, <2>3, <2>4, <2>5, CongEquivalence
<1>9. ValueOK'
  BY <1>1, <1>3, <1>8 DEF ValueOK, StepBehind
<1>10. SumOK'
  <2>1. ASSUME NEW a \in Axis PROVE Cong(value_pot'[a], 30 + moved[a] - accumulator'[a])
    <3>1. /\ value_pot[a] \in Int /\ moved[a] \in Int /\ accumulator[a] \in Int /\ inc[a] \in Int
          /\ 30 + moved[a] - accumulator[a] \in Int /\ value_pot[a] + inc[a] \in Int
      BY <1>2, <1>4, AxisTypes
    <3>2. Cong(value_pot[a], 30 + moved[a] - accumulator[a])
      BY <1>2 DEF MotionOK, SumOK
    <3>3. Cong(value_pot[a] + inc[a], 30 + moved[a] - accumulator[a] + inc[a])
      <4>1. Cong(inc[a], inc[a])
        BY <3>1, CongEquivalence
      <4>2. PICK b \in Int : b = 30 + moved[a] - accumulator[a]
        BY <3>1
      <4>3. Cong(value_pot[a] + inc[a], b + inc[a])
        BY <3>1, <3>2, <4>1, <4>2, CongAdd
      <4> QED BY <4>2, <4>3
    <3>4. 30 + moved[a] - accumulator[a] + inc[a] = 30 + moved[a] - accumulator'[a]
      BY <1>4, <3>1
    <3>5. 30 + moved[a] - accumulator'[a] \in Int
      BY <1>4, <3>1
    <3> QED BY <1>4, <3>1, <3>3, <3>4, <3>5, CongEquivalence
  <2> QED BY <1>1, <1>2, <2>1 DEF SumOK, MotionOK
<1>11. ASSUME PotRange > 4, WayOK PROVE WayOK'
  <2>1. ASSUME NEW a \in Axis PROVE Way(a)' = Way(a) /\ Number(a)' = Number(a)
    <3>1. /\ value_pot[a] \in Int /\ moved[a] \in Int /\ accumulator[a] \in Int /\ inc[a] \in Int
          /\ pot[a] \in Int /\ seen[a] \in Int /\ value_pot'[a] \in Int
      BY <1>2, <1>4, AxisTypes
    <3>2. Signed(value_pot'[a] - pot[a]) = inc[a]
      BY <1>4, <1>8, <1>11, <3>1, BehindFacts
    <3>3. pot[a] + 0 = pot[a] /\ 0 \in -2 .. 2
      BY <3>1
    <3>4. Signed(value_pot[a] - pot[a]) = 0
      BY <1>8, <1>11, <3>1, <3>3, BehindFacts
    <3>5. Way(a) = moved[a] - accumulator[a] - 0 - seen[a]
      BY <3>4 DEF Way
    <3>6. Way(a)' = moved[a] - accumulator'[a] - inc[a] - seen[a]
      BY <1>1, <3>2 DEF Way
    <3>7. Number(a)' = Number(a)
      BY <1>1, <1>2, <1>8 DEF Number
    <3> QED BY <1>4, <3>1, <3>5, <3>6, <3>7
  <2> QED BY <1>1, <1>11, <2>1 DEF WayOK
<1> QED BY <1>6, <1>7, <1>9, <1>10, <1>11 DEF MotionOK

\* The value for y follows the one for x.
LEMMA RunRestMotion ==
    ASSUME IInv, RunRest
    PROVE  MotionOK' /\ (WayOK => WayOK')
<1>1. /\ IF pushing THEN value_pot' = value_pot /\ Put("y") ELSE UNCHANGED <<fifo, value_pot>>
      /\ pushing' = FALSE
      /\ UNCHANGED <<accumulator, values_pushed_cnt, pot, reports, moved, sampled, seen, cycles>>
  BY DEF RunRest, computer
<1>2. MotionOK /\ value_pot' = value_pot
  BY <1>1 DEF IInv
<1>3. CASE ~pushing
  BY <1>1, <1>2, <1>3 DEF MotionOK, MotionTypeOK, QueueOK, ValueOK, SumOK, StepBehind, Pending,
     WayOK, Way, Number
<1>4. CASE pushing
  <2>1. fifo["y"] = <<>> /\ "y" \in Axis /\ "x" \in Axis
    BY <1>2, <1>4 DEF MotionOK, QueueOK, Axis
  <2>2. value_pot'["y"] \in Int
    BY <1>2, <2>1, AxisTypes
  <2>3. /\ fifo' \in [Axis -> Seq(0 .. PotRange - 1)] /\ fifo'["x"] = fifo["x"]
        /\ fifo'["y"] = <<value_pot["y"] % PotRange>>
    BY <1>1, <1>2, <1>4, <2>1, <2>2, PutFacts DEF MotionOK
  <2>4. MotionTypeOK'
    BY <1>1, <1>2, <2>3 DEF MotionOK, MotionTypeOK
  <2>5. QueueOK'
    BY <1>1, <1>2, <2>3 DEF MotionOK, QueueOK, Axis
  <2>6. ASSUME NEW a \in Axis PROVE Pending(a)' <=> Pending(a)
    <3>1. fifo'["y"] # <<>>
      BY <2>3
    <3>2. CASE a = "x"
      BY <1>1, <2>3, <3>2 DEF Pending
    <3>3. CASE a = "y"
      BY <1>4, <3>1, <3>3 DEF Pending
    <3> QED BY <3>2, <3>3 DEF Axis
  <2>7. ValueOK' /\ SumOK'
    BY <1>1, <1>2, <2>6 DEF MotionOK, ValueOK, SumOK, StepBehind
  <2>8. WayOK => WayOK'
    BY <1>1, <1>2, <2>6 DEF WayOK, Way, Number
  <2> QED BY <2>4, <2>5, <2>7, <2>8 DEF MotionOK
<1> QED BY <1>3, <1>4

\* A state machine pulls the last value, or repeats the one that it has.
LEMMA SidCycleMotion ==
    ASSUME IInv, SidCycle
    PROVE  MotionOK' /\ (PotRange > 4 /\ WayOK => WayOK')
<1>1. /\ cycles < MaxCycles /\ cycles' = cycles + 1
      /\ pot' = [a \in Axis |-> IF fifo[a] = <<>> THEN pot[a] ELSE Head(fifo[a])]
      /\ fifo' = [a \in Axis |-> IF fifo[a] = <<>> THEN <<>> ELSE Tail(fifo[a])]
      /\ UNCHANGED <<accumulator, value_pot, values_pushed_cnt, pushing, reports, moved, sampled,
                     seen>>
  BY DEF SidCycle
<1>2. MotionOK
  BY DEF IInv
<1>3. ASSUME NEW a \in Axis
      PROVE  /\ fifo'[a] = <<>> /\ pot'[a] \in 0 .. PotRange - 1 /\ pot'[a] \in Int
             /\ fifo[a] = <<>> => pot'[a] = pot[a] /\ (Pending(a)' <=> Pending(a))
             /\ fifo[a] # <<>> => /\ Pending(a) /\ ~Pending(a)'
                                 /\ Cong(value_pot[a], pot'[a])
  <2>1. CASE fifo[a] = <<>>
    BY <1>1, <1>2, <2>1, AxisTypes DEF Pending
  <2>2. CASE fifo[a] # <<>>
    <3>1. value_pot[a] \in Int /\ fifo[a] = <<value_pot[a] % PotRange>>
      BY <1>2, <2>2, AxisTypes DEF MotionOK, QueueOK
    <3>2. PICK v \in 0 .. PotRange - 1 : v = value_pot[a] % PotRange /\ Cong(v, value_pot[a])
      BY <3>1, CongMod
    <3>3. fifo[a] = <<v>>
      BY <3>1, <3>2
    <3>4. Head(<<v>>) = v /\ Tail(<<v>>) = <<>>
      BY <3>2
    <3>5. pot'[a] = v /\ fifo'[a] = <<>>
      BY <1>1, <2>2, <3>3, <3>4
    <3>6. Cong(value_pot[a], v)
      BY <3>1, <3>2, CongEquivalence
    <3>7. ~(pushing /\ a = "y")
      BY <1>2, <2>2 DEF MotionOK, QueueOK
    <3>8. Pending(a) /\ ~Pending(a)'
      BY <1>1, <2>2, <3>5, <3>7 DEF Pending
    <3> QED BY <2>2, <3>2, <3>5, <3>6, <3>8
  <2> QED BY <2>1, <2>2
<1>4. MotionTypeOK'
  <2>1. pot' \in [Axis -> 0 .. PotRange - 1] /\ fifo' \in [Axis -> Seq(0 .. PotRange - 1)]
    <3>1. DOMAIN pot' = Axis /\ DOMAIN fifo' = Axis
      BY <1>1
    <3>0. <<>> \in Seq(0 .. PotRange - 1)
      OBVIOUS
    <3>2. ASSUME NEW a \in Axis PROVE fifo'[a] \in Seq(0 .. PotRange - 1)
      <4>1. fifo'[a] = <<>>
        BY <1>3
      <4> QED BY <3>0, <4>1
    <3> QED BY <1>1, <1>3, <3>1, <3>2
  <2>2. cycles' \in 0 .. MaxCycles
    BY <1>1, <1>2, C1351Assumption DEF MotionOK, MotionTypeOK
  <2> QED BY <1>1, <1>2, <2>1, <2>2 DEF MotionOK, MotionTypeOK
<1>5. QueueOK'
  BY <1>3 DEF QueueOK, Axis
<1>6. ValueOK'
  <2>1. ASSUME NEW a \in Axis PROVE StepBehind(a)'
    <3>1. CASE fifo[a] = <<>>
      <4>1. StepBehind(a)
        BY <1>2 DEF MotionOK, ValueOK
      <4> QED BY <1>1, <1>3, <3>1, <4>1 DEF StepBehind
    <3>2. CASE fifo[a] # <<>>
      BY <1>1, <1>3, <3>2 DEF StepBehind
    <3> QED BY <3>1, <3>2
  <2> QED BY <2>1 DEF ValueOK
<1>7. SumOK'
  BY <1>1, <1>2 DEF MotionOK, SumOK
<1>8. ASSUME PotRange > 4, WayOK PROVE WayOK'
  <2>1. ASSUME NEW a \in Axis
        PROVE  /\ 2 * Way(a)' <= 3 * cycles' + Lead(Number(a)')
               /\ -2 * Way(a)' <= 3 * cycles' + Lead(Number(a)')
    <3>0. /\ accumulator[a] \in Int /\ moved[a] \in Int /\ seen[a] \in Int
          /\ value_pot[a] \in Int /\ pot[a] \in Int /\ pot'[a] \in Int
          /\ values_pushed_cnt \in 0 .. 7 /\ cycles \in Nat
      BY <1>2, <1>3, AxisTypes
    <3>1. /\ 2 * Way(a) <= 3 * cycles + Lead(Number(a))
          /\ -2 * Way(a) <= 3 * cycles + Lead(Number(a))
      BY <1>8 DEF WayOK
    <3>2. /\ Lead(values_pushed_cnt) \in 0 .. 4
          /\ Lead((values_pushed_cnt + 7) % 8) \in 0 .. 4
          /\ MaxChange(values_pushed_cnt) \in 1 .. 2
          /\ 2 * MaxChange(values_pushed_cnt)
                = 3 + Lead(values_pushed_cnt) - Lead((values_pushed_cnt + 7) % 8)
      BY <3>0, LeadFacts
    <3>3. CASE fifo[a] = <<>>
      <4>1. Way(a)' = Way(a) /\ Number(a)' = Number(a)
        BY <1>1, <1>3, <3>3 DEF Way, Number
      <4>2. Way(a) \in Int
        <5>1. Signed(value_pot[a] - pot[a]) \in Int
          BY <3>0, SignedFacts, RangeFacts
        <5> QED BY <3>0, <5>1 DEF Way
      <4>3. Lead(Number(a)) \in 0 .. 4
        BY <3>2 DEF Number
      <4> QED BY <1>1, <3>0, <3>1, <4>1, <4>2, <4>3
    <3>4. CASE fifo[a] # <<>>
      <4>1. PICK d \in -MaxChange(values_pushed_cnt) .. MaxChange(values_pushed_cnt) :
              Cong(value_pot[a], pot[a] + d)
        BY <1>2, <1>3, <3>4 DEF MotionOK, ValueOK, StepBehind
      <4>2. d \in -2 .. 2
        BY <3>2, <4>1
      <4>3. Signed(value_pot[a] - pot[a]) = d
        BY <1>8, <3>0, <4>1, <4>2, BehindFacts
      <4>4. pot'[a] + 0 = pot'[a] /\ 0 \in -2 .. 2
        BY <3>0
      <4>5. Signed(value_pot[a] - pot'[a]) = 0
        BY <1>3, <1>8, <3>0, <3>4, <4>4, BehindFacts
      <4>6. Way(a) = moved[a] - accumulator[a] - d - seen[a]
        BY <4>3 DEF Way
      <4>7. Way(a)' = moved[a] - accumulator[a] - 0 - seen[a]
        BY <1>1, <4>5 DEF Way
      <4>8. Number(a) = (values_pushed_cnt + 7) % 8 /\ Number(a)' = values_pushed_cnt
        BY <1>1, <1>3, <3>4 DEF Number
      <4>9. PICK w \in Int : w = Way(a) /\ Way(a)' = w + d
        BY <3>0, <4>2, <4>6, <4>7
      <4>10. 2 * d <= 2 * MaxChange(values_pushed_cnt) /\ -2 * d <= 2 * MaxChange(values_pushed_cnt)
        BY <3>2, <4>1
      <4>11. PICK n0 \in 0 .. 4 : n0 = Lead(Number(a))
        BY <3>2, <4>8
      <4>12. PICK n1 \in 0 .. 4 : n1 = Lead(Number(a)')
        BY <3>2, <4>8
      <4>13. PICK change \in 1 .. 2 : change = MaxChange(values_pushed_cnt)
        BY <3>2
      <4>14. 2 * change = 3 + n1 - n0 /\ 2 * d <= 2 * change /\ -2 * d <= 2 * change
        BY <3>2, <4>8, <4>10, <4>11, <4>12, <4>13
      <4>15. 2 * w <= 3 * cycles + n0 /\ -2 * w <= 3 * cycles + n0
        BY <3>1, <4>9, <4>11
      <4>16. d \in Int /\ w + d \in Int
        BY <4>2, <4>9
      <4>17. 2 * (w + d) <= 3 * (cycles + 1) + n1 /\ -2 * (w + d) <= 3 * (cycles + 1) + n1
        BY <3>0, <4>14, <4>15, <4>16
      <4> QED BY <1>1, <4>9, <4>12, <4>17
    <3> QED BY <3>3, <3>4
  <2> QED BY <2>1 DEF WayOK
<1> QED BY <1>4, <1>5, <1>6, <1>7, <1>8 DEF MotionOK

\* While it is bounded, what the computer takes for the movement is the way.
LEMMA WaySeen ==
    ASSUME IInv, FastEnough, WayOK, NEW a \in Axis
    PROVE  /\ Signed(pot[a] - sampled[a]) = Way(a) /\ Way(a) \in Int
<1>1. /\ accumulator[a] \in Int /\ moved[a] \in Int /\ seen[a] \in Int
      /\ value_pot[a] \in Int /\ pot[a] \in Int /\ sampled[a] \in Int
      /\ values_pushed_cnt \in 0 .. 7 /\ cycles \in Nat
  BY AxisTypes DEF IInv
<1>2. cycles <= MaxCycles /\ MaxCycles \in Nat
  BY C1351Assumption DEF IInv, MotionOK, MotionTypeOK
<1>3. Lead(Number(a)) \in 0 .. 4
  BY <1>1, LeadFacts DEF Number
<1>4. PICK b \in Int : b = Signed(value_pot[a] - pot[a]) /\ Cong(b, value_pot[a] - pot[a])
  BY <1>1, SignedFacts, RangeFacts
<1>5. PICK w \in Int : w = Way(a) /\ w = moved[a] - accumulator[a] - b - seen[a]
  BY <1>1, <1>4 DEF Way
<1>6. w \in -(PotRange \div 2) .. (PotRange \div 2) - 1
  <2>1. 2 * w <= 3 * cycles + Lead(Number(a)) /\ -2 * w <= 3 * cycles + Lead(Number(a))
    BY <1>5 DEF WayOK
  <2>2. 2 * w < PotRange /\ -2 * w < PotRange
    BY <1>1, <1>2, <1>3, <2>1, RangeFacts DEF FastEnough
  <2> QED BY <2>2, RangeFacts
<1>7. Cong(w, pot[a] - sampled[a])
  <2>1. Cong(value_pot[a], 30 + moved[a] - accumulator[a]) /\ Cong(sampled[a], 30 + seen[a])
    BY DEF IInv, MotionOK, SumOK
  <2>2. PICK s \in Int : s = 30 + moved[a] - accumulator[a] /\ Cong(s, value_pot[a])
    BY <1>1, <2>1, CongEquivalence
  <2>3. PICK t \in Int : t = 30 + seen[a] /\ Cong(t, sampled[a])
    BY <1>1, <2>1, CongEquivalence
  <2>4. PICK p \in Int : p = value_pot[a] - pot[a]
    BY <1>1
  <2>5. Cong(s - b, value_pot[a] - p)
    BY <1>1, <1>4, <2>2, <2>4, CongAdd
  <2>6. Cong((s - b) - t, (value_pot[a] - p) - sampled[a])
    BY <1>1, <2>3, <2>5, CongAdd
  <2>7. (s - b) - t = w /\ (value_pot[a] - p) - sampled[a] = pot[a] - sampled[a]
    BY <1>1, <1>5, <2>2, <2>3, <2>4
  <2> QED BY <2>6, <2>7
<1>8. pot[a] - sampled[a] \in Int
  BY <1>1
<1> QED BY <1>5, <1>6, <1>7, <1>8, SignedFacts

\* The computer counts what it reads.
LEMMA SampleMotion ==
    ASSUME IInv, Sample
    PROVE  MotionOK' /\ (FastEnough /\ WayOK => WayOK')
<1>1. /\ seen' = [a \in Axis |-> seen[a] + Signed(pot[a] - sampled[a])]
      /\ sampled' = pot /\ cycles' = 0
      /\ UNCHANGED <<accumulator, value_pot, values_pushed_cnt, fifo, pushing, pot, reports, moved>>
  BY DEF Sample, motion
<1>2. MotionOK
  BY DEF IInv
<1>3. ASSUME NEW a \in Axis
      PROVE  /\ seen'[a] = seen[a] + Signed(pot[a] - sampled[a]) /\ seen'[a] \in Int
             /\ Cong(sampled'[a], 30 + seen'[a])
  <2>1. /\ pot[a] \in Int /\ sampled[a] \in Int /\ seen[a] \in Int /\ pot[a] - sampled[a] \in Int
        /\ sampled'[a] = pot[a] /\ seen'[a] = seen[a] + Signed(pot[a] - sampled[a])
    BY <1>1, <1>2, AxisTypes
  <2>2. PICK e \in Int : e = Signed(pot[a] - sampled[a]) /\ Cong(e, pot[a] - sampled[a])
    BY <2>1, SignedFacts, RangeFacts
  <2>3. Cong(sampled[a], 30 + seen[a]) /\ 30 + seen[a] \in Int
    BY <1>2, <2>1 DEF MotionOK, SumOK
  <2>4. Cong(pot[a] - sampled[a], e)
    BY <2>1, <2>2, CongEquivalence
  <2>5. Cong(sampled[a] + (pot[a] - sampled[a]), (30 + seen[a]) + e)
    BY <2>1, <2>2, <2>3, <2>4, CongAdd
  <2>6. sampled[a] + (pot[a] - sampled[a]) = pot[a] /\ (30 + seen[a]) + e = 30 + (seen[a] + e)
    BY <2>1, <2>2
  <2>7. Cong(pot[a], 30 + (seen[a] + e))
    BY <2>5, <2>6
  <2> QED BY <2>1, <2>2, <2>7
<1>4. MotionTypeOK'
  <2>1. seen' \in [Axis -> Int]
    BY <1>1, <1>3
  <2>2. 0 \in 0 .. MaxCycles
    BY C1351Assumption
  <2> QED BY <1>1, <1>2, <2>1, <2>2 DEF MotionOK, MotionTypeOK
<1>5. QueueOK' /\ ValueOK'
  BY <1>1, <1>2 DEF MotionOK, QueueOK, ValueOK, StepBehind, Pending
<1>6. SumOK'
  BY <1>1, <1>2, <1>3 DEF MotionOK, SumOK
<1>7. ASSUME FastEnough, WayOK PROVE WayOK'
  <2>1. ASSUME NEW a \in Axis PROVE Way(a)' = 0 /\ Lead(Number(a)') \in 0 .. 4
    <3>1. /\ accumulator[a] \in Int /\ moved[a] \in Int /\ seen[a] \in Int
          /\ value_pot[a] \in Int /\ pot[a] \in Int /\ values_pushed_cnt \in 0 .. 7
      BY <1>2, AxisTypes
    <3>2. PICK b \in Int : b = Signed(value_pot[a] - pot[a])
      BY <3>1, SignedFacts, RangeFacts
    <3>3. PICK w \in Int : w = Way(a) /\ w = Signed(pot[a] - sampled[a])
      BY <1>7, WaySeen
    <3>4. w = moved[a] - accumulator[a] - b - seen[a]
      BY <3>2, <3>3 DEF Way
    <3>5. Way(a)' = moved[a] - accumulator[a] - b - (seen[a] + w)
      BY <1>1, <1>3, <3>2, <3>3 DEF Way
    <3>6. Way(a)' = 0
      BY <3>1, <3>2, <3>3, <3>4, <3>5
    <3>7. Number(a)' = Number(a)
      BY <1>1 DEF Number, Pending
    <3>8. Lead(Number(a)) \in 0 .. 4
      BY <3>1, LeadFacts DEF Number
    <3> QED BY <3>6, <3>7, <3>8
  <2>2. ASSUME NEW a \in Axis
        PROVE  /\ 2 * Way(a)' <= 3 * cycles' + Lead(Number(a)')
               /\ -2 * Way(a)' <= 3 * cycles' + Lead(Number(a)')
    BY <1>1, <2>1
  <2> QED BY <2>2 DEF WayOK
<1> QED BY <1>4, <1>5, <1>6, <1>7 DEF MotionOK
-----------------------------------------------------------------------------
(* The wheel                                                               *)

\* What leaves the wheel alone.
LEMMA PulseSame ==
    ASSUME UNCHANGED <<pulse, now, due, scrolled>>
    PROVE  (PulseOK => PulseOK') /\ lines' = lines
<1>1. UNCHANGED <<wheel, pulse_state, pulse_update, lines, pulses, since, now, due, scrolled>>
  BY DEF pulse
<1> QED BY <1>1 DEF PulseOK, PulseTypeOK, WheelOK

\* A report adds its steps.
LEMMA MouseReportPulse ==
    ASSUME IInv, NEW m \in Movement, MouseReport(m)
    PROVE  PulseOK' /\ lines' = lines
<1>1. /\ wheel' = wheel + m.wheel /\ scrolled' = scrolled + m.wheel
      /\ UNCHANGED <<pulse_state, pulse_update, lines, now, due, pulses, since>>
  BY DEF MouseReport
<1>2. m.wheel \in Int
  BY C1351Assumption
<1> QED BY <1>1, <1>2 DEF IInv, PulseOK, PulseTypeOK, WheelOK

\* A line changes when the time of the last pulse is over.
LEMMA RunRestPulse ==
    ASSUME IInv, RunRest
    PROVE  PulseOK' /\ (lines' # lines => since > kWheelPulseLength)
<1>1. RunWheel /\ due' = FALSE /\ UNCHANGED <<now, scrolled>>
  BY DEF RunRest
<1>2. PulseTypeOK /\ WheelOK
  BY DEF IInv, PulseOK
<1>3. kWheelPulseLength \in Nat /\ ClockMod \in Nat /\ kWheelPulseLength + 1 < ClockMod
  BY C1351Assumption
<1>4. CASE ~(PulseOver /\ (pulse_state \/ wheel # 0))
  <2>1. UNCHANGED <<wheel, pulse_state, pulse_update, lines, pulses, since>>
    BY <1>1, <1>4 DEF RunWheel, pulse
  <2> QED BY <1>1, <1>2, <2>1 DEF PulseOK, PulseTypeOK, WheelOK
<1>5. CASE PulseOver /\ (pulse_state \/ wheel # 0)
  <2>1. pulse_update' = now /\ pulse_state' = ~pulse_state /\ since' = 0
    BY <1>1, <1>5 DEF RunWheel
  <2>2. wheel' \in Int /\ pulses' \in Int /\ lines' \in SUBSET {"left", "right"}
    <3>1. CASE pulse_state
      BY <1>1, <1>2, <1>5, <3>1 DEF RunWheel, PulseTypeOK
    <3>2. CASE ~pulse_state
      <4>1. PICK step \in Int : /\ lines' = {IF wheel > 0 THEN "left" ELSE "right"}
                                /\ wheel' = wheel - step /\ pulses' = pulses + step
        <5>1. (IF wheel > 0 THEN 1 ELSE -1) \in Int
          OBVIOUS
        <5> QED BY <1>1, <1>5, <3>2, <5>1 DEF RunWheel
      <4>2. wheel' \in Int /\ pulses' \in Int
        BY <1>2, <4>1 DEF PulseTypeOK
      <4> QED BY <4>1, <4>2
    <3> QED BY <3>1, <3>2
  <2>3. pulse_state' \in BOOLEAN
    BY <2>1
  <2>4. since' \in 0 .. kWheelPulseLength + 1 /\ pulse_update' \in 0 .. ClockMod - 1
    BY <1>2, <1>3, <2>1 DEF PulseTypeOK
  <2>5. PulseTypeOK'
    BY <1>1, <1>2, <2>2, <2>3, <2>4 DEF PulseTypeOK
  <2>6. WheelOK'
    <3>1. (now' - pulse_update') % ClockMod = since'
      <4>1. now \in Int /\ now - now = 0 /\ 0 % ClockMod = 0
        BY <1>2, <1>3 DEF PulseTypeOK
      <4> QED BY <1>1, <2>1, <4>1
    <3> QED BY <3>1 DEF WheelOK
  <2>7. since > kWheelPulseLength
    <3>1. (now - pulse_update) % ClockMod > kWheelPulseLength
      BY <1>5 DEF PulseOver
    <3>2. since \in Int
      BY <1>2, <1>3 DEF PulseTypeOK
    <3> QED BY <1>2, <1>3, <3>1, <3>2 DEF WheelOK
  <2> QED BY <2>5, <2>6, <2>7 DEF PulseOK
<1> QED BY <1>4, <1>5

\* A remainder of a small difference.
LEMMA Difference ==
    ASSUME NEW m \in Nat, NEW n \in Int, -m < n, n < m
    PROVE  n % m = IF n < 0 THEN n + m ELSE n
  OBVIOUS

\* The clock of the pulse goes with the clock, also when it overflows.
LEMMA TickPulse ==
    ASSUME IInv, Tick
    PROVE  PulseOK' /\ lines' = lines
<1>1. /\ due' = TRUE /\ now' = (now + 1) % ClockMod
      /\ since' = (IF since > kWheelPulseLength THEN since ELSE since + 1)
      /\ UNCHANGED <<wheel, pulse_state, pulse_update, lines, pulses, scrolled>>
  BY DEF Tick
<1>2. PulseTypeOK /\ WheelOK
  BY DEF IInv, PulseOK
<1>3. kWheelPulseLength \in Nat /\ ClockMod \in Nat /\ kWheelPulseLength + 1 < ClockMod
  BY C1351Assumption
<1>4. /\ now \in 0 .. ClockMod - 1 /\ pulse_update \in 0 .. ClockMod - 1
      /\ since \in 0 .. kWheelPulseLength + 1
  BY <1>2 DEF PulseTypeOK
<1>5. now' = (IF now = ClockMod - 1 THEN 0 ELSE now + 1) /\ now' \in 0 .. ClockMod - 1
  BY <1>1, <1>3, <1>4
<1>6. since' \in 0 .. kWheelPulseLength + 1
  BY <1>1, <1>3, <1>4
<1>7. PulseTypeOK'
  BY <1>1, <1>2, <1>5, <1>6 DEF PulseTypeOK
<1>8. ASSUME since' <= kWheelPulseLength PROVE (now' - pulse_update) % ClockMod = since'
  <2>1. since' = since + 1 /\ since <= kWheelPulseLength
    BY <1>1, <1>3, <1>4, <1>8
  <2>2. (now - pulse_update) % ClockMod = since
    BY <1>2, <2>1 DEF WheelOK
  <2>3. since = IF now - pulse_update < 0 THEN now - pulse_update + ClockMod
                                          ELSE now - pulse_update
    <3>1. PICK n \in Int : n = now - pulse_update
      BY <1>3, <1>4
    <3>2. -ClockMod < n /\ n < ClockMod
      BY <1>3, <1>4, <3>1
    <3>3. n % ClockMod = IF n < 0 THEN n + ClockMod ELSE n
      BY <1>3, <3>2, Difference
    <3> QED BY <2>2, <3>1, <3>3
  <2>4. PICK n \in Int : n = now' - pulse_update /\ -ClockMod < n /\ n < ClockMod
    BY <1>3, <1>4, <1>5
  <2>5. n % ClockMod = IF n < 0 THEN n + ClockMod ELSE n
    BY <1>3, <2>4, Difference
  <2>6. (IF n < 0 THEN n + ClockMod ELSE n) = since + 1
    BY <1>3, <1>4, <1>5, <1>8, <2>1, <2>3, <2>4
  <2> QED BY <2>1, <2>4, <2>5, <2>6
<1>9. WheelOK'
  BY <1>1, <1>8 DEF WheelOK
<1> QED BY <1>1, <1>7, <1>9 DEF PulseOK
-----------------------------------------------------------------------------
(* Every step, and the theorems                                            *)

\* A step of the mouse, of the SID or of the computer.
LEMMA StepOK ==
    ASSUME IInv, [Next]_vars
    PROVE  /\ IInv' /\ (lines' # lines => since > kWheelPulseLength)
           /\ FastEnough /\ WayOK => WayOK'
<1>0. FastEnough => PotRange > 4
  BY RangeFacts, C1351Assumption DEF FastEnough
<1>1. ASSUME NEW m \in Movement, MouseReport(m)
      PROVE  IInv' /\ lines' = lines /\ (WayOK => WayOK')
  BY <1>1, MouseReportMotion, MouseReportPulse DEF IInv
<1>2. CASE RunPushX
  <2>1. UNCHANGED <<pulse, now, due, scrolled>>
    BY <1>2 DEF RunPushX
  <2>2. PulseOK' /\ lines' = lines
    BY <2>1, PulseSame DEF IInv
  <2> QED BY <1>0, <1>2, <2>2, RunPushXMotion DEF IInv
<1>3. CASE RunRest
  BY <1>3, RunRestMotion, RunRestPulse DEF IInv
<1>4. CASE SidCycle
  <2>1. UNCHANGED <<pulse, now, due, scrolled>>
    BY <1>4 DEF SidCycle
  <2>2. PulseOK' /\ lines' = lines
    BY <2>1, PulseSame DEF IInv
  <2> QED BY <1>0, <1>4, <2>2, SidCycleMotion DEF IInv
<1>5. CASE Sample
  <2>1. UNCHANGED <<pulse, now, due, scrolled>>
    BY <1>5 DEF Sample
  <2>2. PulseOK' /\ lines' = lines
    BY <2>1, PulseSame DEF IInv
  <2> QED BY <1>5, <2>2, SampleMotion DEF IInv
<1>6. CASE Tick
  <2>1. UNCHANGED <<motion, pot, reports, moved, computer>>
    BY <1>6 DEF Tick
  <2> QED BY <1>6, <2>1, MotionSame, TickPulse DEF IInv
<1>7. CASE UNCHANGED vars
  <2>1. UNCHANGED <<motion, pot, reports, moved, computer>>
    BY <1>7 DEF vars, motion, computer
  <2>2. UNCHANGED <<pulse, now, due, scrolled>>
    BY <1>7 DEF vars, pulse
  <2> QED BY <2>1, <2>2, MotionSame, PulseSame DEF IInv
<1> QED BY <1>1, <1>2, <1>3, <1>4, <1>5, <1>6, <1>7 DEF Next

\* In every state.
LEMMA Invariance == Spec => []IInv
<1>1. Init => IInv
  BY InitOK
<1>2. IInv /\ [Next]_vars => IInv'
  BY StepOK
<1> QED BY <1>1, <1>2, PTL DEF Spec

\* The variables keep their types, whatever is moved and however it is measured:
\* the FIFOs hold values of the pot lines and the counters do not leave their range.
THEOREM TypeCorrect == Spec => []TypeOK
<1>1. IInv => TypeOK
  BY TypeSplit DEF IInv, MotionOK, PulseOK
<1> QED BY <1>1, Invariance, PTL

\* The position in effect is at most one value, that is two steps, behind the one put
\* out last: run puts no value while a FIFO holds one (pio_fifos_can_take_values).
THEOREM NoLatencyAlways == Spec => []NoLatency
<1>1. ASSUME IInv PROVE NoLatency
  <2>1. ASSUME NEW a \in Axis PROVE Signed(value_pot[a] - pot[a]) \in -2 .. 2
    <3>1. value_pot[a] \in Int /\ pot[a] \in Int /\ values_pushed_cnt \in 0 .. 7
      BY <1>1, AxisTypes DEF IInv
    <3>2. CASE PotRange > 4
      <4>1. StepBehind(a)
        BY <1>1 DEF IInv, MotionOK, ValueOK
      <4>2. MaxChange(values_pushed_cnt) \in 1 .. 2
        BY <3>1, LeadFacts
      <4>3. pot[a] = pot[a] + 0 /\ 0 \in -2 .. 2
        BY <3>1
      <4>4. PICK d \in -2 .. 2 : Cong(value_pot[a], pot[a] + d)
        BY <4>1, <4>2, <4>3 DEF StepBehind
      <4> QED BY <3>1, <3>2, <4>4, BehindFacts
    <3>3. CASE ~(PotRange > 4)
      <4>1. PICK n \in Int : n = value_pot[a] - pot[a]
        BY <3>1
      <4>2. Signed(n) \in -(PotRange \div 2) .. (PotRange \div 2) - 1
        BY SignedFacts
      <4> QED BY <3>3, <4>1, <4>2, RangeFacts
    <3> QED BY <3>2, <3>3
  <2> QED BY <2>1 DEF NoLatency
<1> QED BY <1>1, Invariance, PTL

\* A pulse of the wheel and the pause after it last longer than kWheelPulseLength,
\* also where board_millis overflows meanwhile (run).
THEOREM PulseLengthAlways == Spec => PulseLength
<1>1. IInv /\ [Next]_vars => [lines' # lines => since > kWheelPulseLength]_vars
  BY StepOK
<1> QED BY <1>1, Invariance, PTL DEF Spec, PulseLength

\* Nothing that the mouse moved is lost or counted twice, and no difference of two
\* readings is taken for a movement the other way: what was reported is what the
\* computer counted, what it will see next, what waits in the FIFOs and what is still
\* accumulated (run, kMaxChange).
THEOREM PositionKeptAlways ==
    ASSUME FastEnough
    PROVE  Spec => []PositionKept
<1>1. IInv /\ WayOK => PositionKept
  <2> SUFFICES ASSUME IInv, WayOK, NEW a \in Axis
               PROVE  moved[a] = seen[a] + Signed(pot[a] - sampled[a])
                                   + Signed(value_pot[a] - pot[a]) + accumulator[a]
    BY DEF PositionKept
  <2>1. /\ accumulator[a] \in Int /\ moved[a] \in Int /\ seen[a] \in Int
        /\ value_pot[a] \in Int /\ pot[a] \in Int
    BY AxisTypes DEF IInv
  <2>2. PICK b \in Int : b = Signed(value_pot[a] - pot[a])
    BY <2>1, SignedFacts, RangeFacts
  <2>3. PICK w \in Int : w = Way(a) /\ w = Signed(pot[a] - sampled[a])
    BY WaySeen
  <2>4. w = moved[a] - accumulator[a] - b - seen[a]
    BY <2>2, <2>3 DEF Way
  <2> QED BY <2>1, <2>2, <2>3, <2>4
<1>2. Init => IInv /\ WayOK
  BY InitOK
<1>3. (IInv /\ WayOK) /\ [Next]_vars => (IInv /\ WayOK)'
  BY StepOK
<1> QED BY <1>1, <1>2, <1>3, PTL DEF Spec
-----------------------------------------------------------------------------
(* The calibration                                                         *)

\* What the code expects: two left, three right and the middle button.
Expected == <<"left", "left", "right", "right", "right", "middle">>

\* Where a converter follows the combination its counter tells how far it is, and its
\* timeout how long the last press is ago.
CombinationOK(c) ==
    /\ timeout[c] <= kTimeout - pause[c]
    /\ IF operating_state[c] = kEffective
       THEN /\ counter[c] > 0 => timeout[c] > 0
            /\ matched[c] # 6
            /\ matched[c] < 6 => counter[c] = matched[c]
            /\ matched[c] \in 1 .. 5 => timeout[c] = kTimeout - pause[c]
       ELSE counter[c] = 0
FollowOK == \A c \in Converter : CombinationOK(c)

\* What the steps need to know of the constants.
LEMMA CalibrationFacts ==
    /\ kTimeout \in Nat /\ kTimeout >= 1 /\ Len(Combination) \in Nat /\ Spoilt \in Nat
    /\ kEffective \notin Step /\ 1 \in Step
    /\ \A s \in Step : NextStep(s) \in Step \cup {kEffective}
    /\ \A s \in Step : NextStep(s) = kEffective <=> s = 4
  BY CalibrationAssumption DEF Spoilt, Step, kEffective, NextStep

\* A report may turn the wheel by a number.
LEMMA TurnsFacts ==
    ASSUME NEW c \in Converter, NEW w \in Turns(c)
    PROVE  w \in Int
  BY CalibrationAssumption DEF Turns

\* What a report does to its converter; the other one is left alone.
LEMMA ReportFacts ==
    ASSUME CalibrationTypeOK, NEW c \in Converter, NEW b \in Buttons, NEW w \in Turns(c),
           CalibrationReport(c, b, w)
    PROVE  /\ operating_state' \in [Converter -> Step \cup {kEffective}]
           /\ \A o \in Converter \ {c} : operating_state'[o] = operating_state[o]
           /\ operating_state'[c] = kEffective =>
                \/ operating_state[c] = kEffective /\ calibration' = calibration
                \/ saving' # "no"
                \/ valid => calibration' = stored
           /\ calibration' \in Table
           /\ abandoned' \in BOOLEAN
           /\ ~abandoned' => ~abandoned \/ (valid => calibration' = stored)
           /\ saving' \in {"no", "erase"}
<1> DEFINE pressed == b \ last[c]
           state == operating_state[c]
           n == IF state = kEffective /\ timeout[c] = 1 THEN 0 ELSE counter[c]
           entered == state = kEffective /\ n = 5 /\ "middle" \in pressed
           finished == state = 4 /\ "left" \in pressed
           next == IF entered THEN 1
                   ELSE IF state # kEffective /\ "left" \in pressed THEN NextStep(state) ELSE state
           aborted == next # kEffective /\ "right" \in pressed
           amount == IF state = kEffective THEN 0 ELSE w
           adjusted == IF amount = 0 THEN calibration
                       ELSE [calibration EXCEPT ![port[c]][state] = @ + amount]
<1>1. /\ operating_state' = [operating_state EXCEPT ![c] = IF aborted THEN kEffective ELSE next]
      /\ calibration' = (IF aborted THEN LoadedTable(adjusted) ELSE adjusted)
      /\ saving' = (IF finished THEN "erase" ELSE "no")
      /\ abandoned' = (abandoned /\ ~(aborted /\ valid))
  BY DEF CalibrationReport
<1>2. state \in Step \cup {kEffective} /\ operating_state \in [Converter -> Step \cup {kEffective}]
  BY DEF CalibrationTypeOK
<1>3. next \in Step \cup {kEffective}
  BY <1>2, CalibrationFacts
<1>4. next = kEffective => finished \/ (state = kEffective /\ ~entered)
  BY <1>2, CalibrationFacts
<1>5. adjusted \in Table /\ (state = kEffective => adjusted = calibration)
  <2>1. CASE amount = 0
    BY <2>1 DEF CalibrationTypeOK
  <2>2. CASE amount # 0
    <3>1. state \in Step /\ state # kEffective /\ amount \in Int
      BY <1>2, <2>2, TurnsFacts
    <3>2. port[c] \in Port /\ calibration \in [Port -> [Step -> Int]]
      BY DEF CalibrationTypeOK, Table
    <3>3. [calibration EXCEPT ![port[c]][state] = @ + amount] \in [Port -> [Step -> Int]]
      <4>1. calibration[port[c]][state] + amount \in Int
        BY <3>1, <3>2
      <4>2. PICK v \in Int : v = calibration[port[c]][state] + amount
        BY <4>1
      <4>3. [calibration[port[c]] EXCEPT ![state] = v] \in [Step -> Int]
        BY <3>1, <3>2, <4>2
      <4> HIDE DEF state, amount
      <4> QED BY <3>1, <3>2, <4>2, <4>3
    <3> QED BY <2>2, <3>1, <3>3 DEF Table
  <2> QED BY <2>1, <2>2
<1> HIDE DEF pressed, n, entered, finished, next, aborted, amount, adjusted
<1>6. operating_state'[c] = (IF aborted THEN kEffective ELSE next)
  BY <1>1, <1>2
<1>7. aborted /\ valid => calibration' = stored
  BY <1>1 DEF LoadedTable
<1>8. ~aborted => calibration' = adjusted
  BY <1>1
<1>9. calibration' \in Table
  BY <1>1, <1>5 DEF LoadedTable, CalibrationTypeOK
<1>10. operating_state' \in [Converter -> Step \cup {kEffective}]
  BY <1>1, <1>2, <1>3
<1>11. \A o \in Converter \ {c} : operating_state'[o] = operating_state[o]
  BY <1>1, <1>2
<1>12. operating_state'[c] = kEffective =>
         \/ operating_state[c] = kEffective /\ calibration' = calibration
         \/ saving' # "no"
         \/ valid => calibration' = stored
  <2>1. CASE aborted
    BY <1>7, <2>1
  <2>2. CASE ~aborted
    BY <1>1, <1>4, <1>5, <1>6, <1>8, <2>2
  <2> QED BY <2>1, <2>2
<1>13. abandoned' \in BOOLEAN /\ (~abandoned' => ~abandoned \/ (valid => calibration' = stored))
  BY <1>1, <1>7 DEF CalibrationTypeOK
<1> QED BY <1>1, <1>9, <1>10, <1>11, <1>12, <1>13

\* What it does to the variables of the combination, with those of its converter named.
LEMMA ReportDetection ==
    ASSUME CalibrationTypeOK, NEW c \in Converter, NEW b \in Buttons, NEW w \in Turns(c),
           CalibrationReport(c, b, w)
    PROVE  \E pressed \in SUBSET {"left", "right", "middle"}, n \in 0 .. 5 :
             /\ n = IF operating_state[c] = kEffective /\ timeout[c] = 1 THEN 0 ELSE counter[c]
             /\ Follow(c, pressed, operating_state[c])
             /\ IF operating_state[c] = kEffective
                THEN /\ counter' = [counter EXCEPT ![c] = IF n = 5 /\ "middle" \in pressed THEN 0
                                                         ELSE Counted(n, pressed)]
                     /\ timeout' = [timeout EXCEPT ![c] =
                                       IF n < 5 /\ Wanted(n) \in pressed THEN kTimeout
                                       ELSE IF @ > 0 THEN @ - 1 ELSE 0]
                ELSE UNCHANGED <<counter, timeout>>
             /\ operating_state[c] = kEffective =>
                   operating_state'[c] = IF n = 5 /\ "middle" \in pressed /\ "right" \notin pressed
                                         THEN 1 ELSE kEffective
<1> DEFINE pressed == b \ last[c]
           n == IF operating_state[c] = kEffective /\ timeout[c] = 1 THEN 0 ELSE counter[c]
<1>1. b \subseteq {"left", "right", "middle"}
  BY CalibrationAssumption
<1>2. n \in 0 .. 5 /\ operating_state \in [Converter -> Step \cup {kEffective}]
  BY DEF CalibrationTypeOK
<1>3. pressed \in SUBSET {"left", "right", "middle"}
  BY <1>1
<1>4. /\ Follow(c, pressed, operating_state[c])
      /\ IF operating_state[c] = kEffective
         THEN /\ counter' = [counter EXCEPT ![c] = IF n = 5 /\ "middle" \in pressed THEN 0
                                                  ELSE Counted(n, pressed)]
              /\ timeout' = [timeout EXCEPT ![c] =
                                IF n < 5 /\ Wanted(n) \in pressed THEN kTimeout
                                ELSE IF @ > 0 THEN @ - 1 ELSE 0]
         ELSE UNCHANGED <<counter, timeout>>
  BY DEF CalibrationReport
<1>5. ASSUME operating_state[c] = kEffective
      PROVE  operating_state'[c] = IF n = 5 /\ "middle" \in pressed /\ "right" \notin pressed
                                   THEN 1 ELSE kEffective
  <2> DEFINE next == IF n = 5 /\ "middle" \in pressed THEN 1 ELSE kEffective
  <2>1. operating_state' = [operating_state EXCEPT ![c] =
                              IF next # kEffective /\ "right" \in pressed THEN kEffective ELSE next]
    BY <1>5 DEF CalibrationReport
  <2>2. operating_state'[c] = IF next # kEffective /\ "right" \in pressed THEN kEffective ELSE next
    BY <1>2, <2>1
  <2> QED BY <2>2 DEF kEffective
<1> HIDE DEF pressed, n
<1>6. n = IF operating_state[c] = kEffective /\ timeout[c] = 1 THEN 0 ELSE counter[c]
  BY DEF n
<1> QED BY <1>2, <1>3, <1>4, <1>5, <1>6

\* The counter of the combination stays in its range.
LEMMA CountedFacts ==
    ASSUME NEW n \in 0 .. 5, NEW pressed \in SUBSET {"left", "right", "middle"}
    PROVE  /\ Counted(n, pressed) \in 0 .. 5
           /\ pressed = {} => Counted(n, pressed) = n
           /\ n = 0 /\ Counted(n, pressed) # 0 => "left" \in pressed
           /\ Wanted(n) \notin pressed => Counted(n, pressed) \in {0, n}
           /\ Counted(n, pressed) # 0 /\ n = 0 => Wanted(n) \in pressed
           /\ n < 5 /\ pressed = {Wanted(n)} => Counted(n, pressed) = n + 1
  BY DEF Counted, Wanted, Unwanted

\* A report keeps the types.
LEMMA ReportTypes ==
    ASSUME CalibrationTypeOK, NEW c \in Converter, NEW b \in Buttons, NEW w \in Turns(c),
           CalibrationReport(c, b, w)
    PROVE  CalibrationTypeOK'
<1>1. PICK pressed \in SUBSET {"left", "right", "middle"}, n \in 0 .. 5 :
        /\ Follow(c, pressed, operating_state[c])
        /\ IF operating_state[c] = kEffective
           THEN /\ counter' = [counter EXCEPT ![c] = IF n = 5 /\ "middle" \in pressed THEN 0
                                                    ELSE Counted(n, pressed)]
                /\ timeout' = [timeout EXCEPT ![c] =
                                  IF n < 5 /\ Wanted(n) \in pressed THEN kTimeout
                                  ELSE IF @ > 0 THEN @ - 1 ELSE 0]
           ELSE UNCHANGED <<counter, timeout>>
  BY ReportDetection
<1>2. /\ operating_state' \in [Converter -> Step \cup {kEffective}] /\ calibration' \in Table
      /\ abandoned' \in BOOLEAN /\ saving' \in {"no", "erase"}
  BY ReportFacts
<1>3. kTimeout \in Nat /\ kTimeout >= 1 /\ Len(Combination) \in Nat /\ Spoilt = Len(Combination) + 1
  BY CalibrationFacts DEF Spoilt
<1>4. counter' \in [Converter -> 0 .. 5]
  <2>1. Counted(n, pressed) \in 0 .. 5 /\ 0 \in 0 .. 5
    BY CountedFacts
  <2> QED BY <1>1, <2>1 DEF CalibrationTypeOK
<1>5. timeout' \in [Converter -> 0 .. kTimeout]
  <2>1. CASE operating_state[c] = kEffective
    <3>1. PICK t \in 0 .. kTimeout : timeout' = [timeout EXCEPT ![c] = t]
      <4>1. timeout[c] \in 0 .. kTimeout
        BY DEF CalibrationTypeOK
      <4>2. (IF n < 5 /\ Wanted(n) \in pressed THEN kTimeout
             ELSE IF timeout[c] > 0 THEN timeout[c] - 1 ELSE 0) \in 0 .. kTimeout
        BY <1>3, <4>1
      <4> QED BY <1>1, <2>1, <4>2
    <3> QED BY <3>1 DEF CalibrationTypeOK
  <2>2. CASE operating_state[c] # kEffective
    BY <1>1, <2>2 DEF CalibrationTypeOK
  <2> QED BY <2>1, <2>2
<1>6. matched' \in [Converter -> 0 .. Spoilt] /\ pause' \in [Converter -> 0 .. kTimeout]
  <2>1. CASE Combination = <<>>
    BY <1>1, <2>1 DEF Follow, CalibrationTypeOK
  <2>2. CASE Combination # <<>>
    <3>1. matched[c] \in 0 .. Spoilt /\ pause[c] \in 0 .. kTimeout
      BY DEF CalibrationTypeOK
    <3>2. PICK m \in 0 .. Spoilt : matched' = [matched EXCEPT ![c] = m]
      <4>1. PICK k \in 0 .. Spoilt : k = IF pause[c] >= kTimeout - 1 THEN 0 ELSE matched[c]
        BY <1>3, <3>1
      <4>2. Matched(c, pressed) \in 0 .. Spoilt
        BY <1>3, <4>1 DEF Matched
      <4> QED BY <1>1, <1>3, <2>2, <4>2 DEF Follow
    <3>3. PICK q \in 0 .. kTimeout : pause' = [pause EXCEPT ![c] = q]
      <4>1. (IF pressed # {} \/ operating_state[c] # kEffective THEN 0
             ELSE IF pause[c] = kTimeout THEN pause[c] ELSE pause[c] + 1) \in 0 .. kTimeout
        BY <1>3, <3>1
      <4> QED BY <1>1, <2>2, <4>1 DEF Follow
    <3> QED BY <3>2, <3>3 DEF CalibrationTypeOK
  <2> QED BY <2>1, <2>2
<1>7. last' \in [Converter -> Buttons \cup {{}}]
  BY DEF CalibrationReport, CalibrationTypeOK
<1>8. adjustments' \in 0 .. MaxAdjustment
  <2>1. MaxAdjustment \in Nat /\ adjustments \in 0 .. MaxAdjustment
    BY CalibrationAssumption DEF CalibrationTypeOK
  <2>2. \/ adjustments' = adjustments
        \/ adjustments' = adjustments + 1 /\ adjustments < MaxAdjustment
    BY DEF CalibrationReport
  <2> QED BY <2>1, <2>2
<1>9. UNCHANGED <<valid, stored, port, disturbances>>
  BY DEF CalibrationReport, flash
<1> QED BY <1>2, <1>4, <1>5, <1>6, <1>7, <1>8, <1>9 DEF CalibrationTypeOK

\* It follows no other converter, which keeps what it had.
LEMMA ReportOthers ==
    ASSUME CalibrationTypeOK, FollowOK,
           NEW c \in Converter, NEW b \in Buttons, NEW w \in Turns(c), CalibrationReport(c, b, w),
           CombinationOK(c)'
    PROVE  /\ FollowOK'
           /\ \A o \in Converter \ {c} : matched'[o] = matched[o]
<1>1. PICK pressed \in SUBSET {"left", "right", "middle"}, n \in 0 .. 5 :
        /\ Follow(c, pressed, operating_state[c])
        /\ IF operating_state[c] = kEffective
           THEN /\ counter' = [counter EXCEPT ![c] = IF n = 5 /\ "middle" \in pressed THEN 0
                                                    ELSE Counted(n, pressed)]
                /\ timeout' = [timeout EXCEPT ![c] =
                                  IF n < 5 /\ Wanted(n) \in pressed THEN kTimeout
                                  ELSE IF @ > 0 THEN @ - 1 ELSE 0]
           ELSE UNCHANGED <<counter, timeout>>
  BY ReportDetection
<1>2. ASSUME NEW o \in Converter \ {c}
      PROVE  /\ operating_state'[o] = operating_state[o]
             /\ counter'[o] = counter[o] /\ timeout'[o] = timeout[o]
             /\ matched'[o] = matched[o] /\ pause'[o] = pause[o]
  <2>1. operating_state'[o] = operating_state[o]
    BY ReportFacts
  <2>2. counter'[o] = counter[o] /\ timeout'[o] = timeout[o]
    BY <1>1 DEF CalibrationTypeOK
  <2>3. matched'[o] = matched[o] /\ pause'[o] = pause[o]
    BY <1>1 DEF CalibrationTypeOK, Follow
  <2> QED BY <2>1, <2>2, <2>3
<1>3. ASSUME NEW o \in Converter \ {c} PROVE CombinationOK(o)'
  BY <1>2 DEF FollowOK, CombinationOK
<1> QED BY <1>2, <1>3 DEF FollowOK

\* A report follows the combination as the code does; what completes it starts the calibration.
LEMMA ReportFollow ==
    ASSUME CalibrationTypeOK, Combination = Expected, FollowOK,
           NEW c \in Converter, NEW b \in Buttons, NEW w \in Turns(c), CalibrationReport(c, b, w)
    PROVE  /\ FollowOK'
           /\ \A o \in Converter :
                matched'[o] = 6 /\ matched[o] # 6 => operating_state'[o] # kEffective
<1>1. PICK pressed \in SUBSET {"left", "right", "middle"}, n \in 0 .. 5 :
        /\ n = IF operating_state[c] = kEffective /\ timeout[c] = 1 THEN 0 ELSE counter[c]
        /\ Follow(c, pressed, operating_state[c])
        /\ IF operating_state[c] = kEffective
           THEN /\ counter' = [counter EXCEPT ![c] = IF n = 5 /\ "middle" \in pressed THEN 0
                                                    ELSE Counted(n, pressed)]
                /\ timeout' = [timeout EXCEPT ![c] =
                                  IF n < 5 /\ Wanted(n) \in pressed THEN kTimeout
                                  ELSE IF @ > 0 THEN @ - 1 ELSE 0]
           ELSE UNCHANGED <<counter, timeout>>
        /\ operating_state[c] = kEffective =>
              operating_state'[c] = IF n = 5 /\ "middle" \in pressed /\ "right" \notin pressed
                                    THEN 1 ELSE kEffective
  BY ReportDetection
<1>2. kTimeout \in Nat /\ kTimeout >= 1 /\ Combination # <<>> /\ Len(Combination) = 6 /\ Spoilt = 7
  BY CalibrationFacts DEF Expected, Spoilt
<1>3. /\ counter[c] \in 0 .. 5 /\ timeout[c] \in 0 .. kTimeout /\ matched[c] \in 0 .. 7
      /\ pause[c] \in 0 .. kTimeout
  BY <1>2 DEF CalibrationTypeOK
<1>4. CombinationOK(c)
  BY DEF FollowOK
<1>5. /\ matched'[c] = (IF operating_state[c] = kEffective THEN Matched(c, pressed) ELSE 0)
      /\ pause'[c] = (IF pressed # {} \/ operating_state[c] # kEffective THEN 0
                      ELSE IF pause[c] = kTimeout THEN kTimeout ELSE pause[c] + 1)
  BY <1>1, <1>2 DEF Follow, CalibrationTypeOK
<1>6. CASE operating_state[c] # kEffective
  <2>1. counter'[c] = 0 /\ timeout'[c] = timeout[c] /\ matched'[c] = 0 /\ pause'[c] = 0
    BY <1>1, <1>4, <1>5, <1>6 DEF CombinationOK
  <2>2. CombinationOK(c)'
    BY <1>2, <1>3, <2>1 DEF CombinationOK
  <2>3. matched'[c] # 6
    BY <2>1
  <2> QED BY <1>1, <2>2, <2>3, ReportOthers
<1>7. CASE operating_state[c] = kEffective
  <2>1. /\ counter'[c] = (IF n = 5 /\ "middle" \in pressed THEN 0 ELSE Counted(n, pressed))
        /\ timeout'[c] = (IF n < 5 /\ Wanted(n) \in pressed THEN kTimeout
                          ELSE IF timeout[c] > 0 THEN timeout[c] - 1 ELSE 0)
    BY <1>1, <1>7 DEF CalibrationTypeOK
  <2>2. /\ timeout[c] <= kTimeout - pause[c]
        /\ counter[c] > 0 => timeout[c] > 0
        /\ matched[c] # 6
        /\ matched[c] < 6 => counter[c] = matched[c]
        /\ matched[c] \in 1 .. 5 => timeout[c] = kTimeout - pause[c]
    BY <1>4, <1>7 DEF CombinationOK
  <2>3. n > 0 => timeout[c] > 1 /\ n = counter[c]
    BY <1>1, <1>3, <1>7, <2>2
  <2>4. PICK m \in 0 .. 7 : /\ m = IF pause[c] >= kTimeout - 1 THEN 0 ELSE matched[c]
                            /\ m # 6 /\ (m < 6 => n = m)
                            /\ m \in 1 .. 5 => timeout[c] = kTimeout - pause[c] /\ timeout[c] > 1
    <3>1. CASE pause[c] >= kTimeout - 1
      <4>1. timeout[c] <= 1
        BY <1>2, <1>3, <2>2, <3>1
      <4>2. n = 0
        BY <1>3, <2>3, <4>1
      <4> QED BY <3>1, <4>2
    <3>2. CASE ~(pause[c] >= kTimeout - 1)
      <4>1. matched[c] \in 1 .. 5 => timeout[c] > 1 /\ n = matched[c]
        BY <1>1, <1>2, <1>3, <2>2, <3>2
      <4>2. matched[c] = 0 => n = 0
        BY <1>1, <2>2
      <4> QED BY <1>3, <2>2, <3>2, <4>1, <4>2
    <3> QED BY <3>1, <3>2
  <2>5. Matched(c, pressed) = IF pressed = {} THEN m
                              ELSE IF m < 6 /\ pressed = {Combination[m + 1]} THEN m + 1 ELSE 7
    BY <1>2, <2>4 DEF Matched
  <2>6. timeout'[c] <= kTimeout - pause'[c]
    <3>1. CASE pressed = {}
      BY <1>2, <1>3, <1>5, <1>7, <2>1, <2>2, <3>1
    <3>2. CASE pressed # {}
      BY <1>2, <1>3, <1>5, <2>1, <3>2
    <3> QED BY <3>1, <3>2
  <2>7. counter'[c] > 0 => timeout'[c] > 0
    <3>1. CASE n = 0
      <4>1. counter'[c] > 0 => Wanted(n) \in pressed
        BY <2>1, <3>1, CountedFacts
      <4> QED BY <1>2, <2>1, <3>1, <4>1
    <3>2. CASE n > 0
      BY <1>2, <1>3, <2>1, <2>3, <3>2
    <3> QED BY <3>1, <3>2
  <2>8. m < 6 => Combination[m + 1] = Wanted(m)
    <3>1. m \in 0 .. 7
      BY <2>4
    <3>2. m < 6 => m = 0 \/ m = 1 \/ m = 2 \/ m = 3 \/ m = 4 \/ m = 5
      BY <3>1
    <3> QED BY <3>2 DEF Expected, Wanted
  <2>9. CASE pressed = {}
    <3>1. counter'[c] = n /\ matched'[c] = m
      BY <1>5, <1>7, <2>1, <2>5, <2>9, CountedFacts
    <3>2. operating_state'[c] = kEffective
      BY <1>1, <1>7, <2>9
    <3>3. m \in 1 .. 5 => timeout'[c] = kTimeout - pause'[c]
      <4>1. m \in 1 .. 5 => timeout'[c] = timeout[c] - 1
        BY <1>3, <2>1, <2>4, <2>9
      <4>2. m \in 1 .. 5 => pause'[c] = pause[c] + 1
        BY <1>2, <1>3, <1>5, <1>7, <2>4, <2>9
      <4> QED BY <1>2, <1>3, <2>4, <4>1, <4>2
    <3>4. CombinationOK(c)'
      BY <2>4, <2>6, <2>7, <3>1, <3>2, <3>3 DEF CombinationOK
    <3> QED BY <2>4, <3>1, <3>4, ReportOthers
  <2>10. CASE m < 6 /\ pressed = {Combination[m + 1]}
    <3>1. n = m /\ pressed = {Wanted(n)} /\ matched'[c] = m + 1 /\ pause'[c] = 0
      BY <1>5, <1>7, <2>4, <2>5, <2>8, <2>10
    <3>2. CASE m < 5
      <4>1. counter'[c] = m + 1 /\ timeout'[c] = kTimeout
        BY <2>1, <3>1, <3>2, CountedFacts
      <4>2. operating_state'[c] = kEffective
        BY <1>1, <1>7, <3>1, <3>2
      <4>3. CombinationOK(c)'
        BY <1>2, <2>4, <2>6, <2>7, <3>1, <3>2, <4>1, <4>2 DEF CombinationOK
      <4> QED BY <2>4, <3>1, <3>2, <4>3, ReportOthers
    <3>3. CASE m = 5
      <4>1. pressed = {"middle"} /\ n = 5
        BY <3>1, <3>3 DEF Wanted
      <4>2. counter'[c] = 0 /\ operating_state'[c] = 1
        BY <1>1, <1>7, <2>1, <4>1
      <4>3. CombinationOK(c)'
        BY <2>6, <4>2 DEF CombinationOK, kEffective
      <4> QED BY <4>2, <4>3, ReportOthers DEF kEffective
    <3> QED BY <2>4, <2>10, <3>2, <3>3
  <2>11. CASE pressed # {} /\ ~(m < 6 /\ pressed = {Combination[m + 1]})
    <3>1. matched'[c] = 7
      BY <1>5, <1>7, <2>5, <2>11
    <3>2. operating_state'[c] # kEffective => counter'[c] = 0
      BY <1>1, <1>7, <2>1
    <3>3. CombinationOK(c)'
      BY <2>6, <2>7, <3>1, <3>2 DEF CombinationOK
    <3> QED BY <3>1, <3>3, ReportOthers
  <2> QED BY <2>9, <2>10, <2>11
<1> QED BY <1>6, <1>7

\* Converters that begin anew.
LEMMA FreshFacts ==
    ASSUME CalibrationTypeOK, Fresh
    PROVE  /\ \A c \in Converter : operating_state'[c] = kEffective
           /\ operating_state' \in [Converter -> Step \cup {kEffective}]
           /\ counter' \in [Converter -> 0 .. 5] /\ timeout' \in [Converter -> 0 .. kTimeout]
           /\ last' \in [Converter -> Buttons \cup {{}}]
           /\ matched' \in [Converter -> 0 .. Spoilt] /\ pause' \in [Converter -> 0 .. kTimeout]
           /\ FollowOK'
           /\ \A c \in Converter : matched'[c] = 0
<1>1. kTimeout \in Nat /\ Spoilt \in Nat
  BY CalibrationFacts
<1>2. 0 \in 0 .. kTimeout /\ kTimeout \in 0 .. kTimeout /\ 0 \in 0 .. Spoilt /\ 0 \in 0 .. 5
  BY <1>1
<1>3. ASSUME NEW c \in Converter PROVE CombinationOK(c)' /\ matched'[c] = 0
  <2>1. /\ operating_state'[c] = kEffective /\ counter'[c] = 0 /\ timeout'[c] = 0
        /\ matched'[c] = 0 /\ pause'[c] = kTimeout
    BY DEF Fresh
  <2> QED BY <1>1, <2>1 DEF CombinationOK
<1>4. /\ counter' \in [Converter -> 0 .. 5] /\ timeout' \in [Converter -> 0 .. kTimeout]
      /\ last' \in [Converter -> Buttons \cup {{}}]
      /\ matched' \in [Converter -> 0 .. Spoilt] /\ pause' \in [Converter -> 0 .. kTimeout]
  BY <1>2 DEF Fresh
<1>5. operating_state' \in [Converter -> Step \cup {kEffective}]
  BY DEF Fresh
<1>6. \A c \in Converter : operating_state'[c] = kEffective
  BY DEF Fresh
<1> QED BY <1>3, <1>4, <1>5, <1>6 DEF FollowOK

\* The calibration begins with nothing stored, and nobody calibrating.
LEMMA CalibrationInitOK == CalibrationInit => CalibrationTypeOK /\ FollowOK /\ Agreement
<1> SUFFICES ASSUME CalibrationInit PROVE CalibrationTypeOK /\ FollowOK /\ Agreement
  OBVIOUS
<1>1. /\ kTimeout \in Nat /\ Spoilt \in Nat /\ MaxAdjustment \in Nat /\ MaxDisturbances \in Nat
  BY CalibrationFacts, CalibrationAssumption
<1>2. Default \in Table
  BY DEF Default, Table
<1>3. CalibrationTypeOK
  <2>1. /\ 0 \in 0 .. kTimeout /\ kTimeout \in 0 .. kTimeout /\ 0 \in 0 .. Spoilt /\ 0 \in 0 .. 5
        /\ 0 \in 0 .. MaxAdjustment /\ 0 \in 0 .. MaxDisturbances
    BY <1>1
  <2>2. /\ operating_state \in [Converter -> Step \cup {kEffective}]
        /\ counter \in [Converter -> 0 .. 5] /\ timeout \in [Converter -> 0 .. kTimeout]
        /\ last \in [Converter -> Buttons \cup {{}}]
        /\ matched \in [Converter -> 0 .. Spoilt] /\ pause \in [Converter -> 0 .. kTimeout]
    BY <2>1 DEF CalibrationInit
  <2>3. /\ calibration \in Table /\ stored \in Table /\ valid \in BOOLEAN /\ abandoned \in BOOLEAN
        /\ saving \in {"no", "erase", "program"}
        /\ adjustments \in 0 .. MaxAdjustment /\ disturbances \in 0 .. MaxDisturbances
    BY <1>2, <2>1 DEF CalibrationInit
  <2>4. port \in [Converter -> Port] /\ \A c, d \in Converter : c # d => port[c] # port[d]
    BY DEF CalibrationInit
  <2> QED BY <2>2, <2>3, <2>4 DEF CalibrationTypeOK
<1>4. FollowOK
  BY <1>1 DEF CalibrationInit, FollowOK, CombinationOK
<1> QED BY <1>3, <1>4 DEF CalibrationInit, Agreement

\* What a step of the flash, a swap, a change of the modes or a power failure does.
LEMMA OtherSteps ==
    ASSUME CalibrationTypeOK, Erase \/ Program \/ Swap \/ CycleMouseMode \/ PowerCycle
    PROVE  /\ CalibrationTypeOK' /\ (Agreement => Agreement') /\ (FollowOK => FollowOK')
           /\ \A c \in Converter : matched'[c] = matched[c] \/ matched'[c] = 0
<1>1. MaxDisturbances \in Nat
  BY CalibrationAssumption
<1>2. Disturbance => disturbances' \in 0 .. MaxDisturbances
  BY <1>1 DEF Disturbance, CalibrationTypeOK
<1>3. CASE Erase
  <2>1. /\ saving' = "program" /\ valid' = FALSE
        /\ UNCHANGED <<calibration, stored, operating_state, counter, timeout, last, matched, pause,
                       port, adjustments, disturbances, abandoned>>
    BY <1>3 DEF Erase, detection
  <2> QED BY <2>1 DEF CalibrationTypeOK, Agreement, FollowOK, CombinationOK
<1>4. CASE Program
  <2>1. /\ saving' = "no" /\ valid' = TRUE /\ stored' = calibration /\ abandoned' = FALSE
        /\ UNCHANGED <<calibration, operating_state, counter, timeout, last, matched, pause,
                       port, adjustments, disturbances>>
    BY <1>4 DEF Program, detection
  <2> QED BY <2>1 DEF CalibrationTypeOK, Agreement, FollowOK, CombinationOK
<1>5. CASE Swap
  <2>1. /\ port' = [c \in Converter |-> 1 - port[c]] /\ Disturbance
        /\ UNCHANGED <<calibration, valid, stored, operating_state, counter, timeout, last, matched,
                       pause, saving, adjustments, abandoned>>
    BY <1>5 DEF Swap, detection, flash
  <2>2. \A c \in Converter : port[c] \in {0, 1} /\ 1 - port[c] \in {0, 1}
    BY DEF CalibrationTypeOK, Port
  <2>3. port' \in [Converter -> Port]
    BY <2>1, <2>2 DEF Port
  <2>4. \A c, d \in Converter : c # d => port'[c] # port'[d]
    <3>1. ASSUME NEW c \in Converter, NEW d \in Converter, c # d PROVE port'[c] # port'[d]
      <4>1. port[c] # port[d] /\ port[c] \in {0, 1} /\ port[d] \in {0, 1}
        BY <2>2, <3>1 DEF CalibrationTypeOK
      <4>2. port'[c] = 1 - port[c] /\ port'[d] = 1 - port[d]
        BY <2>1
      <4> QED BY <4>1, <4>2
    <3> QED BY <3>1
  <2>5. CalibrationTypeOK'
    BY <1>2, <2>1, <2>3, <2>4 DEF CalibrationTypeOK
  <2> QED BY <2>1, <2>5 DEF Agreement, Settled, FollowOK, CombinationOK
<1>6. CASE CycleMouseMode
  <2>1. /\ Fresh /\ Disturbance
        /\ abandoned' = (abandoned \/ \E c \in Converter : operating_state[c] # kEffective)
        /\ saving = "no"
        /\ UNCHANGED <<calibration, valid, stored, port, saving, adjustments>>
    BY <1>6 DEF CycleMouseMode, flash
  <2>2. CalibrationTypeOK'
    BY <1>2, <2>1, FreshFacts DEF CalibrationTypeOK
  <2>3. Agreement => Agreement'
    BY <2>1 DEF Agreement, Settled
  <2> QED BY <2>1, <2>2, <2>3, FreshFacts
<1>7. CASE PowerCycle
  <2>1. /\ Fresh /\ Disturbance /\ calibration' = LoadedTable(Default)
        /\ saving' = "no" /\ abandoned' = FALSE
        /\ UNCHANGED <<valid, stored, port, adjustments>>
    BY <1>7 DEF PowerCycle, flash
  <2>2. calibration' \in Table
    BY <2>1 DEF LoadedTable, CalibrationTypeOK, Default, Table
  <2>3. CalibrationTypeOK'
    BY <1>2, <2>1, <2>2, FreshFacts DEF CalibrationTypeOK
  <2>4. Agreement'
    BY <2>1 DEF Agreement, LoadedTable
  <2> QED BY <2>1, <2>3, <2>4, FreshFacts
<1> QED BY <1>3, <1>4, <1>5, <1>6, <1>7

\* When a report leaves nobody calibrating, its converter was not, or reloaded the table.
LEMMA ReportAgreement ==
    ASSUME CalibrationTypeOK, Agreement,
           NEW c \in Converter, NEW b \in Buttons, NEW w \in Turns(c), CalibrationReport(c, b, w)
    PROVE  Agreement'
<1> SUFFICES ASSUME Settled', valid' PROVE calibration' = stored'
  BY DEF Agreement
<1>1. saving = "no" /\ valid' = valid /\ stored' = stored
  BY DEF CalibrationReport, flash
<1>2. saving' = "no" /\ ~abandoned' /\ \A o \in Converter : operating_state'[o] = kEffective
  BY DEF Settled
<1>3. CASE calibration' = stored
  BY <1>1, <1>3
<1>4. CASE calibration' # stored
  <2>1. ~abandoned /\ operating_state[c] = kEffective /\ calibration' = calibration
    BY <1>1, <1>2, <1>4, ReportFacts
  <2>2. \A o \in Converter : operating_state[o] = kEffective
    BY <1>2, <2>1, ReportFacts
  <2> QED BY <1>1, <2>1, <2>2 DEF Agreement, Settled
<1> QED BY <1>3, <1>4

\* The tables, combinations, timeouts and ports keep their types, whatever is pressed.
THEOREM CalibrationTypeCorrect == CalibrationSpec => []CalibrationTypeOK
<1>1. CalibrationInit => CalibrationTypeOK
  BY CalibrationInitOK
<1>2. CalibrationTypeOK /\ [CalibrationNext]_calibrationVars => CalibrationTypeOK'
  <2> SUFFICES ASSUME CalibrationTypeOK, [CalibrationNext]_calibrationVars PROVE CalibrationTypeOK'
    OBVIOUS
  <2>1. CASE UNCHANGED calibrationVars
    BY <2>1 DEF calibrationVars, CalibrationTypeOK
  <2>2. CASE CalibrationNext
    BY <2>2, ReportTypes, OtherSteps DEF CalibrationNext
  <2> QED BY <2>1, <2>2
<1> QED BY <1>1, <1>2, PTL DEF CalibrationSpec

\* While a table is stored, nobody calibrates or left a calibration half way, the table in
\* use is the one that the next power-on finds, whoever of the mice changed, saved or
\* aborted what (save_calibration_data, load_calibration_data).
THEOREM AgreementAlways == CalibrationSpec => []Agreement
<1>1. CalibrationInit => Agreement
  BY CalibrationInitOK
<1>2. CalibrationTypeOK /\ Agreement /\ [CalibrationNext]_calibrationVars => Agreement'
  <2> SUFFICES ASSUME CalibrationTypeOK, Agreement, [CalibrationNext]_calibrationVars
               PROVE  Agreement'
    OBVIOUS
  <2>1. CASE UNCHANGED calibrationVars
    BY <2>1 DEF calibrationVars, Agreement, Settled
  <2>2. CASE CalibrationNext
    BY <2>2, ReportAgreement, OtherSteps DEF CalibrationNext
  <2> QED BY <2>1, <2>2
<1> QED BY <1>1, <1>2, CalibrationTypeCorrect, PTL DEF CalibrationSpec

\* Two left, three right and the middle button, begun when the mouse was quiet and pressed
\* without a pause, start the calibration, for every timeout, whatever was pressed before
\* and also in one report with others (check_calibration_mode_enter_criteria).
THEOREM CombinationEntersAlways ==
    ASSUME Combination = Expected
    PROVE  CalibrationSpec => CombinationEnters
<1> DEFINE Enters == \A c \in Converter :
                         matched'[c] = Len(Combination) /\ matched[c] # Len(Combination)
                             => operating_state'[c] # kEffective
<1>1. Len(Combination) = 6
  BY DEF Expected
<1>2. CalibrationInit => FollowOK
  BY CalibrationInitOK
<1>3. CalibrationTypeOK /\ FollowOK /\ [CalibrationNext]_calibrationVars
        => FollowOK' /\ [Enters]_calibrationVars
  <2> SUFFICES ASSUME CalibrationTypeOK, FollowOK, [CalibrationNext]_calibrationVars
               PROVE  FollowOK' /\ [Enters]_calibrationVars
    OBVIOUS
  <2>1. CASE UNCHANGED calibrationVars
    BY <2>1 DEF calibrationVars, FollowOK, CombinationOK
  <2>2. ASSUME NEW c \in Converter, NEW b \in Buttons, NEW w \in Turns(c),
               CalibrationReport(c, b, w)
        PROVE  FollowOK' /\ Enters
    BY <1>1, <2>2, ReportFollow
  <2>3. CASE Erase \/ Program \/ Swap \/ CycleMouseMode \/ PowerCycle
    BY <1>1, <2>3, OtherSteps
  <2> QED BY <2>1, <2>2, <2>3 DEF CalibrationNext
<1> QED BY <1>2, <1>3, CalibrationTypeCorrect, PTL DEF CalibrationSpec, CombinationEnters
=============================================================================
