------------------------ MODULE ModePersistence_proofs ------------------------
(***************************************************************************)
(* Proofs about SmallFee, for every width of a byte and every size of the  *)
(* sector, and about the mouse mode that is kept in it, under the          *)
(* assumption that power does not fail during an erase: an interrupted     *)
(* erase may leave used bytes behind clean ones, and the log has no shape  *)
(* then.                                                                   *)
(***************************************************************************)
EXTENDS ModePersistence, TLAPS

\* f is used up to n and clean from there on.
Shape(f, n) == /\ f \in [Offset -> Byte]
               /\ n \in 0 .. FLASH_SECTOR_SIZE
               /\ \A i \in Offset : f[i] = Clean <=> i >= n

\* What the steps keep: the log has its shape, the argument of write_config is
\* never the value of a clean byte, and the driver is called with room left.
IInv == /\ FeeTypeOK
        /\ LogShape
        /\ Recoverable
        /\ step # "idle" => TopBit \notin config
        /\ step = "program" => next_write_offset < FLASH_SECTOR_SIZE
        /\ step = "erase" => next_write_offset = FLASH_SECTOR_SIZE

\* The scan of a log ends behind its last used byte.
LEMMA FirstCleanOK ==
    ASSUME NEW f, NEW n, Shape(f, n)
    PROVE  FirstClean(f) = n
<1> DEFINE P(k) == /\ \A i \in Offset : i < k => f[i] # Clean
                   /\ k = FLASH_SECTOR_SIZE \/ f[k] = Clean
<1>1. n \in 0 .. FLASH_SECTOR_SIZE /\ n \in Nat /\ FLASH_SECTOR_SIZE \in Nat
  BY SmallFeeAssumption DEF Shape
<1>2. P(n)
  BY <1>1 DEF Shape, Offset
<1>3. ASSUME NEW k \in 0 .. FLASH_SECTOR_SIZE, P(k)
      PROVE  k = n
  <2>1. CASE k < n
    BY <1>1, <1>3, <2>1 DEF Shape, Offset
  <2>2. CASE n < k
    BY <1>1, <1>3, <2>2 DEF Shape, Offset
  <2> QED BY <1>1, <1>3, <2>1, <2>2
<1>4. FirstClean(f) = CHOOSE k \in 0 .. FLASH_SECTOR_SIZE : P(k)
  BY DEF FirstClean
<1> HIDE DEF P
<1> QED BY <1>1, <1>2, <1>3, <1>4

\* Appending a byte that is not clean, or torn on the way there.
LEMMA AppendOK ==
    ASSUME NEW f, NEW n, Shape(f, n), n < FLASH_SECTOR_SIZE, NEW b \in Byte
    PROVE  /\ b # Clean => Shape([f EXCEPT ![n] = b], n + 1)
           /\ b = Clean => [f EXCEPT ![n] = b] = f
<1>1. n \in Offset /\ n \in Nat /\ FLASH_SECTOR_SIZE \in Nat /\ f[n] = Clean
  BY SmallFeeAssumption DEF Shape, Offset
<1>2. f \in [Offset -> Byte]
  BY DEF Shape
<1>3. ASSUME b # Clean
      PROVE  Shape([f EXCEPT ![n] = b], n + 1)
  BY <1>1, <1>2, <1>3 DEF Shape, Offset
<1>4. ASSUME b = Clean
      PROVE  [f EXCEPT ![n] = b] = f
  BY <1>1, <1>2, <1>4
<1> QED BY <1>3, <1>4

\* The shape of the log, as its own fact.
LEMMA IInvShape == IInv => Shape(flash, next_write_offset)
  BY DEF IInv, FeeTypeOK, LogShape, Shape

\* A sector as delivered satisfies the invariant.
LEMMA InitIInv == FeeInit => IInv
<1> SUFFICES ASSUME FeeInit PROVE IInv
  OBVIOUS
<1>1. Shape(flash, 0)
  BY SmallFeeAssumption DEF FeeInit, Shape, Clean, Byte, Offset
<1>2. FirstClean(flash) = 0
  BY <1>1, FirstCleanOK
<1>3. Recoverable
  BY <1>2 DEF Recoverable, Recovered, FeeInit
<1> QED BY <1>1, <1>3, SmallFeeAssumption
        DEF FeeInit, IInv, FeeTypeOK, LogShape, Shape, Byte

\* write_config starts an erase on a full sector, a program on any other.
LEMMA WriteConfigStep ==
    ASSUME IInv, NEW value \in Byte, WriteConfig(value)
    PROVE  IInv'
<1>1. value \ {TopBit} \in Byte
  BY DEF Byte
<1>2. UNCHANGED <<flash, next_write_offset, config_byte_cache>> /\ step = "idle"
  BY DEF WriteConfig
<1>3. CASE value \ {TopBit} = config_byte_cache
  <2>1. UNCHANGED fee
    BY <1>2, <1>3 DEF WriteConfig, fee
  <2> QED BY <2>1 DEF IInv, fee, FeeTypeOK, LogShape, Recoverable
<1>4. CASE value \ {TopBit} # config_byte_cache
  <2>1. /\ config' = value \ {TopBit}
        /\ step' = IF next_write_offset >= FLASH_SECTOR_SIZE THEN "erase" ELSE "program"
    BY <1>4 DEF WriteConfig
  <2>2. TopBit \notin config' /\ step' # "idle"
    BY <2>1
  <2>3. FeeTypeOK' /\ LogShape'
    BY <1>1, <1>2, <2>1 DEF IInv, FeeTypeOK, LogShape
  <2>4. Recoverable'
    BY <2>2 DEF Recoverable
  <2>5. /\ step' = "program" => next_write_offset' < FLASH_SECTOR_SIZE
        /\ step' = "erase" => next_write_offset' = FLASH_SECTOR_SIZE
    BY <1>2, <2>1, SmallFeeAssumption DEF IInv, FeeTypeOK
  <2> QED BY <2>2, <2>3, <2>4, <2>5 DEF IInv
<1> QED BY <1>3, <1>4

\* After the erase the log is empty.
LEMMA EraseStep ==
    ASSUME IInv, Erase
    PROVE  IInv'
<1>1. /\ step = "erase" /\ flash' = [i \in Offset |-> Clean] /\ next_write_offset' = 0
      /\ step' = "program" /\ config_byte_cache' = config_byte_cache /\ config' = config
  BY DEF Erase
<1>2. FeeTypeOK' /\ LogShape'
  BY <1>1, SmallFeeAssumption DEF IInv, FeeTypeOK, LogShape, Clean, Byte, Offset
<1> QED BY <1>1, <1>2, SmallFeeAssumption DEF IInv, Recoverable

\* A program appends a byte that is not clean, for its top bit is 0.
LEMMA ProgramStep ==
    ASSUME IInv, Program
    PROVE  IInv'
<1>1. /\ step = "program"
      /\ flash' = [flash EXCEPT ![next_write_offset] = @ \cap config]
      /\ config_byte_cache' = config
      /\ next_write_offset' = next_write_offset + 1
      /\ step' = "idle"
      /\ config' = config
  BY DEF Program
<1>2. /\ Shape(flash, next_write_offset) /\ next_write_offset < FLASH_SECTOR_SIZE
      /\ config \in Byte /\ TopBit \notin config
      /\ next_write_offset \in Nat /\ FLASH_SECTOR_SIZE \in Nat
  BY <1>1, IInvShape, SmallFeeAssumption DEF IInv, FeeTypeOK
<1>3. next_write_offset \in Offset /\ flash[next_write_offset] = Clean
  BY <1>2 DEF Shape, Offset
<1>4. flash[next_write_offset] \cap config = config /\ config # Clean
  BY <1>2, <1>3, SmallFeeAssumption DEF Clean, Byte
<1>5. flash' = [flash EXCEPT ![next_write_offset] = config]
  BY <1>1, <1>4
<1>6. Shape(flash', next_write_offset')
  <2>1. Shape([flash EXCEPT ![next_write_offset] = config], next_write_offset + 1)
    BY <1>2, <1>4, AppendOK
  <2> QED BY <1>1, <1>5, <2>1
<1>7. flash'[next_write_offset] = config
  BY <1>2, <1>3, <1>5 DEF Shape
<1>8. FirstClean(flash') = next_write_offset'
  BY <1>6, FirstCleanOK
<1>9. Recoverable'
  BY <1>1, <1>2, <1>7, <1>8 DEF Recoverable, Recovered
<1> QED BY <1>1, <1>2, <1>6, <1>9 DEF IInv, FeeTypeOK, LogShape, Shape

\* The scan after a power failure finds the end of the log, torn or not.
LEMMA PowerCycleStep ==
    ASSUME IInv, PowerCycle, "erase" \notin PowerFailure
    PROVE  IInv'
<1>1. /\ flash' \in Torn /\ next_write_offset' = FirstClean(flash')
      /\ config_byte_cache' = Recovered(flash')
      /\ step' = "idle" /\ config' = {}
  BY DEF PowerCycle
<1>2. step = "idle" \/ step = "program"
  BY SmallFeeAssumption DEF PowerCycle
<1>3. Shape(flash, next_write_offset)
  BY IInvShape
<1>4. PICK n : Shape(flash', n)
  <2>1. CASE step = "idle"
    BY <1>1, <1>3, <2>1 DEF Torn
  <2>2. CASE step = "program"
    <3>1. PICK b \in Byte : flash' = [flash EXCEPT ![next_write_offset] = b]
      BY <1>1, <2>2 DEF Torn, HalfProgrammed
    <3>2. next_write_offset < FLASH_SECTOR_SIZE
      BY <2>2 DEF IInv
    <3>3. CASE b # Clean
      <4>1. Shape([flash EXCEPT ![next_write_offset] = b], next_write_offset + 1)
        BY <1>3, <3>2, <3>3, AppendOK
      <4> QED BY <3>1, <4>1
    <3>4. CASE b = Clean
      <4>1. [flash EXCEPT ![next_write_offset] = b] = flash
        BY <1>3, <3>2, <3>4, AppendOK
      <4> QED BY <1>3, <3>1, <4>1
    <3> QED BY <3>3, <3>4
  <2> QED BY <1>2, <2>1, <2>2
<1>5. FirstClean(flash') = n
  BY <1>4, FirstCleanOK
<1>6. Shape(flash', next_write_offset')
  BY <1>1, <1>4, <1>5
<1>7. config_byte_cache' \in Byte
  BY <1>1, <1>4, <1>5, SmallFeeAssumption DEF Recovered, Shape, Offset, Byte
<1>8. FeeTypeOK' /\ LogShape' /\ Recoverable'
  BY <1>1, <1>6, <1>7 DEF FeeTypeOK, LogShape, Recoverable, Shape, Byte
<1> QED BY <1>1, <1>8 DEF IInv

\* Every action keeps the invariant, if power does not fail in an erase.
LEMMA NextIInv ==
    ASSUME "erase" \notin PowerFailure
    PROVE  IInv /\ [FeeNext]_fee => IInv'
<1> SUFFICES ASSUME IInv, [FeeNext]_fee PROVE IInv'
  OBVIOUS
<1>1. ASSUME NEW value \in Byte, WriteConfig(value) PROVE IInv'
  BY <1>1, WriteConfigStep
<1>2. CASE Erase
  BY <1>2, EraseStep
<1>3. CASE Program
  BY <1>3, ProgramStep
<1>4. CASE PowerCycle
  BY <1>4, PowerCycleStep
<1>5. CASE UNCHANGED fee
  BY <1>5 DEF fee, IInv, FeeTypeOK, LogShape, Recoverable
<1> QED BY <1>1, <1>2, <1>3, <1>4, <1>5 DEF FeeNext
-----------------------------------------------------------------------------
\* The invariant holds throughout.
THEOREM Invariance ==
    ASSUME "erase" \notin PowerFailure
    PROVE  Spec => []IInv
<1>1. FeeInit => IInv
  BY InitIInv
<1>2. IInv /\ [FeeNext]_fee => IInv'
  BY NextIInv
<1> QED BY <1>1, <1>2, PTL DEF Spec

\* Every program finds a clean byte, and every scan ends where the next program
\* will write.
THEOREM LogShapeAlways ==
    ASSUME "erase" \notin PowerFailure
    PROVE  Spec => []LogShape
<1>1. IInv => LogShape
  BY DEF IInv
<1> QED BY <1>1, Invariance, PTL

\* The next power-on finds the current configuration unless the sector is full.
THEOREM RecoverableAlways ==
    ASSUME "erase" \notin PowerFailure
    PROVE  Spec => []Recoverable
<1>1. IInv => Recoverable
  BY DEF IInv
<1> QED BY <1>1, Invariance, PTL

\* Used bytes stay as they are until the full sector is erased.
THEOREM WearLevelledAlways ==
    ASSUME "erase" \notin PowerFailure
    PROVE  Spec => WearLevelled
<1> DEFINE Wear ==
      /\ \A i \in Offset : flash[i] # Clean /\ flash'[i] # flash[i] => step = "erase"
      /\ step' = "erase" /\ step # "erase" => \A i \in Offset : flash[i] # Clean
<1>1. IInv /\ [FeeNext]_fee => [Wear]_fee
  <2> SUFFICES ASSUME IInv, FeeNext PROVE Wear
    OBVIOUS
  <2>1. ASSUME NEW value \in Byte, WriteConfig(value) PROVE Wear
    <3>1. flash' = flash
      BY <2>1 DEF WriteConfig
    <3>2. ASSUME step' = "erase", step # "erase"
          PROVE  \A i \in Offset : flash[i] # Clean
      <4>1. next_write_offset >= FLASH_SECTOR_SIZE
        BY <2>1, <3>2 DEF WriteConfig
      <4> QED BY <4>1, SmallFeeAssumption DEF IInv, FeeTypeOK, LogShape, Offset
    <3> QED BY <3>1, <3>2
  <2>2. CASE Erase
    BY <2>2 DEF Erase
  <2>3. CASE Program
    <3>1. flash[next_write_offset] = Clean /\ step' = "idle"
      BY <2>3, SmallFeeAssumption DEF Program, IInv, FeeTypeOK, LogShape, Offset
    <3>2. \A i \in Offset : i # next_write_offset => flash'[i] = flash[i]
      BY <2>3 DEF Program, IInv, FeeTypeOK
    <3> QED BY <3>1, <3>2
  <2>4. CASE PowerCycle
    <3>1. step' = "idle" /\ flash' \in Torn /\ step \in {"idle", "program"}
      BY <2>4, SmallFeeAssumption DEF PowerCycle
    <3>2. CASE step = "idle"
      BY <3>1, <3>2 DEF Torn
    <3>3. CASE step = "program"
      <4>1. PICK b \in Byte : flash' = [flash EXCEPT ![next_write_offset] = b]
        BY <3>1, <3>3 DEF Torn, HalfProgrammed
      <4>2. flash[next_write_offset] = Clean
        BY <3>3, SmallFeeAssumption DEF IInv, FeeTypeOK, LogShape, Offset
      <4>3. \A i \in Offset : i # next_write_offset => flash'[i] = flash[i]
        BY <4>1 DEF IInv, FeeTypeOK
      <4> QED BY <3>1, <4>2, <4>3
    <3> QED BY <3>1, <3>2, <3>3
  <2> QED BY <2>1, <2>2, <2>3, <2>4 DEF FeeNext
<1>2. Spec => [][Wear]_fee
  BY <1>1, Invariance, PTL DEF Spec
<1> QED BY <1>2 DEF WearLevelled
-----------------------------------------------------------------------------
(* The mouse mode                                                          *)

\* A byte is the number its bits stand for, up to 255.
LEMMA ValueFacts ==
    ASSUME NEW byte \in Byte
    PROVE  /\ Value(byte) \in 0 .. 255
           /\ Value(byte) < 128 <=> TopBit \notin byte
  BY ModePersistenceAssumption DEF Value

\* The modes that cycle_mouse_mode sets are bytes, and masking leaves them alone.
LEMMA ModeByte ==
    ASSUME NEW m \in 0 .. 2
    PROVE  /\ ByteOf(m) \in Byte /\ Value(ByteOf(m)) = m
           /\ ByteOf(m) \ {TopBit} = ByteOf(m)
           /\ \E byte \in Byte : m = Value(byte)
<1>1. {} \in Byte /\ {"b0"} \in Byte /\ {"b1"} \in Byte
  BY ModePersistenceAssumption DEF Byte
<1>2. Value({}) = 0 /\ Value({"b0"}) = 1 /\ Value({"b1"}) = 2
  BY DEF Value
<1>3. PICK byte \in Byte : m = Value(byte)
  <2>1. m = 0 \/ m = 1 \/ m = 2
    OBVIOUS
  <2> QED BY <1>1, <1>2, <2>1
<1>4. ByteOf(m) \in Byte /\ Value(ByteOf(m)) = m
  BY <1>3 DEF ByteOf
<1>5. TopBit \notin ByteOf(m)
  BY <1>4, ValueFacts
<1> QED BY <1>3, <1>4, <1>5

\* What the flash keeps for the mode: the byte of the mode in use, unless a change waits.
\* write_config runs only after the change was taken.
ModeStored ==
    /\ mouse_mode_dirty => mouse_mode \in 0 .. 2 /\ step = "idle"
    /\ ~mouse_mode_dirty => mouse_mode = Value(IF step = "idle" THEN config_byte_cache ELSE config)

ModeInv == TypeOK /\ IInv /\ ModeStored

\* Sums of times on the clock are times.
LEMMA ClockFacts ==
    ASSUME NEW n \in Nat
    PROVE  n % ClockMod \in 0 .. ClockMod - 1 /\ 0 \in 0 .. ClockMod - 1
  BY ModePersistenceAssumption

\* A board as delivered is in mode 0, which is what an empty sector stands for.
LEMMA InitModeInv == Init => ModeInv
<1> SUFFICES ASSUME Init PROVE ModeInv
  OBVIOUS
<1>1. IInv
  BY InitIInv DEF Init
<1>2. config_byte_cache = {} /\ step = "idle" /\ Value({}) = 0 /\ {} \in Byte
  BY DEF Init, FeeInit, Value, Byte
<1>3. TypeOK
  BY <1>1, <1>2, ClockFacts DEF IInv, Init, TypeOK
<1>4. ModeStored
  BY <1>2 DEF Init, ModeStored
<1> QED BY <1>1, <1>3, <1>4 DEF ModeInv

\* A step of ModePersistence is one of SmallFee for its variables.
LEMMA FeeStep ==
    ASSUME ModeInv, [Next]_vars
    PROVE  [FeeNext]_fee
<1>1. CASE Tick
  BY <1>1 DEF Tick
<1>2. CASE CycleMouseMode
  BY <1>2 DEF CycleMouseMode
<1>3. CASE Run
  <2>1. CASE Expired
    <3>1. ByteOf(mouse_mode) \in Byte
      BY <2>1, ModeByte DEF Expired, ModeInv, ModeStored
    <3>2. WriteConfig(ByteOf(mouse_mode))
      BY <1>3, <2>1 DEF Run
    <3> QED BY <3>1, <3>2 DEF FeeNext
  <2>2. CASE ~Expired
    BY <1>3, <2>2 DEF Run
  <2> QED BY <2>1, <2>2
<1>4. CASE FlashDriver
  BY <1>4 DEF FlashDriver, FeeNext
<1>5. CASE Restart
  BY <1>5 DEF Restart, FeeNext
<1>6. CASE UNCHANGED vars
  BY <1>6 DEF vars
<1> QED BY <1>1, <1>2, <1>3, <1>4, <1>5, <1>6 DEF Next

\* Every step keeps the byte of the mode.
LEMMA NextModeInv ==
    ASSUME "erase" \notin PowerFailure, ModeInv, [Next]_vars
    PROVE  ModeInv'
<1>1. IInv'
  BY FeeStep, NextIInv DEF ModeInv
<1>2. FeeTypeOK /\ FeeTypeOK' /\ TypeOK /\ ModeStored
  BY <1>1 DEF ModeInv, IInv
<1>3. now \in Nat /\ WriteBackDelay \in Nat /\ ClockMod \in Nat
  BY <1>2, ModePersistenceAssumption DEF TypeOK
<1>4. CASE Tick
  <2>1. /\ now' = (now + 1) % ClockMod /\ due' = TRUE
        /\ UNCHANGED <<fee, mouse_mode, mouse_mode_dirty, mouse_mode_write_back_at>>
    BY <1>4 DEF Tick
  <2>2. now' \in 0 .. ClockMod - 1
    BY <1>3, <2>1, ClockFacts
  <2>3. TypeOK'
    BY <1>2, <2>1, <2>2 DEF TypeOK
  <2>4. ModeStored'
    BY <1>2, <2>1 DEF ModeStored, fee
  <2> QED BY <1>1, <2>3, <2>4 DEF ModeInv
<1>5. CASE CycleMouseMode
  <2>1. /\ step = "idle" /\ mouse_mode' = (mouse_mode + 1) % 3 /\ mouse_mode_dirty' = TRUE
        /\ mouse_mode_write_back_at' = (now + WriteBackDelay) % ClockMod
        /\ UNCHANGED <<fee, now, due>>
    BY <1>5 DEF CycleMouseMode
  <2>2. mouse_mode \in Nat
    <3>1. PICK byte \in Byte : mouse_mode = Value(byte)
      BY <1>2 DEF TypeOK
    <3> QED BY <3>1, ValueFacts
  <2>3. mouse_mode' \in 0 .. 2
    BY <2>1, <2>2
  <2>4. mouse_mode_write_back_at' \in 0 .. ClockMod - 1
    BY <1>3, <2>1, ClockFacts
  <2>5. \E byte \in Byte : mouse_mode' = Value(byte)
    BY <2>3, ModeByte
  <2>6. TypeOK'
    BY <1>2, <2>1, <2>4, <2>5 DEF TypeOK
  <2>7. ModeStored'
    BY <2>1, <2>3 DEF ModeStored, fee
  <2> QED BY <1>1, <2>6, <2>7 DEF ModeInv
<1>6. CASE Run
  <2>1. /\ step = "idle" /\ due' = FALSE
        /\ UNCHANGED <<mouse_mode, mouse_mode_write_back_at, now>>
    BY <1>6 DEF Run
  <2>2. CASE Expired
    <3>1. /\ WriteConfig(ByteOf(mouse_mode)) /\ mouse_mode_dirty' = FALSE
      BY <1>6, <2>2 DEF Run
    <3>2. /\ Value(ByteOf(mouse_mode)) = mouse_mode
          /\ ByteOf(mouse_mode) \ {TopBit} = ByteOf(mouse_mode)
      BY <1>2, <2>2, ModeByte DEF Expired, ModeStored
    <3>3. CASE ByteOf(mouse_mode) = config_byte_cache
      <4>1. step' = "idle" /\ config_byte_cache' = config_byte_cache
        BY <2>1, <3>1, <3>2, <3>3 DEF WriteConfig
      <4> QED BY <1>1, <1>2, <2>1, <3>1, <3>2, <3>3, <4>1 DEF ModeInv, ModeStored, TypeOK
    <3>4. CASE ByteOf(mouse_mode) # config_byte_cache
      <4>1. step' # "idle" /\ config' = ByteOf(mouse_mode)
        BY <3>1, <3>2, <3>4 DEF WriteConfig
      <4> QED BY <1>1, <1>2, <2>1, <3>1, <3>2, <4>1 DEF ModeInv, ModeStored, TypeOK
    <3> QED BY <3>3, <3>4
  <2>3. CASE ~Expired
    <3>1. UNCHANGED <<fee, mouse_mode_dirty>>
      BY <1>6, <2>3 DEF Run
    <3> QED BY <1>1, <1>2, <2>1, <3>1 DEF ModeInv, ModeStored, TypeOK, fee
  <2> QED BY <2>2, <2>3
<1>7. CASE FlashDriver
  <2>1. UNCHANGED <<mouse_mode, mouse_mode_dirty, mouse_mode_write_back_at, now, due>>
    BY <1>7 DEF FlashDriver
  <2>2. TypeOK'
    BY <1>2, <2>1 DEF TypeOK
  <2>3. step # "idle" /\ ~mouse_mode_dirty /\ mouse_mode = Value(config)
    BY <1>2, <1>7 DEF FlashDriver, Erase, Program, ModeStored
  <2>4. \/ step' # "idle" /\ config' = config
        \/ step' = "idle" /\ config_byte_cache' = config
    BY <1>7 DEF FlashDriver, Erase, Program
  <2>5. ModeStored'
    BY <2>1, <2>3, <2>4 DEF ModeStored
  <2> QED BY <1>1, <2>2, <2>5 DEF ModeInv
<1>8. CASE Restart
  <2>1. /\ mouse_mode' = Value(config_byte_cache') /\ mouse_mode_dirty' = FALSE
        /\ mouse_mode_write_back_at' = 0 /\ now' = 0 /\ due' = FALSE /\ step' = "idle"
    BY <1>8 DEF Restart, PowerCycle
  <2>2. config_byte_cache' \in Byte
    BY <1>2 DEF FeeTypeOK
  <2>3. TypeOK'
    BY <1>2, <2>1, <2>2, ClockFacts DEF TypeOK
  <2>4. ModeStored'
    BY <2>1 DEF ModeStored
  <2> QED BY <1>1, <2>3, <2>4 DEF ModeInv
<1>9. CASE UNCHANGED vars
  BY <1>1, <1>2, <1>9 DEF vars, fee, ModeInv, ModeStored, TypeOK
<1> QED BY <1>4, <1>5, <1>6, <1>7, <1>8, <1>9 DEF Next

\* In every state.
LEMMA ModeInvariance ==
    ASSUME "erase" \notin PowerFailure
    PROVE  ModeSpec => []ModeInv
<1>1. Init => ModeInv
  BY InitModeInv
<1>2. ModeInv /\ [Next]_vars => ModeInv'
  BY NextModeInv
<1> QED BY <1>1, <1>2, PTL DEF ModeSpec

\* The mode, its timer and the flash keep their types.
THEOREM TypeCorrect ==
    ASSUME "erase" \notin PowerFailure
    PROVE  ModeSpec => []TypeOK
<1>1. ModeInv => TypeOK
  BY DEF ModeInv
<1> QED BY <1>1, ModeInvariance, PTL

\* The mode is one user of the flash emulation: what it makes of SmallFee's variables is
\* a behaviour of SmallFee, to which the theorems above apply (Pipeline::run,
\* write_config).
THEOREM ModeImplementsFee ==
    ASSUME "erase" \notin PowerFailure
    PROVE  ModeSpec => Spec
<1>1. Init => FeeInit
  BY DEF Init
<1>2. ModeInv /\ [Next]_vars => [FeeNext]_fee
  BY FeeStep
<1> QED BY <1>1, <1>2, ModeInvariance, PTL DEF ModeSpec, Spec

\* The log keeps its shape, is recovered and worn evenly whatever becomes of the modes.
COROLLARY ModeFlash ==
    ASSUME "erase" \notin PowerFailure
    PROVE  ModeSpec => []LogShape /\ []Recoverable /\ WearLevelled
  BY ModeImplementsFee, LogShapeAlways, RecoverableAlways, WearLevelledAlways, PTL

\* Unless a change waits or the sector is full, the board comes back in the mode that it
\* was in (cycle_mouse_mode, the constructor of Pipeline).
THEOREM ModeSurvivesAlways ==
    ASSUME "erase" \notin PowerFailure
    PROVE  ModeSpec => ModeSurvives
<1> DEFINE Survives == (/\ ~mouse_mode_dirty /\ ~mouse_mode_dirty'
                        /\ step = "idle" /\ next_write_offset < FLASH_SECTOR_SIZE)
                          => mouse_mode' = mouse_mode
<1>1. ModeInv /\ [Next]_vars => [Survives]_vars
  <2> SUFFICES ASSUME ModeInv, Next, ~mouse_mode_dirty, ~mouse_mode_dirty', step = "idle",
                      next_write_offset < FLASH_SECTOR_SIZE
               PROVE  mouse_mode' = mouse_mode
    OBVIOUS
  <2>1. CASE Restart
    <3>1. flash' = flash /\ mouse_mode' = Value(Recovered(flash))
      BY <2>1 DEF Restart, PowerCycle, Torn
    <3>2. Recovered(flash) = config_byte_cache
      BY DEF ModeInv, IInv, Recoverable
    <3>3. mouse_mode = Value(config_byte_cache)
      BY DEF ModeInv, ModeStored
    <3> QED BY <3>1, <3>2, <3>3
  <2>2. CASE Tick \/ Run \/ FlashDriver
    BY <2>2 DEF Tick, Run, FlashDriver
  <2>3. CASE CycleMouseMode
    BY <2>3 DEF CycleMouseMode
  <2> QED BY <2>1, <2>2, <2>3 DEF Next
<1>2. ModeSpec => [][Survives]_vars
  BY <1>1, ModeInvariance, PTL DEF ModeSpec
<1> QED BY <1>2 DEF ModeSurvives
=============================================================================
